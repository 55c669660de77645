---------------------------- MODULE JobQueueDesk ----------------------------
(***************************************************************************)
(* The job queue implements IssueDesk: an issue's work is its queued or    *)
(* running job, and the ticket is the job's number.                        *)
(***************************************************************************)
EXTENDS JobQueue

ActiveJobs(i) == {j \in Jobs : IssueOf(j) = i /\ status[j] \in ActiveStatus}

WorkOf(i) == IF ActiveJobs(i) = {} THEN [stage |-> "none", ticket |-> 0]
             ELSE LET j == CHOOSE j \in ActiveJobs(i) : TRUE
                  IN  [stage |-> status[j], ticket |-> j]

Desk == INSTANCE IssueDesk WITH Tickets <- MaxJobs, issued <- created,
                                desk <- [i \in Issues |-> WorkOf(i)]

\* Poller, webhook, rules, retries, cancels, stuck handlers that answer late,
\* prunes and restarts together keep the promise: work accepted for an issue
\* is new, no two pieces of work for one issue overlap, and a job that ended,
\* whichever way its row is written afterwards, never becomes work again.
ImplementsDesk == Desk!Spec
=============================================================================
