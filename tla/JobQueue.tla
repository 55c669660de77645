------------------------------ MODULE JobQueue ------------------------------
(***************************************************************************)
(* src/queue/job-queue.ts with src/queue/job-lifecycle.ts and              *)
(* src/queue/stuck-monitor.ts, on top of the store, the scheduler and the  *)
(* error tracker, driven by everything that calls the queue: the poller,   *)
(* the webhook, automation rules, the dashboard API, the stuck monitor,    *)
(* signals and the death of the process.                                   *)
(*                                                                         *)
(* Node runs one callback at a time, up to its next await.  An action is   *)
(* one such stretch; processNext, called at the end of many of them, is    *)
(* the stretch of steps during which loop # "idle" (see JobScheduler).     *)
(***************************************************************************)
EXTENDS JobScheduler

CONSTANTS MaxRetryCalls,    (* bound: retryJob calls in flight for one job *)
          PriorityChoices,  (* priorities the operator sets                *)
          Events            (* which kinds of event an instance exercises  *)

EventKinds == {"automation", "poll", "autoRetry", "webhook", "earlyPR", "retry", "cancel",
               "delete", "priority", "config", "throw", "stuck", "tracker",
               "shutdown", "crash"}

ASSUME QueueAssumption == /\ MaxRetryCalls \in Nat
                          /\ PriorityChoices \subseteq Priorities
                          /\ Events \subseteq EventKinds

VARIABLES executing,        (* jobs whose JobLifecycle.execute is awaiting *)
                            (* its handler                                 *)
          cancelled,        (* cancel flags shared with the lifecycle      *)
          stuckAborted,     (* stuck flags shared with the lifecycle       *)
          shuttingDown,
          retrying,         (* retryJob calls awaiting their cleanup       *)
          checked           (* issues whose webhook passed the circularity *)
                            (* check and awaits the PR check               *)

flagVars == <<cancelled, stuckAborted>>
requestVars == <<retrying, checked>>
queueOnlyVars == <<executing, flagVars, shuttingDown, requestVars>>
vars == <<storeVars, schedulerVars, trackerVars, queueOnlyVars>>

QueueTypeOK == /\ executing \subseteq Jobs
               /\ cancelled \subseteq Jobs
               /\ stuckAborted \subseteq Jobs
               /\ shuttingDown \in BOOLEAN
               /\ retrying \in [Jobs -> 0..MaxRetryCalls]
               /\ checked \subseteq Issues

TypeOK == StoreTypeOK /\ SchedulerTypeOK /\ TrackerTypeOK /\ QueueTypeOK

Init == /\ StoreInit /\ SchedulerInit /\ TrackerInit
        /\ executing = {} /\ cancelled = {} /\ stuckAborted = {}
        /\ shuttingDown = FALSE
        /\ retrying = [j \in Jobs |-> 0]
        /\ checked = {}

Idle == loop = "idle"

-----------------------------------------------------------------------------
(* enqueue, and its callers *)

\* Mutant: no look at the job the issue has.
EnqueueUnchecked(st, i, ds, retry) ==
  /\ Create(st, i, ds, retry)
  /\ pending' = Append(pending, created + 1)
  /\ loop' = "drain"
  /\ UNCHANGED <<deferred, lastServedRepo, slotVars, limitVars, kicks, trackerVars,
                 executing, flagVars, shuttingDown>>

\* enqueue(): rejected while shutting down or when the issue has an active
\* job; otherwise the issue's newest job is archived and a new one queued.
\* `st' is the status column left by the caller.  Cleanup of the old job's
\* worktree is not part of the queue's state.
Enqueue(st, i, ds, retry) ==
  /\ IF shuttingDown \/ \E j \in FindAny(st, i) : st[j] \in ActiveStatus
     THEN /\ status' = st
          /\ UNCHANGED <<created, info, published, priority, pending, loop>>
     ELSE /\ Create(ArchiveAll(st, FindAny(st, i)), i, ds, retry)
          /\ pending' = Append(pending, created + 1)
          /\ loop' = "drain"
  /\ UNCHANGED <<deferred, lastServedRepo, slotVars, limitVars, kicks, trackerVars,
                 executing, flagVars, shuttingDown>>

\* An automation rule's startJob; also a webhook for an issue that names no
\* dependency, whose checks are those of enqueue itself.
StartByRule(i) == Idle /\ Enqueue(status, i, {}, FALSE) /\ UNCHANGED requestVars

\* The poller takes an issue that has no job that is not archived.  The label
\* query is awaited before, so the project may have been paused meanwhile.
Poll(i) == /\ Idle
           /\ FindAny(status, i) = {}
           /\ Enqueue(status, i, {}, FALSE)
           /\ UNCHANGED requestVars

\* pollFailedJobs, one failed job that is not itself a retry.  That it failed
\* ten minutes ago or more is left open.
PollFailed(j) == /\ Idle
                 /\ status[j] = "failure" /\ ~info[j].isRetry
                 /\ Enqueue(status, IssueOf(j), {}, TRUE)
                 /\ UNCHANGED requestVars

\* checkCircularDependency walks issue numbers over all rows of the store, of
\* any repository: no set closed under stored dependencies avoids the issue.
Circular(i) ==
  LET numbers == {NumberOf[k] : k \in Issues}
      stored(n) == {NumberOf[d] : d \in UNION {info[j].deps :
                      j \in {j \in Jobs : HasRow(status, j) /\ NumberOf[IssueOf(j)] = n}}}
  IN  \A S \in SUBSET numbers :
        /\ {NumberOf[d] : d \in DependsOn[i]} \subseteq S
        /\ \A n \in S : stored(n) \subseteq S
        => NumberOf[i] \in S

\* dispatchEvent up to its await for an issue that names dependencies.
WebhookCheck(i) == /\ Idle
                   /\ DependsOn[i] # {} /\ ~Circular(i)
                   /\ checked' = checked \cup {i}
                   /\ UNCHANGED <<storeVars, schedulerVars, trackerVars, executing, flagVars,
                                  shuttingDown, retrying>>

\* The PR check has answered: merged (or not found), or not merged.
WebhookEnqueue(i) == /\ Idle /\ i \in checked
                     /\ checked' = checked \ {i}
                     /\ Enqueue(status, i, DependsOn[i], FALSE)
                     /\ UNCHANGED retrying

WebhookDefer(i) == /\ Idle /\ i \in checked
                   /\ checked' = checked \ {i}
                   /\ UNCHANGED <<storeVars, schedulerVars, trackerVars, executing, flagVars,
                                  shuttingDown, retrying>>

\* Mutant: the status is not looked at when there is a PR.
RetryJobAnyStatus(j) ==
  /\ Idle
  /\ j \in published
  /\ status' = Put(status, j, "success")
  /\ UNCHANGED <<created, info, published, priority, schedulerVars, trackerVars,
                 queueOnlyVars>>

\* retryJob up to its await: a job that already has a PR becomes a success,
\* otherwise the cleanup starts.
RetryJob(j) ==
  /\ Idle
  /\ status[j] \in {"failure", "cancelled"}
  /\ IF j \in published
     THEN status' = Put(status, j, "success") /\ UNCHANGED retrying
     ELSE /\ retrying[j] < MaxRetryCalls
          /\ retrying' = [retrying EXCEPT ![j] = @ + 1]
          /\ UNCHANGED status
  /\ UNCHANGED <<created, info, published, priority, schedulerVars, trackerVars, executing,
                 flagVars, shuttingDown, checked>>

\* retryJob after its await: the old job is archived whatever it has become,
\* and its issue enqueued without dependencies.
RetryEnqueue(j) == /\ Idle /\ retrying[j] > 0
                   /\ retrying' = [retrying EXCEPT ![j] = @ - 1]
                   /\ Enqueue(Put(status, j, "archived"), IssueOf(j), {}, TRUE)
                   /\ UNCHANGED checked

-----------------------------------------------------------------------------
(* cancel, delete, priority: the dashboard API *)

\* Mutant: the id stays in the queue.
CancelPendingInPlace(j) ==
  /\ Idle
  /\ j \in ToSet(pending)
  /\ status' = Put(status, j, "cancelled")
  /\ UNCHANGED <<created, info, published, priority, schedulerVars, trackerVars,
                 queueOnlyVars>>

CancelPending(j) ==
  /\ Idle
  /\ \E k \in DOMAIN pending : pending[k] = j /\ pending' = RemoveAt(pending, k)
  /\ status' = Put(status, j, "cancelled")
  /\ UNCHANGED <<created, info, published, priority, deferred, lastServedRepo, loop, slotVars,
                 limitVars, kicks, trackerVars, queueOnlyVars>>

\* The daemon runs handlers, not tasks: there is no task to kill, so the
\* handler goes on and the job keeps its slot.
CancelRunning(j) ==
  /\ Idle /\ j \in running
  /\ cancelled' = cancelled \cup {j}
  /\ status' = Put(status, j, "cancelled")
  /\ UNCHANGED <<created, info, published, priority, schedulerVars, trackerVars, executing,
                 stuckAborted, shuttingDown, requestVars>>

DeleteJob(j) == /\ Idle
                /\ HasRow(status, j) /\ status[j] \notin ActiveStatus
                /\ status' = [status EXCEPT ![j] = "deleted"]
                /\ UNCHANGED <<created, info, published, priority, schedulerVars, trackerVars,
                               queueOnlyVars>>

\* Accepted for every row, but only the cached row of an active job keeps it.
SetPriority(j, p) == /\ Idle /\ status[j] \in ActiveStatus
                     /\ priority' = [priority EXCEPT ![j] = p]
                     /\ UNCHANGED <<created, info, status, published, schedulerVars, trackerVars,
                                    queueOnlyVars>>

-----------------------------------------------------------------------------
(* Execution: JobLifecycle.execute and the stuck monitor *)

\* onStartJob: execute() runs up to its first await in the same stretch.
StartJob(k) == /\ Dispatch(k)
               /\ executing' = executing \cup {pending[k]}
               /\ UNCHANGED <<trackerVars, flagVars, shuttingDown, requestVars>>

\* The pipeline has created its PR and logs it; the handler goes on.
LogPullRequest(j) == /\ Idle /\ j \in executing /\ HasRow(status, j)
                     /\ published' = published \cup {j}
                     /\ UNCHANGED <<created, info, status, priority, schedulerVars, trackerVars,
                                    queueOnlyVars>>

\* Common to all ends of execute(): its finally clause.
HandlerEnds(j) == /\ Idle /\ j \in executing
                  /\ executing' = executing \ {j}
                  /\ ReleaseSlot(j)
                  /\ UNCHANGED <<created, info, priority, queueVars, limitVars, shuttingDown,
                                 requestVars>>

\* The handler returns for a job that was cancelled: nothing is written.
ReturnsCancelled(j) == /\ j \in cancelled
                       /\ HandlerEnds(j)
                       /\ cancelled' = cancelled \ {j}
                       /\ stuckAborted' = stuckAborted \ {j}
                       /\ UNCHANGED <<status, published, trackerVars>>

ReturnsPullRequest(j) ==
  /\ j \notin cancelled
  /\ HandlerEnds(j)
  /\ status' = Put(status, j, "success")
  /\ published' = IF HasRow(status, j) THEN published \cup {j} ELSE published
  /\ IF j \in stuckAborted THEN UNCHANGED trackerVars ELSE TrackSuccess(RepoOfJob(j))
  /\ stuckAborted' = stuckAborted \ {j}
  /\ UNCHANGED cancelled

ReturnsError(j) ==
  /\ j \notin cancelled
  /\ HandlerEnds(j)
  /\ status' = Put(status, j, "failure")
  /\ IF j \in stuckAborted THEN UNCHANGED trackerVars ELSE TrackFailure(RepoOfJob(j))
  /\ stuckAborted' = stuckAborted \ {j}
  /\ UNCHANGED <<published, cancelled>>

\* Mutant: the catch clause leaves the row as it is.
ThrowsUnrecorded(j) == /\ HandlerEnds(j)
                       /\ TrackFailure(RepoOfJob(j))
                       /\ UNCHANGED <<status, published, flagVars>>

\* The catch clause looks at neither flag and leaves both set.
Throws(j) == /\ HandlerEnds(j)
             /\ status' = Put(status, j, "failure")
             /\ TrackFailure(RepoOfJob(j))
             /\ UNCHANGED <<published, flagVars>>

\* checkStuckJobs finds a job of the running set silent for too long, whatever
\* its status; the handler is not stopped.
StuckAbort(j) ==
  /\ Idle /\ ~shuttingDown
  /\ j \in running /\ HasRow(status, j)
  /\ status' = Put(status, j, "failure")
  /\ stuckAborted' = stuckAborted \cup {j}
  /\ MarkStuckAborted(j)
  /\ UNCHANGED <<created, info, published, priority, queueVars, limitVars, trackerVars,
                 executing, cancelled, shuttingDown, requestVars>>

-----------------------------------------------------------------------------
(* The process *)

\* shutdown(): new jobs are refused and the stuck monitor stops; processNext
\* does not look at the flag.
Shutdown == /\ Idle
            /\ shuttingDown' = TRUE
            /\ UNCHANGED <<storeVars, schedulerVars, trackerVars, executing, flagVars, requestVars>>

\* What a restart does to everything that is not in the store.
Reboot == /\ deferred' = <<>> /\ lastServedRepo' = NoRepo /\ loop' = "boot"
          /\ running' = {} /\ runningByRepo' = [r \in Repos |-> 0]
          /\ kicks' = 0
          /\ ClearTracker
          /\ executing' = {} /\ cancelled' = {} /\ stuckAborted' = {}
          /\ shuttingDown' = FALSE
          /\ retrying' = [j \in Jobs |-> 0] /\ checked' = {}
          /\ priority' = [j \in Jobs |-> Normal]

\* pending becomes the jobs of S, newest first (the order of store.list()).
PushNewestFirst(S) ==
  \E q \in [1..Cardinality(S) -> S] :
    /\ \A a, b \in DOMAIN q : a < b => q[a] > q[b]
    /\ S \subseteq ToSet(q)
    /\ pending' = q

\* Recovery of the jobs of S: all are queued again.
Recover(S) == /\ status' = [j \in Jobs |-> IF j \in S THEN "queued" ELSE status[j]]
              /\ PushNewestFirst(S)
              /\ Reboot
              /\ UNCHANGED <<created, info, published, limitVars>>

\* Mutants: running rows are queued in the store only; failed jobs are
\* recovered as well.
RestartStoreOnly ==
  /\ status' = [j \in Jobs |-> IF status[j] = "running" THEN "queued" ELSE status[j]]
  /\ PushNewestFirst({j \in Jobs : status[j] = "queued"})
  /\ Reboot
  /\ UNCHANGED <<created, info, published, limitVars>>

RestartWithFailures == Recover({j \in Jobs : status[j] \in ActiveStatus \cup {"failure"}})

\* The process dies at any point and starts again: only the store survives.
\* recover() queues what was running, then everything queued, and calls
\* processNext.  The table does not hold priorities (jobToDbJob leaves the
\* column out).
Restart == Recover({j \in Jobs : status[j] \in ActiveStatus})

-----------------------------------------------------------------------------
On(kind) == kind \in Events

Schedule ==
  \/ \E k \in DOMAIN pending :
       \/ StartJob(k)
       \/ (FailDependent(k) \/ Defer(k)) /\ UNCHANGED <<trackerVars, queueOnlyVars>>
  \/ (EndDrain \/ RunScheduled) /\ UNCHANGED <<trackerVars, queueOnlyVars>>

Arrive == \E i \in Issues :
  \/ On("automation") /\ StartByRule(i)
  \/ On("poll") /\ Poll(i)
  \/ On("webhook") /\ (WebhookCheck(i) \/ WebhookEnqueue(i) \/ WebhookDefer(i))

Operate == \E j \in Jobs :
  \/ On("autoRetry") /\ PollFailed(j)
  \/ On("retry") /\ (RetryJob(j) \/ RetryEnqueue(j))
  \/ On("cancel") /\ (CancelPending(j) \/ CancelRunning(j))
  \/ On("delete") /\ DeleteJob(j)
  \/ On("priority") /\ \E p \in PriorityChoices : SetPriority(j, p)

Finish(j) == \/ ReturnsCancelled(j) \/ ReturnsPullRequest(j) \/ ReturnsError(j)
             \/ On("throw") /\ Throws(j)

Execute == \E j \in Jobs :
  \/ Finish(j)
  \/ On("earlyPR") /\ LogPullRequest(j)
  \/ On("stuck") /\ StuckAbort(j)

Configure ==
  /\ \/ /\ On("config")
        /\ \/ \E n \in Concurrencies : SetConcurrency(n)
           \/ \E r \in Repos, n \in ProjectLimits : SetProjectConcurrency(r, n)
        /\ UNCHANGED trackerVars
     \/ /\ On("tracker") /\ Idle
        /\ \E r \in Repos : PauseProject(r) \/ ResumeProject(r) \/ PauseExpires(r)
        /\ UNCHANGED <<storeVars, schedulerVars>>
  /\ UNCHANGED queueOnlyVars

Process == \/ On("shutdown") /\ Shutdown
           \/ On("crash") /\ Restart

Next == Schedule \/ Arrive \/ Operate \/ Execute \/ Configure \/ Process

Spec == Init /\ [][Next]_vars

\* What Node owes the queue: callbacks that are due run.  What the pipeline
\* owes it: a handler that holds a slot returns or is found stuck.  Nothing is
\* assumed of a handler already taken for stuck, nor of anything outside.
Fairness == /\ WF_vars(Schedule)
            /\ \A j \in Jobs :
                 WF_vars(j \in running /\ (Finish(j) \/ (On("stuck") /\ StuckAbort(j))))

LiveSpec == Spec /\ Fairness

-----------------------------------------------------------------------------
(* Safety *)

\* The daemon never has two queued or running jobs for one issue, whatever
\* the interleaving of poller, webhook, rules, retries and restarts
\* (enqueue's duplicate check, job-queue.ts:284-305).
OneActiveJobPerIssue ==
  \A j, k \in Jobs : /\ status[j] \in ActiveStatus /\ status[k] \in ActiveStatus
                     /\ IssueOf(j) = IssueOf(k)
                     => j = k

\* The queue and the store agree: the jobs waiting in pending, or set aside by
\* the processNext under way, are the queued rows, each in one place.  A
\* queued row outside would never run; a waiting job that is not a queued row
\* would be run again or for nothing, as processNext does not look at status.
QueueMatchesStore ==
  LET waiting == pending \o deferred IN
    /\ ToSet(waiting) = {j \in Jobs : status[j] = "queued"}
    /\ \A a, b \in DOMAIN waiting : waiting[a] = waiting[b] => a = b

\* Every row marked running has a slot and a handler at work: no zombie that
\* blocks its issue for ever (enqueue rejects while it stands).
RunningHasHandler ==
  \A j \in Jobs : status[j] = "running" => j \in running /\ j \in executing

\* A slot is never held without a handler, and a handler at work without a
\* slot was taken for stuck.
SlotsMatchHandlers == /\ running \subseteq executing
                      /\ executing \ running \subseteq stuckAborted

\* The counter per repository is the number of handlers at work in it, stuck
\* ones included, so a project limit is never exceeded nor eaten up by a leak
\* (markStuckAborted leaves the counter to markJobFinished).
RepoSlotsExact ==
  \A r \in Repos :
    runningByRepo[r] = Cardinality({j \in executing : RepoOfJob(j) = r})

\* A stuck or cancelled job's slot is given away while its handler works, yet
\* a start never exceeds the limits of that moment, counting for the project
\* limit every handler still at work in the repository.
StartsWithinLimits ==
  [][\A j \in executing' \ executing :
       LET r == RepoOfJob(j) IN
         /\ Cardinality(running') <= concurrency
         /\ \/ projectConcurrency[r] = 0
            \/ Cardinality({k \in executing' : RepoOfJob(k) = r}) <= projectConcurrency[r]]_vars

\* A job is started only from "queued", though processNext never reads the
\* status: one that was cancelled, failed, archived or deleted while it
\* waited never runs, and none is started twice in the life of a process.
StartsOnlyQueued ==
  [][\A j \in executing' \ executing : status[j] = "queued"]_vars

\* While another repository has a job in the queue, none is served twice in a
\* row, even when its own jobs have better priorities or came first and
\* although the order of turns is computed anew for every job
\* (getNextRoundRobinJob).
TurnsAlternate ==
  [][\A r \in Repos :
       /\ pending' # pending /\ Len(pending') < Len(pending) /\ loop # "idle"
       /\ lastServedRepo = r
       /\ \E k \in DOMAIN pending : RepoAt(k) # r
       => lastServedRepo' # r]_vars

\* A row that is archived, with no handler left, stays out of the way: only a
\* handler that outlives its job's retry can bring an archived row back.
ArchivedStays ==
  [][\A j \in Jobs : status[j] = "archived" /\ j \notin executing
                    => status'[j] \in {"archived", "deleted"}]_vars

-----------------------------------------------------------------------------
(* Liveness, under LiveSpec *)

\* A queued job whose dependencies all have a job does not wait for ever: some
\* processNext looks at it after the last event it waits for, although nothing
\* calls processNext when a waiting job is cancelled.  (While some dependency
\* has no job at all it waits for one, and that may be for ever.)
QueuedJobsMoveOn ==
  \A j \in Jobs :
    (status[j] = "queued" /\ \A d \in info[j].deps : FindAny(status, d) # {})
      ~> status[j] # "queued"
=============================================================================
