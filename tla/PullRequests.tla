---------------------------- MODULE PullRequests ----------------------------
(***************************************************************************)
(* Pull requests, from the last look at the base branch to the merge: how  *)
(* one is created and told to merge itself (pipeline-publish.ts,           *)
(* pr-creator.ts, branch-manager.ts, dependency-resolver.ts), and how the  *)
(* poller watches those that are open and gives a repository it cannot     *)
(* reach a rest (issue-poller.ts).  Calls of gh and git may fail, the base *)
(* branch moves, people merge and close, and the process may start anew.   *)
(***************************************************************************)
EXTENDS Integers, FiniteSets, Sequences

CONSTANTS
  Issues, Deps,    \* Deps[i]: issues that the body of i depends on
  Mentions,        \* <<i, d>>: the pull request of i mentions issue d
  Owners, Labels,  \* a poll asks once for each owner and label
  Threshold,       \* pauseThreshold
  AutoMerge, Draft,  \* settings of pr
  MaxFailures,     \* bound: calls that fail
  MaxChanges,      \* bound: changes of the base branch and of people's minds
  MaxStarts        \* bound: restarts

ASSUME PullAssumption == Draft \in BOOLEAN /\ Mentions \subseteq Issues \X Issues

VARIABLES
  pull,      \* [Issues -> [state, draft, auto]]
  dirty,     \* issues whose branch conflicts with the base branch
  waived,    \* issues whose check of dependencies threw; the model's own
  pub,       \* [Issues -> where pushAndCreatePR is]
  poll,      \* [at, labels, prs, pr]: where poll is, what it has yet to ask,
             \* and the pull request it comments on
  errors,    \* pollingErrors of the repository
  paused,
  notified,  \* notifiedPrs
  told,      \* [Issues -> comments on a conflict by this process, and for each
             \* whether the call said that it was made]
  spent      \* [failures, changes, starts]

github == <<pull, dirty, waived>>
watch == <<poll, errors, paused, notified, told>>
pullVars == <<github, pub, watch, spent>>

NoPull == [state |-> "none", draft |-> FALSE, auto |-> FALSE]
Open == {i \in Issues : pull[i].state = "open"}

PullInit ==
  /\ pull = [i \in Issues |-> NoPull] /\ dirty = {} /\ waived = {}
  /\ pub = [i \in Issues |-> "fetching"]
  /\ poll = [at |-> "waiting", labels |-> {}, prs |-> {}, pr |-> {}]
  /\ errors = 0 /\ paused = FALSE /\ notified = {}
  /\ told = [i \in Issues |-> <<>>]
  /\ spent = [failures |-> 0, changes |-> 0, starts |-> 0]

\* A call may go well, or fail while the bound allows.
Fine == UNCHANGED spent
Fails(n) == spent.failures + n <= MaxFailures /\ spent' = [spent EXCEPT !.failures = @ + n]

Goes(i, from, to) == pub[i] = from /\ pub' = [pub EXCEPT ![i] = to]

-----------------------------------------------------------------------------
(* pushAndCreatePR.                                                        *)

\* checkConflicts after a fetch; what cannot be fetched is not compared.
CheckConflicts(i) ==
  /\ \/ Goes(i, "fetching", IF i \in dirty THEN "rebasing" ELSE "pushing") /\ Fine
     \/ Goes(i, "fetching", "pushing") /\ Fails(1)
  /\ UNCHANGED <<github, watch>>

\* attemptRebase: one that meets the conflict is aborted, and the branch is
\* what it was, also if the abort fails.  A comment tells the issue, or not.
AttemptRebase(i) ==
  /\ Goes(i, "rebasing", "pushing")
  /\ dirty' \in {dirty, dirty \ {i}}
  /\ UNCHANGED <<pull, waived, watch>> /\ (Fine \/ Fails(1))

PushBranch(i) ==
  /\ \/ Goes(i, "pushing", "creating") /\ Fine
     \/ Goes(i, "pushing", "failed") /\ Fails(1)
  /\ UNCHANGED <<github, watch>>

\* createDraftPR: a call that fails for a label is made once more after the
\* labels were made; one that seemed to fail may have created it.
Created(i) == pull' = [pull EXCEPT ![i] = [state |-> "open", draft |-> Draft, auto |-> FALSE]]

CreateDraftPR(i) ==
  /\ \/ /\ \/ Goes(i, "creating", "created") \/ Goes(i, "labelling", "created")
        /\ Created(i) /\ Fine
     \/ Goes(i, "creating", "labelling") /\ UNCHANGED pull /\ Fails(1)
     \/ /\ \/ Goes(i, "creating", "failed") \/ Goes(i, "labelling", "failed")
        /\ Created(i) \/ UNCHANGED pull
        /\ Fails(1)
  /\ UNCHANGED <<dirty, waived, watch>>

\* Mutant: a call that fails finds a merge.
CheckDependencyPRsMergedIfSeen(i, failed) ==
  {d \in Deps[i] :
     d \notin failed /\ \A p \in Issues : (p = d \/ <<p, d>> \in Mentions) => pull[p].state # "merged"}

\* checkDependencyPRsMerged: dependencies of which no pull request that
\* mentions them is seen to be merged.  What a call cannot say counts as such.
CheckDependencyPRsMerged(i, failed) ==
  {d \in Deps[i] :
     d \in failed \/ \A p \in Issues : (p = d \/ <<p, d>> \in Mentions) => pull[p].state # "merged"}

ToMerge == IF Draft THEN "readying" ELSE "merging"

\* The catch around the check and what follows from it: auto-merge anyway.
GoesOnAnyway(i, from, n) == Goes(i, from, ToMerge) /\ waived' = waived \cup {i} /\ Fails(n)

CheckDependencies(i) ==
  /\ \/ ~AutoMerge /\ Goes(i, "created", "over") /\ UNCHANGED waived /\ Fine
     \/ /\ AutoMerge
        /\ \E failed \in SUBSET Deps[i] :
             /\ Goes(i, "created", IF CheckDependencyPRsMerged(i, failed) = {} THEN ToMerge ELSE "commenting")
             /\ Fails(Cardinality(failed))
        /\ UNCHANGED waived
     \/ AutoMerge /\ Deps[i] # {} /\ GoesOnAnyway(i, "created", 1)
  /\ UNCHANGED <<pull, dirty, watch>>

\* addIssueComment: nobody looks at this pull request again, unless to log
\* that fails, and to log the failure too.
AddIssueComment(i) ==
  /\ \/ Goes(i, "commenting", "over") /\ UNCHANGED waived /\ (Fine \/ Fails(1))
     \/ GoesOnAnyway(i, "commenting", 2)
  /\ UNCHANGED <<pull, dirty, watch>>

\* enableAutoMerge: gh pr ready for a draft, then gh pr merge --auto, which
\* merges at once what can be merged.
ReadyPR(i) ==
  /\ \/ /\ Goes(i, "readying", "merging") /\ i \in Open
        /\ pull' = [pull EXCEPT ![i].draft = FALSE] /\ Fine
     \/ Goes(i, "readying", "over") /\ UNCHANGED pull /\ ((i \notin Open /\ Fine) \/ Fails(1))
  /\ UNCHANGED <<dirty, waived, watch>>

EnableAutoMerge(i) ==
  /\ Goes(i, "merging", "over")
  /\ \/ i \in Open /\ pull' = [pull EXCEPT ![i].auto = TRUE] /\ Fine
     \/ UNCHANGED pull /\ ((i \notin Open /\ Fine) \/ Fails(1))
  /\ UNCHANGED <<dirty, waived, watch>>

-----------------------------------------------------------------------------
(* poll.                                                                   *)

\* A poll begins, or leaves out a repository that is paused.
Poll ==
  /\ poll.at = "waiting" /\ ~paused
  /\ poll' = [at |-> "issues", labels |-> Labels, prs |-> {}, pr |-> {}]
  /\ UNCHANGED <<github, pub, errors, paused, notified, told, spent>>

\* trackPollingFailure, n times in a row: <<errors, whether it pauses>>.
TrackPollingFailure(n) ==
  IF errors + n < Threshold THEN <<errors + n, FALSE>> ELSE <<(errors + n) % Threshold, TRUE>>

\* pollProjectLabel: every owner's failure counts, and then one success resets
\* the count.  What becomes of the issues is JobQueue's.
PollProjectLabel(l) ==
  /\ poll.at = "issues" /\ l \in poll.labels
  /\ poll' = [poll EXCEPT !.labels = @ \ {l}]
  /\ \E n \in 0..Cardinality(Owners) :
       /\ Fails(n)
       /\ errors' = IF n < Cardinality(Owners) THEN 0 ELSE TrackPollingFailure(n)[1]
       /\ paused' = (paused \/ TrackPollingFailure(n)[2])
  /\ UNCHANGED <<github, pub, notified, told>>

\* listOpenPrs, which says nothing of a failure: it is not counted.
ListOpenPrs ==
  /\ poll.at = "issues" /\ poll.labels = {}
  /\ \/ poll' = [poll EXCEPT !.at = "prs", !.prs = Open] /\ Fine
     \/ poll' = [poll EXCEPT !.at = "prs"] /\ Fails(1)
  /\ UNCHANGED <<github, pub, errors, paused, notified, told>>

\* checkProjectPrConflicts and checkPrConflict: the next one that was not
\* notified.
CheckPrConflict(i) ==
  /\ poll.at = "prs" /\ i \in poll.prs
  /\ \/ i \in dirty \ notified /\ poll' = [poll EXCEPT !.at = "comment", !.prs = @ \ {i}, !.pr = {i}]
        /\ Fine
     \/ i \notin dirty \ notified /\ poll' = [poll EXCEPT !.prs = @ \ {i}] /\ Fine
     \/ i \notin notified /\ poll' = [poll EXCEPT !.prs = @ \ {i}] /\ Fails(1)
  /\ UNCHANGED <<github, pub, errors, paused, notified, told>>

\* Mutant: notifiedPrs has the pull request whatever becomes of the comment.
NotifiesAnyway(i, ok) == notified' = notified \cup {i}

Notifies(i, ok) == notified' = IF ok THEN notified \cup {i} ELSE notified

\* commentOnIssue, for the issue that the title names; a call that seems to
\* fail may have written the comment.
CommentOnIssue(i) ==
  /\ poll.at = "comment" /\ i \in poll.pr /\ poll' = [poll EXCEPT !.at = "prs", !.pr = {}]
  /\ \/ Notifies(i, TRUE) /\ told' = [told EXCEPT ![i] = Append(@, TRUE)] /\ Fine
     \/ /\ Notifies(i, FALSE) /\ Fails(1)
        /\ UNCHANGED told \/ told' = [told EXCEPT ![i] = Append(@, FALSE)]
  /\ UNCHANGED <<github, pub, errors, paused>>

\* scheduleNext.  A list that was empty or did not come resets nothing.
ScheduleNext ==
  /\ poll.at = "prs" /\ poll.prs = {}
  /\ poll' = [poll EXCEPT !.at = "waiting"]
  /\ errors' \in {errors, 0}
  /\ UNCHANGED <<github, pub, paused, notified, told, spent>>

\* The end of a pause.
PauseEnds ==
  /\ paused /\ paused' = FALSE
  /\ UNCHANGED <<github, pub, poll, errors, notified, told, spent>>

-----------------------------------------------------------------------------
(* GitHub, people and the operating system.                                *)

Change == spent.changes < MaxChanges /\ spent' = [spent EXCEPT !.changes = @ + 1]

\* A branch comes into conflict, or out of it by somebody's push.
BaseMoves(i) ==
  /\ Change /\ dirty' = (dirty \ {i}) \cup ({i} \ dirty)
  /\ UNCHANGED <<pull, waived, pub, watch>>

Merges(i) ==
  /\ i \in Open \ dirty /\ ~pull[i].draft
  /\ IF pull[i].auto THEN Fine ELSE Change
  /\ pull' = [pull EXCEPT ![i].state = "merged", ![i].auto = FALSE]
  /\ UNCHANGED <<dirty, waived, pub, watch>>

\* gh refuses what a person has closed, or made a draft again.
PersonChanges(i) ==
  /\ i \in Open /\ Change
  /\ pull' \in {[pull EXCEPT ![i] = [NoPull EXCEPT !.state = "closed"]],
                [pull EXCEPT ![i].draft = ~@, ![i].auto = FALSE]}
  /\ UNCHANGED <<dirty, waived, pub, watch>>

\* The memory of the poller is gone.  A run that has its pull request is not
\* repeated, another begins again.
Restart ==
  /\ spent.starts < MaxStarts /\ spent' = [spent EXCEPT !.starts = @ + 1]
  /\ pub' = [i \in Issues |-> IF pub[i] = "failed" THEN "failed"
                              ELSE IF pull[i] = NoPull THEN "fetching" ELSE "over"]
  /\ poll' = [at |-> "waiting", labels |-> {}, prs |-> {}, pr |-> {}]
  /\ errors' = 0 /\ paused' = FALSE /\ notified' = {} /\ told' = [i \in Issues |-> <<>>]
  /\ UNCHANGED github

-----------------------------------------------------------------------------
PollStep ==
  \/ Poll \/ ListOpenPrs \/ ScheduleNext
  \/ \E l \in Labels : PollProjectLabel(l)
  \/ \E i \in Issues : CheckPrConflict(i) \/ CommentOnIssue(i)

PullNext ==
  \/ PollStep \/ PauseEnds \/ Restart
  \/ \E i \in Issues : \/ CheckConflicts(i) \/ AttemptRebase(i) \/ PushBranch(i)
                       \/ CreateDraftPR(i) \/ CheckDependencies(i) \/ AddIssueComment(i)
                       \/ ReadyPR(i) \/ EnableAutoMerge(i)
                       \/ BaseMoves(i) \/ Merges(i) \/ PersonChanges(i)

\* The poller's timer fires, its calls end and so do pauses.
PullFairness == WF_pullVars(PollStep) /\ WF_pullVars(PauseEnds)

PullSpec == PullInit /\ [][PullNext]_pullVars /\ PullFairness

-----------------------------------------------------------------------------
\* Whatever calls fail and whoever merges or closes in between: a pull request
\* is told to merge itself only when those it depends on are merged, or when
\* the check itself has thrown (pipeline-publish.ts:220 goes on then).
AutoMergeWaits ==
  \A i \in Issues : pull[i].auto => i \in waived \/ \A d \in Deps[i] : pull[d].state = "merged"

\* Who has a conflict has been told, and nothing was written after a comment
\* that the poller knows of.
ToldOnce ==
  \A i \in Issues :
    /\ i \in dirty \cap Open => \E n \in DOMAIN told[i] : told[i][n]
    /\ \A n \in DOMAIN told[i] : told[i][n] => n = Len(told[i])

\* An open pull request that stays in conflict gets a comment, through
\* failures, pauses and restarts, and no process writes another one, except
\* after a comment whose call seemed to fail.
ConflictsTold == <>[]ToldOnce
=============================================================================
