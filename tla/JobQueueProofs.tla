--------------------------- MODULE JobQueueProofs ---------------------------
(***************************************************************************)
(* Proofs about JobQueue for every value of its constants.                 *)
(***************************************************************************)
EXTENDS JobQueue, SequenceLemmas, FiniteSetTheorems

USE ProjectsAssumption, TrackerAssumption, StoreAssumption, SchedulerAssumption,
    QueueAssumption

-----------------------------------------------------------------------------
(* What the operators on the status column do *)

Statuses == [Jobs -> Status]

\* Statuses of jobs that are over.
Retired == CompletedStatus \cup {"archived", "deleted"}

LEMMA PutLemma ==
  ASSUME NEW st \in Statuses, NEW j \in Jobs, NEW s \in RowStatus
  PROVE  /\ Put(st, j, s) \in Statuses
         /\ \A k \in Jobs : Put(st, j, s)[k] = IF k = j /\ st[j] \in RowStatus
                                               THEN s ELSE st[k]
BY DEF Put, HasRow, Statuses, Status

LEMMA ArchiveLemma ==
  ASSUME NEW st \in Statuses, NEW S
  PROVE  /\ ArchiveAll(st, S) \in Statuses
         /\ \A j \in Jobs : \/ ArchiveAll(st, S)[j] = st[j]
                            \/ j \in S /\ ArchiveAll(st, S)[j] = "archived"
BY DEF ArchiveAll, Statuses, Status, RowStatus

\* Whatever prune removes was completed.
LEMMA PrunedLemma ==
  ASSUME NEW st \in Statuses, NEW cap \in Nat, NEW left \in Pruned(st, cap)
  PROVE  /\ left \in Statuses
         /\ \A j \in Jobs : \/ left[j] = st[j]
                            \/ st[j] \in CompletedStatus /\ left[j] = "deleted"
<1>1. CASE left = st
  BY <1>1
<1>2. CASE left # st
  <2> DEFINE rows == {j \in Jobs : HasRow(st, j)}
             done == {j \in Jobs : st[j] \in CompletedStatus}
             n == Min({Cardinality(rows) - cap, Cardinality(done)})
  <2>1. PICK gone \in SUBSET done :
               left = [j \in Jobs |-> IF j \in gone THEN "deleted" ELSE st[j]]
    <3>1. PICK gone \in kSubset(n, done) :
                 left = [j \in Jobs |-> IF j \in gone THEN "deleted" ELSE st[j]]
      BY <1>2 DEF Pruned
    <3> QED BY <3>1 DEF kSubset
  <2> QED BY <2>1 DEF Statuses, Status
<1> QED BY <1>1, <1>2

\* No job of an issue is active when the one that findAnyByIssue returns is not.
LEMMA FindAnyLemma ==
  ASSUME NEW st \in Statuses, NEW i \in Issues
  PROVE  /\ FindAny(st, i) \subseteq Jobs
         /\ (\A j \in FindAny(st, i) : st[j] \notin ActiveStatus)
              => \A j \in Jobs : IssueOf(j) = i => st[j] \notin ActiveStatus
BY DEF FindAny

-----------------------------------------------------------------------------
(* Type correctness *)

LEMMA InfoLemma == 
  ASSUME StoreTypeOK, NEW j \in Jobs
  PROVE  IssueOf(j) \in Issues /\ RepoOfJob(j) \in Repos /\ info[j].deps \subseteq Issues
BY DEF StoreTypeOK, JobInfo, IssueOf, RepoOfJob

\* Both branches of enqueue keep the types.
LEMMA EnqueueType ==
  ASSUME TypeOK, NEW st \in Statuses, NEW i \in Issues, NEW ds \in SUBSET Issues,
         NEW retry \in BOOLEAN, Enqueue(st, i, ds, retry)
  PROVE  StoreTypeOK' /\ SchedulerTypeOK' /\ TrackerTypeOK'
         /\ UNCHANGED <<executing, flagVars, shuttingDown>>
<1> USE DEF TypeOK, StoreTypeOK, SchedulerTypeOK, TrackerTypeOK
<1>0. UNCHANGED <<deferred, lastServedRepo, slotVars, limitVars, kicks, trackerVars,
                  executing, flagVars, shuttingDown>>
  BY DEF Enqueue
<1>1. CASE /\ status' = st
           /\ UNCHANGED <<created, info, published, priority, pending, loop>>
  BY <1>0, <1>1 DEF slotVars, limitVars, trackerVars, Statuses
<1>2. CASE /\ Create(ArchiveAll(st, FindAny(st, i)), i, ds, retry)
           /\ pending' = Append(pending, created + 1)
           /\ loop' = "drain"
  <2>1. created + 1 \in Jobs /\ created' = created + 1
    <3>1. created < MaxJobs /\ created' = created + 1
      BY <1>2 DEF Create
    <3> QED BY <3>1 DEF Jobs
  <2>2. info' \in [Jobs -> JobInfo]
    BY <1>2, <2>1 DEF Create, JobInfo
  <2>3. status' \in Statuses
    <3> DEFINE a == ArchiveAll(st, FindAny(st, i))
    <3>1. a \in Statuses
      BY ArchiveLemma
    <3>2. [a EXCEPT ![created + 1] = "queued"] \in Statuses
      BY <3>1 DEF Statuses, Status, RowStatus, ActiveStatus
    <3> QED BY <3>2, <1>2, PrunedLemma DEF Create
  <2>4. pending' \in Seq(Jobs)
    BY <1>2, <2>1, AppendLemma
  <2>5. StoreTypeOK'
    <3>1. created' \in 0..MaxJobs
      BY <2>1 DEF Jobs
    <3>2. UNCHANGED <<published, priority>>
      BY <1>2 DEF Create
    <3> QED BY <2>2, <2>3, <3>1, <3>2 DEF Statuses
  <2>6. SchedulerTypeOK'
    BY <1>0, <1>2, <2>4 DEF slotVars, limitVars
  <2>7. TrackerTypeOK'
    BY <1>0 DEF trackerVars
  <2> QED BY <1>0, <2>5, <2>6, <2>7
<1> QED BY <1>1, <1>2 DEF Enqueue

\* Steps that leave a part alone keep its types.
LEMMA TypeKept ==
  ASSUME TypeOK
  PROVE  /\ UNCHANGED storeVars => StoreTypeOK'
         /\ UNCHANGED schedulerVars => SchedulerTypeOK'
         /\ UNCHANGED trackerVars => TrackerTypeOK'
         /\ UNCHANGED queueOnlyVars => QueueTypeOK'
<1>1. UNCHANGED storeVars => StoreTypeOK'
  BY DEF TypeOK, StoreTypeOK, storeVars
<1>2. UNCHANGED schedulerVars => SchedulerTypeOK'
  BY DEF TypeOK, SchedulerTypeOK, schedulerVars, queueVars, slotVars, limitVars
<1>3. UNCHANGED trackerVars => TrackerTypeOK'
  BY DEF TypeOK, TrackerTypeOK, trackerVars
<1>4. UNCHANGED queueOnlyVars => QueueTypeOK'
  BY DEF TypeOK, QueueTypeOK, queueOnlyVars, flagVars, requestVars
<1> QED BY <1>1, <1>2, <1>3, <1>4

\* Taking a job from the queue.
LEMMA TakeType ==
  ASSUME TypeOK, NEW k \in DOMAIN pending, Take(k)
  PROVE  /\ pending[k] \in Jobs
         /\ pending' \in Seq(Jobs) /\ lastServedRepo' \in Repos
         /\ UNCHANGED <<concurrency, projectConcurrency, kicks, loop>>
<1>1. pending \in Seq(Jobs) /\ pending[k] \in Jobs
  BY DEF TypeOK, SchedulerTypeOK
<1>2. pending' \in Seq(Jobs)
  BY <1>1, RemoveAtLemma DEF Take
<1>3. RepoAt(k) \in Repos
  BY <1>1, InfoLemma DEF TypeOK, RepoAt
<1> QED BY <1>1, <1>2, <1>3 DEF Take, limitVars

LEMMA ScheduleType == ASSUME TypeOK, Schedule PROVE TypeOK'
<1> USE DEF TypeOK, StoreTypeOK, SchedulerTypeOK, TrackerTypeOK, QueueTypeOK, storeVars,
            slotVars, trackerVars, queueOnlyVars, flagVars, requestVars, limitVars
<1>1. ASSUME NEW k \in DOMAIN pending, StartJob(k) PROVE TypeOK'
  <2> DEFINE j == pending[k]
  <2>1. Dispatch(k) /\ Take(k)
    BY <1>1 DEF StartJob, Dispatch
  <2>2. j \in Jobs /\ RepoOfJob(j) \in Repos
    BY <2>1, TakeType, InfoLemma
  <2>3. Put(status, j, "running") \in Statuses
    BY <2>2, PutLemma DEF Statuses, RowStatus, ActiveStatus
  <2>4. StoreTypeOK'
    BY <2>1, <2>3 DEF Dispatch, Statuses
  <2>5. running' \subseteq Jobs /\ runningByRepo' \in [Repos -> Nat]
    <3>1. /\ running' = running \cup {j}
          /\ runningByRepo' = [runningByRepo EXCEPT ![RepoOfJob(j)] = @ + 1]
      BY <2>1 DEF Dispatch
    <3> HIDE DEF j
    <3>2. running' \subseteq Jobs
      BY <2>2, <3>1
    <3>3. runningByRepo' \in [Repos -> Nat]
      <4>1. runningByRepo \in [Repos -> Nat] /\ RepoOfJob(j) \in Repos
        BY <2>2
      <4> QED BY ONLY <3>1, <4>1
    <3> QED BY <3>2, <3>3
  <2>6. SchedulerTypeOK'
    <3>1. /\ pending' \in Seq(Jobs) /\ lastServedRepo' \in Repos
          /\ UNCHANGED <<concurrency, projectConcurrency, kicks, loop>>
      BY <2>1, TakeType
    <3>2. UNCHANGED deferred
      BY <2>1 DEF Dispatch
    <3> QED BY <2>5, <3>1, <3>2
  <2>7. TrackerTypeOK' /\ QueueTypeOK'
    BY <1>1, <2>2 DEF StartJob
  <2> QED BY <2>4, <2>6, <2>7
<1>2. ASSUME NEW k \in DOMAIN pending, FailDependent(k),
             UNCHANGED <<trackerVars, queueOnlyVars>>
      PROVE  TypeOK'
  <2> DEFINE j == pending[k]
  <2>1. Take(k)
    BY <1>2 DEF FailDependent
  <2>2. j \in Jobs
    BY <2>1, TakeType
  <2>3. Put(status, j, "failure") \in Statuses
    BY <2>2, PutLemma DEF Statuses, RowStatus, CompletedStatus
  <2>4. StoreTypeOK'
    BY <1>2, <2>3 DEF FailDependent, Statuses
  <2>5. SchedulerTypeOK'
    <3>1. /\ pending' \in Seq(Jobs) /\ lastServedRepo' \in Repos
          /\ UNCHANGED <<concurrency, projectConcurrency, kicks, loop>>
      BY <2>1, TakeType
    <3>2. UNCHANGED <<deferred, slotVars>>
      BY <1>2 DEF FailDependent
    <3> QED BY <3>1, <3>2
  <2>6. TrackerTypeOK' /\ QueueTypeOK'
    BY <1>2
  <2> QED BY <2>4, <2>5, <2>6
<1>3. ASSUME NEW k \in DOMAIN pending, Defer(k), UNCHANGED <<trackerVars, queueOnlyVars>>
      PROVE  TypeOK'
  <2>1. Take(k)
    BY <1>3 DEF Defer
  <2>2. deferred' \in Seq(Jobs)
    BY <1>3, <2>1, TakeType, AppendLemma DEF Defer
  <2>3. StoreTypeOK'
    BY <1>3 DEF Defer
  <2>4. SchedulerTypeOK'
    <3>1. UNCHANGED slotVars
      BY <1>3 DEF Defer
    <3>2. /\ pending' \in Seq(Jobs) /\ lastServedRepo' \in Repos
          /\ UNCHANGED <<concurrency, projectConcurrency, kicks, loop>>
      BY <2>1, TakeType
    <3> QED BY <2>2, <3>1, <3>2
  <2>5. TrackerTypeOK' /\ QueueTypeOK'
    BY <1>3
  <2> QED BY <2>3, <2>4, <2>5
<1>4. ASSUME EndDrain, UNCHANGED <<trackerVars, queueOnlyVars>> PROVE TypeOK'
  <2>1. pending' \in Seq(Jobs) /\ deferred' \in Seq(Jobs)
    BY <1>4, ConcatLemma DEF EndDrain
  <2>2. status' \in Statuses
    <3>1. CASE loop = "boot"
      <4>1. status \in Statuses /\ status' \in Pruned(status, BootCap)
        BY <1>4, <3>1 DEF EndDrain, Statuses
      <4> QED BY <4>1, PrunedLemma
    <3>2. CASE loop # "boot"
      BY <1>4, <3>2 DEF EndDrain, Statuses
    <3> QED BY <3>1, <3>2
  <2> QED BY <1>4, <2>1, <2>2 DEF EndDrain, Statuses
<1>5. ASSUME RunScheduled, UNCHANGED <<trackerVars, queueOnlyVars>> PROVE TypeOK'
  <2>1. SchedulerTypeOK'
    BY <1>5 DEF RunScheduled
  <2>2. StoreTypeOK'
    BY <1>5, TypeKept DEF RunScheduled
  <2> QED BY <1>5, <2>1, <2>2, TypeKept
<1> QED BY <1>1, <1>2, <1>3, <1>4, <1>5 DEF Schedule

LEMMA ArriveType == ASSUME TypeOK, Arrive PROVE TypeOK'
<1> USE DEF TypeOK, StoreTypeOK, SchedulerTypeOK, TrackerTypeOK, QueueTypeOK, flagVars,
            requestVars, storeVars, schedulerVars, trackerVars, queueVars, slotVars, limitVars
<1>1. PICK i \in Issues : \/ StartByRule(i) \/ Poll(i) \/ WebhookCheck(i)
                          \/ WebhookEnqueue(i) \/ WebhookDefer(i)
  BY DEF Arrive
<1>2. CASE StartByRule(i) \/ Poll(i)
  <2>1. Enqueue(status, i, {}, FALSE) /\ UNCHANGED requestVars
    BY <1>2 DEF StartByRule, Poll
  <2> QED BY <2>1, EnqueueType DEF Statuses
<1>3. CASE WebhookCheck(i) \/ WebhookDefer(i)
  <2>1. UNCHANGED <<storeVars, schedulerVars, trackerVars>>
    BY <1>3 DEF WebhookCheck, WebhookDefer
  <2>2. QueueTypeOK'
    BY <1>3 DEF WebhookCheck, WebhookDefer
  <2> QED BY ONLY <2>1, <2>2, TypeKept, TypeOK DEF TypeOK
<1>4. CASE WebhookEnqueue(i)
  <2>1. /\ Enqueue(status, i, DependsOn[i], FALSE)
        /\ checked' \subseteq Issues /\ UNCHANGED retrying
    BY <1>4 DEF WebhookEnqueue
  <2>2. DependsOn[i] \in SUBSET Issues
    OBVIOUS
  <2> QED BY <2>1, <2>2, EnqueueType DEF Statuses
<1> QED BY <1>1, <1>2, <1>3, <1>4

LEMMA OperateType == ASSUME TypeOK, Operate PROVE TypeOK'
<1> USE DEF TypeOK, StoreTypeOK, SchedulerTypeOK, TrackerTypeOK, QueueTypeOK, flagVars,
            requestVars, storeVars, schedulerVars, trackerVars, queueVars, slotVars, limitVars,
            queueOnlyVars
<1>1. PICK j \in Jobs :
        \/ PollFailed(j) \/ RetryJob(j) \/ RetryEnqueue(j) \/ CancelPending(j)
        \/ CancelRunning(j) \/ DeleteJob(j) \/ \E p \in PriorityChoices : SetPriority(j, p)
  BY DEF Operate
<1>2. IssueOf(j) \in Issues
  BY InfoLemma
<1>3. \A s \in {"success", "cancelled", "archived"} : Put(status, j, s) \in Statuses
  BY PutLemma DEF Statuses, RowStatus, CompletedStatus
<1>4. CASE PollFailed(j)
  <2>1. Enqueue(status, IssueOf(j), {}, TRUE) /\ UNCHANGED requestVars
    BY <1>4 DEF PollFailed
  <2> QED BY <1>2, <2>1, EnqueueType DEF Statuses
<1>5. CASE RetryJob(j)
  <2>1. StoreTypeOK'
    BY <1>3, <1>5 DEF RetryJob, Statuses
  <2>2. QueueTypeOK'
    BY <1>5 DEF RetryJob
  <2>3. SchedulerTypeOK' /\ TrackerTypeOK'
    BY <1>5, TypeKept DEF RetryJob
  <2> QED BY <2>1, <2>2, <2>3
<1>6. CASE RetryEnqueue(j)
  <2>1. /\ Enqueue(Put(status, j, "archived"), IssueOf(j), {}, TRUE)
        /\ retrying[j] > 0 /\ retrying' = [retrying EXCEPT ![j] = @ - 1]
        /\ UNCHANGED checked
    BY <1>6 DEF RetryEnqueue
  <2>2. retrying' \in [Jobs -> 0..MaxRetryCalls]
    BY <2>1
  <2> QED BY <1>2, <1>3, <2>1, <2>2, EnqueueType
<1>7. CASE CancelPending(j)
  <2>1. pending' \in Seq(Jobs)
    BY <1>7, RemoveAtLemma DEF CancelPending
  <2> QED BY <1>3, <1>7, <2>1 DEF CancelPending, Statuses
<1>8. CASE CancelRunning(j)
  BY <1>3, <1>8 DEF CancelRunning, Statuses
<1>9. CASE DeleteJob(j)
  BY <1>9 DEF DeleteJob, Status
<1>10. ASSUME NEW p \in PriorityChoices, SetPriority(j, p) PROVE TypeOK'
  BY <1>10 DEF SetPriority
<1> QED BY <1>1, <1>4, <1>5, <1>6, <1>7, <1>8, <1>9, <1>10

LEMMA TrackType ==
  ASSUME TypeOK, NEW r \in Repos
  PROVE  /\ TrackFailure(r) => TrackerTypeOK'
         /\ TrackSuccess(r) => TrackerTypeOK'
         /\ UNCHANGED trackerVars => TrackerTypeOK'
<1> USE DEF TypeOK, TrackerTypeOK
<1>1. ASSUME TrackFailure(r) PROVE TrackerTypeOK'
  <2>1. CASE fails[r] + 1 >= PauseThreshold
    BY <1>1, <2>1 DEF TrackFailure
  <2>2. CASE ~(fails[r] + 1 >= PauseThreshold)
    <3>1. fails[r] + 1 \in 0..PauseThreshold
      BY <2>2
    <3> QED BY <1>1, <2>2, <3>1 DEF TrackFailure
  <2> QED BY <2>1, <2>2
<1>2. ASSUME TrackSuccess(r) PROVE TrackerTypeOK'
  BY <1>2 DEF TrackSuccess
<1>3. ASSUME UNCHANGED trackerVars PROVE TrackerTypeOK'
  BY <1>3 DEF trackerVars
<1> QED BY <1>1, <1>2, <1>3

\* The end of a handler.
LEMMA FinishType == ASSUME TypeOK, NEW j \in Jobs, Finish(j) PROVE TypeOK'
<1> USE DEF TypeOK, Finish
<1>1. HandlerEnds(j)
  BY DEF ReturnsCancelled, ReturnsPullRequest, ReturnsError, Throws
<1>2. j \in Jobs /\ RepoOfJob(j) \in Repos
  BY InfoLemma
<1>3. SchedulerTypeOK'
  BY <1>1, <1>2
     DEF SchedulerTypeOK, HandlerEnds, ReleaseSlot, queueVars, limitVars
<1>4. StoreTypeOK'
  <2>1. \A s \in {"success", "failure"} : Put(status, j, s) \in Statuses
    BY PutLemma DEF StoreTypeOK, Statuses, RowStatus, CompletedStatus
  <2>2. status' \in Statuses /\ published' \subseteq Jobs
    BY <2>1 DEF StoreTypeOK, Statuses, ReturnsCancelled, ReturnsPullRequest, ReturnsError, Throws
  <2> QED BY <1>1, <2>2 DEF StoreTypeOK, Statuses, HandlerEnds
<1>5. TrackerTypeOK'
  BY <1>2, TrackType DEF ReturnsCancelled, ReturnsPullRequest, ReturnsError, Throws
<1>6. QueueTypeOK'
  <2>1. cancelled' \subseteq Jobs /\ stuckAborted' \subseteq Jobs
    BY DEF QueueTypeOK, flagVars, ReturnsCancelled, ReturnsPullRequest, ReturnsError, Throws
  <2> QED BY <1>1, <2>1 DEF QueueTypeOK, HandlerEnds, requestVars
<1> QED BY <1>3, <1>4, <1>5, <1>6

LEMMA ExecuteType == ASSUME TypeOK, Execute PROVE TypeOK'
<1> USE DEF TypeOK, StoreTypeOK, SchedulerTypeOK, TrackerTypeOK, QueueTypeOK, flagVars,
            requestVars, storeVars, schedulerVars, trackerVars, queueVars, slotVars, limitVars,
            queueOnlyVars
<1>1. ASSUME NEW j \in Jobs, LogPullRequest(j) PROVE TypeOK'
  BY <1>1 DEF LogPullRequest
<1>2. ASSUME NEW j \in Jobs, StuckAbort(j) PROVE TypeOK'
  <2>1. Put(status, j, "failure") \in Statuses
    BY PutLemma DEF Statuses, RowStatus, CompletedStatus
  <2> QED BY <1>2, <2>1 DEF StuckAbort, MarkStuckAborted, Statuses
<1> QED BY <1>1, <1>2, FinishType DEF Execute

LEMMA ConfigureType == ASSUME TypeOK, Configure PROVE TypeOK'
<1> USE DEF TypeOK, StoreTypeOK, SchedulerTypeOK, TrackerTypeOK, QueueTypeOK, flagVars,
            requestVars, storeVars, schedulerVars, trackerVars, queueVars, slotVars, limitVars,
            queueOnlyVars
<1>1. ASSUME NEW n \in Concurrencies, SetConcurrency(n), UNCHANGED <<trackerVars, queueOnlyVars>>
      PROVE  TypeOK'
  BY <1>1 DEF SetConcurrency
<1>2. ASSUME NEW r \in Repos, NEW n \in ProjectLimits, SetProjectConcurrency(r, n),
             UNCHANGED <<trackerVars, queueOnlyVars>>
      PROVE  TypeOK'
  BY <1>2 DEF SetProjectConcurrency
<1>3. ASSUME NEW r \in Repos, PauseProject(r) \/ ResumeProject(r) \/ PauseExpires(r),
             UNCHANGED <<storeVars, schedulerVars, queueOnlyVars>>
      PROVE  TypeOK'
  <2>1. TrackerTypeOK'
    BY <1>3 DEF PauseProject, ResumeProject, PauseExpires
  <2> QED BY <1>3, <2>1, TypeKept
<1> QED BY <1>1, <1>2, <1>3 DEF Configure

\* What is recovered is waiting, each job once.
LEMMA PushLemma ==
  ASSUME NEW S \in SUBSET Jobs, PushNewestFirst(S)
  PROVE  pending' \in Seq(Jobs) /\ ToSet(pending') = S /\ Distinct(pending')
<1>1. Cardinality(S) \in Nat
  <2>1. IsFiniteSet(Jobs)
    BY FS_Interval DEF Jobs
  <2> QED BY <2>1, FS_Subset, FS_CardinalityType
<1>2. PICK q \in [1..Cardinality(S) -> S] :
        /\ \A a, b \in DOMAIN q : a < b => q[a] > q[b]
        /\ S \subseteq ToSet(q)
        /\ pending' = q
  BY DEF PushNewestFirst
<1>3. q \in Seq(Jobs)
  BY <1>1
<1>4. ToSet(q) = S
  BY <1>2 DEF ToSet
<1>5. Distinct(q)
  <2> SUFFICES ASSUME NEW a \in DOMAIN q, NEW b \in DOMAIN q, q[a] = q[b] PROVE a = b
    BY DEF Distinct
  <2>1. a \in Int /\ b \in Int /\ q[a] \in Int /\ q[b] \in Int
    <3>1. a \in 1..Cardinality(S) /\ b \in 1..Cardinality(S)
      OBVIOUS
    <3>2. q[a] \in Jobs /\ q[b] \in Jobs
      BY <3>1
    <3> QED BY <1>1, <3>1, <3>2 DEF Jobs
  <2>2. ~(a < b) /\ ~(b < a)
    BY <1>2, <2>1
  <2> QED BY <2>1, <2>2
<1> QED BY <1>2, <1>3, <1>4, <1>5

LEMMA ProcessType == ASSUME TypeOK, Process PROVE TypeOK'
<1> USE DEF TypeOK, StoreTypeOK, SchedulerTypeOK, TrackerTypeOK, QueueTypeOK
<1>1. CASE Shutdown
  BY <1>1 DEF Shutdown, storeVars, schedulerVars, trackerVars, flagVars, requestVars,
              queueVars, slotVars, limitVars
<1>2. CASE Restart
  <2> DEFINE S == {j \in Jobs : status[j] \in ActiveStatus}
  <2>1. Recover(S)
    BY <1>2 DEF Restart
  <2>2. pending' \in Seq(Jobs)
    BY <2>1, PushLemma DEF Recover
  <2>3. StoreTypeOK'
    BY <2>1 DEF Recover, Reboot, Status, RowStatus, ActiveStatus, Priorities, Normal
  <2>4. SchedulerTypeOK'
    BY <2>1, <2>2 DEF Recover, Reboot, limitVars
  <2>5. TrackerTypeOK'
    BY <2>1 DEF Recover, Reboot, ClearTracker
  <2>6. QueueTypeOK'
    <3>1. [j \in Jobs |-> 0] \in [Jobs -> 0..MaxRetryCalls]
      BY MaxRetryCalls \in Nat
    <3> QED BY <2>1, <3>1 DEF Recover, Reboot
  <2> QED BY <2>3, <2>4, <2>5, <2>6
<1> QED BY <1>1, <1>2 DEF Process

\* All variables always have values of their types.
THEOREM TypeCorrect == Spec => []TypeOK
<1>1. Init => TypeOK
  <2> SUFFICES ASSUME Init PROVE TypeOK
    OBVIOUS
  <2>1. StoreTypeOK
    <3>1. (CHOOSE i \in Issues : TRUE) \in Issues
      OBVIOUS
    <3> QED BY <3>1 DEF Init, StoreInit, StoreTypeOK, JobInfo, Status, Priorities, Normal
  <2>2. SchedulerTypeOK
    BY DEF Init, SchedulerInit, SchedulerTypeOK
  <2>3. TrackerTypeOK
    BY DEF Init, TrackerInit, TrackerTypeOK
  <2>4. QueueTypeOK
    <3>1. [j \in Jobs |-> 0] \in [Jobs -> 0..MaxRetryCalls]
      BY MaxRetryCalls \in Nat
    <3> QED BY <3>1 DEF Init, QueueTypeOK
  <2> QED BY <2>1, <2>2, <2>3, <2>4 DEF TypeOK
<1>2. TypeOK /\ [Next]_vars => TypeOK'
  <2> SUFFICES ASSUME TypeOK, [Next]_vars PROVE TypeOK'
    OBVIOUS
  <2>1. CASE UNCHANGED vars
    BY <2>1 DEF vars, TypeOK, StoreTypeOK, SchedulerTypeOK, TrackerTypeOK, QueueTypeOK,
                storeVars, schedulerVars, trackerVars, queueOnlyVars, queueVars, slotVars,
                limitVars, flagVars, requestVars
  <2> QED BY <2>1, ScheduleType, ArriveType, OperateType, ExecuteType, ConfigureType,
             ProcessType DEF Next
<1> QED BY <1>1, <1>2, PTL DEF Spec
=============================================================================
