--------------------------- MODULE JobQueueSafety ---------------------------
(***************************************************************************)
(* Proofs of JobQueue's safety properties.  They all follow from one       *)
(* inductive invariant, Consistent, which says of every handler, slot and  *)
(* pending retry what its job's row may be, as does the refinement of      *)
(* IssueDesk.                                                              *)
(***************************************************************************)
EXTENDS JobQueueProofs, JobQueueDesk

\* Job numbers are given out in order.
Numbered == \A j \in Jobs : status[j] = "none" <=> j > created

\* QueueMatchesStore in terms of the two lists.
WaitingExact ==
  /\ Distinct(pending) /\ Distinct(deferred)
  /\ ToSet(pending) \cap ToSet(deferred) = {}
  /\ ToSet(pending) \cup ToSet(deferred) = {j \in Jobs : status[j] = "queued"}

\* A handler's job has left the queue; a job that is cancelled or about to be
\* retried is over; only running jobs and stuck ones have handlers.
HandlersExact ==
  /\ running \subseteq executing
  /\ executing \ running \subseteq stuckAborted
  /\ \A j \in Jobs :
       /\ status[j] = "running" => j \in running
       /\ j \in executing => status[j] \in Retired \cup {"running"}
       /\ j \in cancelled \/ retrying[j] > 0 => status[j] \in Retired

Consistent == /\ Numbered /\ OneActiveJobPerIssue /\ WaitingExact
              /\ HandlersExact /\ RepoSlotsExact

-----------------------------------------------------------------------------
(* How steps change the status column *)

\* Jobs that are not waiting come to their end, the others stay as they are.
Settles(st, st2) ==
  \A j \in Jobs : \/ st2[j] = st[j]
                  \/ st[j] \in Retired \cup {"running"} /\ st2[j] \in Retired

LEMMA SettleLemma ==
  ASSUME TypeOK, TypeOK', Numbered, OneActiveJobPerIssue, WaitingExact,
         Settles(status, status'), UNCHANGED <<created, info, pending, deferred>>
  PROVE  Numbered' /\ OneActiveJobPerIssue' /\ WaitingExact'
<1>1. Numbered'
  BY DEF Numbered, Settles, Retired, CompletedStatus
<1>2. OneActiveJobPerIssue'
  BY DEF OneActiveJobPerIssue, IssueOf, Settles, Retired, CompletedStatus, ActiveStatus
<1>3. {j \in Jobs : status'[j] = "queued"} = {j \in Jobs : status[j] = "queued"}
  BY DEF Settles, Retired, CompletedStatus
<1>4. WaitingExact'
  BY <1>3 DEF WaitingExact
<1> QED BY <1>1, <1>2, <1>4

LEMMA PutSettles ==
  ASSUME NEW st \in Statuses, NEW j \in Jobs, NEW s \in Retired \ {"deleted"},
         st[j] \in Retired \cup {"running"}
  PROVE  /\ Put(st, j, s) \in Statuses /\ Settles(st, Put(st, j, s))
         /\ Put(st, j, s)[j] \in Retired
<1>1. s \in RowStatus
  BY DEF Retired, RowStatus
<1>2. st[j] \notin RowStatus => st[j] \in Retired
  BY DEF Retired, RowStatus, ActiveStatus
<1> QED BY <1>1, <1>2, PutLemma DEF Settles

LEMMA PrunedSettles ==
  ASSUME NEW st \in Statuses, NEW cap \in Nat, NEW left \in Pruned(st, cap)
  PROVE  left \in Statuses /\ Settles(st, left)
BY PrunedLemma DEF Settles, Retired

\* Handlers and retries under way see their jobs only end, and nothing they
\* count on is queued again.
LEMMA HandlersKept ==
  ASSUME TypeOK, TypeOK', HandlersExact,
         UNCHANGED <<running, executing, stuckAborted, cancelled>>,
         \A j \in Jobs : retrying'[j] > 0 => retrying[j] > 0,
         \A j \in Jobs : \/ status'[j] = status[j]
                         \/ status[j] \in Retired \cup {"running"} /\ status'[j] \in Retired
                         \/ status[j] \in {"none", "queued"} /\ status'[j] # "running"
  PROVE  HandlersExact'
BY DEF HandlersExact, Retired, CompletedStatus

LEMMA SlotsKept ==
  ASSUME TypeOK, RepoSlotsExact, UNCHANGED <<executing, runningByRepo>>,
         \A j \in executing : info'[j].issue = info[j].issue
  PROVE  RepoSlotsExact'
<1> SUFFICES ASSUME NEW r \in Repos
             PROVE  runningByRepo'[r] = Cardinality({j \in executing' : RepoOfJob(j)' = r})
  BY DEF RepoSlotsExact
<1>1. {j \in executing' : RepoOfJob(j)' = r} = {j \in executing : RepoOfJob(j) = r}
  BY DEF RepoOfJob, IssueOf
<1> QED BY <1>1 DEF RepoSlotsExact

-----------------------------------------------------------------------------
(* enqueue *)

\* The new job of an issue has a new number; what the issue had before is over,
\* and of the other rows only those that are over change.
LEMMA EnqueueEffect ==
  ASSUME TypeOK, TypeOK', Numbered, NEW st \in Statuses, Settles(status, st),
         NEW i \in Issues, NEW ds, NEW retry,
         \A j \in FindAny(st, i) : st[j] \notin ActiveStatus,
         Create(ArchiveAll(st, FindAny(st, i)), i, ds, retry)
  PROVE  \E new \in Jobs :
           /\ new = created + 1 /\ created' = new
           /\ status[new] = "none" /\ status'[new] = "queued" /\ info'[new].issue = i
           /\ \A j \in Jobs : IssueOf(j) = i => st[j] \notin ActiveStatus
           /\ \A j \in Jobs : j # new =>
                /\ info'[j] = info[j]
                /\ status'[j] = st[j] \/ (st[j] \in Retired /\ status'[j] \in Retired)
<1>0. PICK new \in Jobs : new = created + 1
  <2>1. created \in 0..MaxJobs /\ created < MaxJobs
    BY DEF Create, TypeOK, StoreTypeOK
  <2>2. created + 1 \in 1..MaxJobs
    BY <2>1, StoreAssumption
  <2> QED BY <2>2 DEF Jobs
<1> DEFINE a == ArchiveAll(st, FindAny(st, i))
           b == [a EXCEPT ![new] = "queued"]
<1>1. /\ created' = new
      /\ info' = [info EXCEPT ![new] = [issue |-> i, deps |-> ds, isRetry |-> retry]]
      /\ status' \in Pruned(b, StoreCap)
  BY <1>0 DEF Create
<1>2. status[new] = "none"
  BY <1>0 DEF Numbered, TypeOK, StoreTypeOK
<1>3. a \in Statuses /\ \A j \in Jobs : a[j] = st[j] \/ (j \in FindAny(st, i) /\ a[j] = "archived")
  BY ArchiveLemma
<1>4. b \in Statuses
  BY <1>3 DEF Statuses, Status, RowStatus, ActiveStatus
<1>5. \A j \in Jobs : \/ status'[j] = b[j]
                      \/ b[j] \in CompletedStatus /\ status'[j] = "deleted"
  <2>1. status' \in Pruned(b, StoreCap) /\ b \in Statuses /\ StoreCap \in Nat
    BY <1>1, <1>4, StoreAssumption
  <2> HIDE DEF b
  <2> QED BY ONLY <2>1, PrunedLemma
<1>6. status'[new] = "queued"
  BY <1>2, <1>3, <1>5 DEF Statuses, CompletedStatus
\* What findAnyByIssue returns is no longer active and has a row.
<1>7. \A j \in FindAny(st, i) : j \in Jobs /\ st[j] \in Retired
  BY DEF FindAny, Retired
<1>8. ASSUME NEW j \in Jobs, j # new
      PROVE  status'[j] = st[j] \/ (st[j] \in Retired /\ status'[j] \in Retired)
  <2>1. b[j] = a[j]
    BY <1>3, <1>8 DEF Statuses
  <2>2. a[j] = st[j] \/ (st[j] \in Retired /\ a[j] \in Retired)
    BY <1>3, <1>7 DEF Retired
  <2>3. status'[j] = b[j] \/ (b[j] \in Retired /\ status'[j] \in Retired)
    BY <1>5 DEF Retired
  <2> QED BY <2>1, <2>2, <2>3
<1>9. \A j \in Jobs : j # new => info'[j] = info[j]
  BY <1>1 DEF TypeOK, StoreTypeOK
<1>10. info'[new].issue = i
  BY <1>1, <1>2 DEF TypeOK, StoreTypeOK
<1>11. \A j \in Jobs : IssueOf(j) = i => st[j] \notin ActiveStatus
  BY FindAnyLemma
<1> QED BY <1>0, <1>1, <1>2, <1>6, <1>8, <1>9, <1>10, <1>11

\* A new job comes on top of statuses that the caller may have settled.
LEMMA EnqueueLemma ==
  ASSUME TypeOK, TypeOK', Consistent,
         NEW st \in Statuses, Settles(status, st),
         NEW i \in Issues, NEW ds, NEW retry, Enqueue(st, i, ds, retry),
         \A j \in Jobs : retrying'[j] > 0 => retrying[j] > 0
  PROVE  Consistent'
<1> USE DEF Consistent
<1>0. /\ UNCHANGED <<deferred, running, runningByRepo, executing, cancelled, stuckAborted>>
      /\ status \in Statuses /\ status' \in Statuses
  BY DEF Enqueue, slotVars, flagVars, TypeOK, StoreTypeOK, Statuses
<1>1. CASE status' = st /\ UNCHANGED <<created, info, pending>>
  <2>1. Numbered' /\ OneActiveJobPerIssue' /\ WaitingExact'
    BY <1>0, <1>1, SettleLemma
  <2>2. HandlersExact'
    BY <1>0, <1>1, HandlersKept DEF Settles
  <2>3. RepoSlotsExact'
    BY <1>0, <1>1, SlotsKept
  <2> QED BY <2>1, <2>2, <2>3
<1>2. CASE /\ \A j \in FindAny(st, i) : st[j] \notin ActiveStatus
           /\ Create(ArchiveAll(st, FindAny(st, i)), i, ds, retry)
           /\ pending' = Append(pending, created + 1)
  <2>0. PICK new \in Jobs :
          /\ new = created + 1 /\ created' = new
          /\ status[new] = "none" /\ status'[new] = "queued" /\ info'[new].issue = i
          /\ \A j \in Jobs : IssueOf(j) = i => st[j] \notin ActiveStatus
          /\ \A j \in Jobs : j # new =>
               /\ info'[j] = info[j]
               /\ status'[j] = st[j] \/ (st[j] \in Retired /\ status'[j] \in Retired)
    BY <1>2, EnqueueEffect
  <2>1. created' = new /\ pending' = Append(pending, new)
    BY <1>2, <2>0
  <2>2. status[new] = "none"
    BY <2>0
  <2>6. status'[new] = "queued"
    BY <2>0
  <2>8. ASSUME NEW j \in Jobs, j # new
        PROVE  \/ status'[j] = status[j]
               \/ status[j] \in Retired \cup {"running"} /\ status'[j] \in Retired
    BY <2>0, <2>8 DEF Settles
  <2>9. \A j \in Jobs : j # new => info'[j] = info[j]
    BY <2>0
  <2>10. info'[new].issue = i
    BY <2>0
  <2>11. Numbered'
    <3> SUFFICES ASSUME NEW j \in Jobs PROVE status'[j] = "none" <=> j > created'
      BY DEF Numbered
    <3>1. CASE j = new
      BY <2>1, <2>6, <3>1 DEF Jobs
    <3>2. CASE j # new
      <4>1. status'[j] = "none" <=> status[j] = "none"
        BY <2>8, <3>2 DEF Retired, CompletedStatus
      <4>2. j > created' <=> j > created
        BY <2>0, <2>1, <3>2 DEF TypeOK, StoreTypeOK, Jobs
      <4> QED BY <4>1, <4>2 DEF Numbered
    <3> QED BY <3>1, <3>2
  <2>12. OneActiveJobPerIssue'
    <3>1. \A j \in Jobs : IssueOf(j) = i => st[j] \notin ActiveStatus
      BY <2>0
    <3>2. \A j \in Jobs : j # new /\ status'[j] \in ActiveStatus
            => /\ status[j] \in ActiveStatus /\ st[j] \in ActiveStatus
               /\ IssueOf(j)' = IssueOf(j) /\ IssueOf(j) # i
      <4> SUFFICES ASSUME NEW j \in Jobs, j # new, status'[j] \in ActiveStatus
                   PROVE  /\ status[j] \in ActiveStatus /\ st[j] \in ActiveStatus
                          /\ IssueOf(j)' = IssueOf(j) /\ IssueOf(j) # i
        OBVIOUS
      <4>1. status'[j] \notin Retired
        BY DEF Retired, CompletedStatus, ActiveStatus
      <4>2. status'[j] = status[j]
        BY <2>8, <4>1
      <4>3. status'[j] = st[j]
        BY <2>0, <4>1
      <4> QED BY <2>9, <3>1, <4>2, <4>3 DEF IssueOf
    <3>3. IssueOf(new)' = i
      BY <2>10 DEF IssueOf
    <3> SUFFICES ASSUME NEW j \in Jobs, NEW k \in Jobs, status'[j] \in ActiveStatus,
                        status'[k] \in ActiveStatus, IssueOf(j)' = IssueOf(k)'
                 PROVE  j = k
      BY DEF OneActiveJobPerIssue
    <3> QED BY <3>2, <3>3 DEF OneActiveJobPerIssue
  <2>13. WaitingExact'
    <3>1. {j \in Jobs : status'[j] = "queued"} = {j \in Jobs : status[j] = "queued"} \cup {new}
      BY <2>2, <2>6, <2>8 DEF Retired, CompletedStatus
    <3>2. new \notin ToSet(pending) /\ new \notin ToSet(deferred)
      BY <2>2 DEF WaitingExact
    <3>3. pending \in Seq(Jobs)
      BY DEF TypeOK, SchedulerTypeOK
    <3>4. ToSet(pending') = ToSet(pending) \cup {new} /\ Distinct(pending')
      BY <2>1, <3>2, <3>3, AppendLemma DEF WaitingExact
    <3> QED BY <1>0, <3>1, <3>2, <3>4 DEF WaitingExact
  <2>14. HandlersExact'
    <3>1. \A j \in Jobs : \/ status'[j] = status[j]
                          \/ status[j] \in Retired \cup {"running"} /\ status'[j] \in Retired
                          \/ status[j] \in {"none", "queued"} /\ status'[j] # "running"
      BY <2>2, <2>6, <2>8
    <3> QED BY <1>0, <3>1, HandlersKept
  <2>15. RepoSlotsExact'
    <3>1. \A j \in executing : j \in Jobs /\ j # new
      BY <2>2 DEF HandlersExact, Retired, CompletedStatus, TypeOK, QueueTypeOK
    <3> QED BY <1>0, <2>9, <3>1, SlotsKept
  <2> QED BY <2>11, <2>12, <2>13, <2>14, <2>15
<1> QED BY <1>1, <1>2 DEF Enqueue

-----------------------------------------------------------------------------
(* processNext *)

\* A job leaves the queue, to run or to end.
LEMMA LeaveLemma ==
  ASSUME TypeOK, TypeOK', Numbered, OneActiveJobPerIssue, WaitingExact,
         NEW j \in ToSet(pending),
         Distinct(pending'), ToSet(pending') = ToSet(pending) \ {j},
         UNCHANGED <<created, info, deferred>>,
         \A k \in Jobs : k # j => status'[k] = status[k],
         status'[j] \in Retired \cup {"running"}
  PROVE  Numbered' /\ OneActiveJobPerIssue' /\ WaitingExact'
<1>1. j \in Jobs /\ status[j] = "queued"
  BY DEF WaitingExact
<1>2. Numbered'
  BY <1>1 DEF Numbered, Retired, CompletedStatus
<1>3. OneActiveJobPerIssue'
  BY <1>1 DEF OneActiveJobPerIssue, IssueOf, ActiveStatus
<1>4. {k \in Jobs : status'[k] = "queued"} = {k \in Jobs : status[k] = "queued"} \ {j}
  BY <1>1 DEF Retired, CompletedStatus
<1>5. WaitingExact'
  BY <1>4 DEF WaitingExact
<1> QED BY <1>2, <1>3, <1>5

LEMMA RemoveLemma ==
  ASSUME TypeOK, WaitingExact, NEW k \in DOMAIN pending, pending' = RemoveAt(pending, k)
  PROVE  /\ pending[k] \in ToSet(pending) /\ pending[k] \in Jobs
         /\ status[pending[k]] = "queued"
         /\ Distinct(pending') /\ ToSet(pending') = ToSet(pending) \ {pending[k]}
<1>1. pending \in Seq(Jobs) /\ Distinct(pending)
  BY DEF TypeOK, SchedulerTypeOK, WaitingExact
<1>2. Distinct(pending') /\ ToSet(pending') = ToSet(pending) \ {pending[k]}
  BY <1>1, RemoveAtLemma
<1>3. pending[k] \in ToSet(pending)
  BY DEF ToSet
<1> QED BY <1>2, <1>3 DEF WaitingExact

\* The handlers at work in a repository.
AtWork(r) == {j \in executing : RepoOfJob(j) = r}

LEMMA AtWorkFinite == ASSUME TypeOK, NEW r PROVE IsFiniteSet(AtWork(r))
<1>1. IsFiniteSet(Jobs)
  BY FS_Interval, StoreAssumption DEF Jobs
<1>2. AtWork(r) \in SUBSET Jobs
  BY DEF AtWork, TypeOK, QueueTypeOK
<1> QED BY <1>1, <1>2, FS_Subset

LEMMA SlotTaken ==
  ASSUME TypeOK, RepoSlotsExact, NEW j \in Jobs, j \notin executing,
         executing' = executing \cup {j}, UNCHANGED info,
         runningByRepo' = [runningByRepo EXCEPT ![RepoOfJob(j)] = @ + 1]
  PROVE  RepoSlotsExact'
<1> SUFFICES ASSUME NEW r \in Repos PROVE runningByRepo'[r] = Cardinality(AtWork(r)')
  BY DEF RepoSlotsExact, AtWork
<1>1. /\ runningByRepo[r] = Cardinality(AtWork(r)) /\ runningByRepo[r] \in Nat
      /\ runningByRepo'[r] = IF r = RepoOfJob(j) THEN runningByRepo[r] + 1 ELSE runningByRepo[r]
  BY DEF RepoSlotsExact, AtWork, TypeOK, SchedulerTypeOK
<1>2. CASE r = RepoOfJob(j)
  <2>1. AtWork(r)' = AtWork(r) \cup {j} /\ j \notin AtWork(r)
    BY <1>2 DEF AtWork, RepoOfJob, IssueOf
  <2>2. Cardinality(AtWork(r)') = Cardinality(AtWork(r)) + 1
    BY <2>1, AtWorkFinite, FS_AddElement
  <2> QED BY <1>1, <1>2, <2>2
<1>3. CASE r # RepoOfJob(j)
  <2>1. AtWork(r)' = AtWork(r)
    BY <1>3 DEF AtWork, RepoOfJob, IssueOf
  <2> QED BY <1>1, <1>3, <2>1
<1> QED BY <1>2, <1>3

LEMMA SlotReleased ==
  ASSUME TypeOK, RepoSlotsExact, NEW j \in executing,
         executing' = executing \ {j}, UNCHANGED info, ReleaseSlot(j)
  PROVE  RepoSlotsExact'
<1> SUFFICES ASSUME NEW r \in Repos PROVE runningByRepo'[r] = Cardinality(AtWork(r)')
  BY DEF RepoSlotsExact, AtWork
<1>1. /\ runningByRepo[r] = Cardinality(AtWork(r)) /\ runningByRepo[r] \in Nat
      /\ runningByRepo'[r] = IF r # RepoOfJob(j) THEN runningByRepo[r]
                             ELSE IF runningByRepo[r] > 1 THEN runningByRepo[r] - 1 ELSE 0
  BY DEF RepoSlotsExact, AtWork, TypeOK, SchedulerTypeOK, ReleaseSlot
<1>2. CASE r = RepoOfJob(j)
  <2>1. AtWork(r)' = AtWork(r) \ {j} /\ j \in AtWork(r)
    BY <1>2 DEF AtWork, RepoOfJob, IssueOf
  <2>2. Cardinality(AtWork(r)') = Cardinality(AtWork(r)) - 1 /\ Cardinality(AtWork(r)') \in Nat
    BY <2>1, AtWorkFinite, FS_RemoveElement, FS_CardinalityType
  <2> QED BY <1>1, <1>2, <2>2
<1>3. CASE r # RepoOfJob(j)
  <2>1. AtWork(r)' = AtWork(r)
    BY <1>3 DEF AtWork, RepoOfJob, IssueOf
  <2> QED BY <1>1, <1>3, <2>1
<1> QED BY <1>2, <1>3

LEMMA ScheduleSafe == ASSUME TypeOK, TypeOK', Consistent, Schedule PROVE Consistent'
<1> USE DEF Consistent, storeVars, slotVars, queueOnlyVars, flagVars, requestVars
<1>0. status \in Statuses /\ status' \in Statuses
  BY DEF TypeOK, StoreTypeOK, Statuses
<1>1. ASSUME NEW k \in DOMAIN pending, StartJob(k) PROVE Consistent'
  <2>0. PICK j : j = pending[k]
    OBVIOUS
  <2>1. /\ pending' = RemoveAt(pending, k)
        /\ running' = running \cup {j} /\ executing' = executing \cup {j}
        /\ runningByRepo' = [runningByRepo EXCEPT ![RepoOfJob(j)] = @ + 1]
        /\ status' = Put(status, j, "running")
        /\ UNCHANGED <<created, info, deferred, cancelled, stuckAborted, retrying>>
    BY <1>1, <2>0 DEF StartJob, Dispatch, Take
  <2>2. /\ j \in ToSet(pending) /\ j \in Jobs /\ status[j] = "queued"
        /\ Distinct(pending') /\ ToSet(pending') = ToSet(pending) \ {j}
    BY <2>0, <2>1, RemoveLemma
  <2>3. status'[j] = "running" /\ \A h \in Jobs : h # j => status'[h] = status[h]
    BY <1>0, <2>1, <2>2, PutLemma DEF RowStatus, ActiveStatus
  <2>4. j \notin executing
    BY <2>2 DEF HandlersExact, Retired, CompletedStatus
  <2>5. Numbered' /\ OneActiveJobPerIssue' /\ WaitingExact'
    BY <2>1, <2>2, <2>3, LeaveLemma
  <2>6. HandlersExact'
    BY <2>1, <2>2, <2>3 DEF HandlersExact, Retired, CompletedStatus
  <2>7. RepoSlotsExact'
    BY <2>1, <2>2, <2>4, SlotTaken
  <2> QED BY <2>5, <2>6, <2>7
<1>2. ASSUME NEW k \in DOMAIN pending, FailDependent(k), UNCHANGED queueOnlyVars
      PROVE  Consistent'
  <2>0. PICK j : j = pending[k]
    OBVIOUS
  <2>1. /\ pending' = RemoveAt(pending, k) /\ status' = Put(status, j, "failure")
        /\ UNCHANGED <<created, info, deferred, running, runningByRepo, executing, cancelled,
                       stuckAborted, retrying>>
    BY <1>2, <2>0 DEF FailDependent, Take
  <2>2. /\ j \in ToSet(pending) /\ j \in Jobs /\ status[j] = "queued"
        /\ Distinct(pending') /\ ToSet(pending') = ToSet(pending) \ {j}
    BY <2>0, <2>1, RemoveLemma
  <2>3. status'[j] = "failure" /\ \A h \in Jobs : h # j => status'[h] = status[h]
    <3>1. "failure" \in RowStatus /\ "queued" \in RowStatus
      BY DEF RowStatus, ActiveStatus, CompletedStatus
    <3> QED BY <1>0, <2>1, <2>2, <3>1, PutLemma
  <2>4. Numbered' /\ OneActiveJobPerIssue' /\ WaitingExact'
    BY <2>1, <2>2, <2>3, LeaveLemma DEF Retired, CompletedStatus
  <2>5. HandlersExact'
    BY <2>1, <2>2, <2>3, HandlersKept
  <2>6. RepoSlotsExact'
    BY <2>1, SlotsKept
  <2> QED BY <2>4, <2>5, <2>6
<1>3. ASSUME NEW k \in DOMAIN pending, Defer(k), UNCHANGED queueOnlyVars PROVE Consistent'
  <2>0. PICK j : j = pending[k]
    OBVIOUS
  <2>1. /\ pending' = RemoveAt(pending, k) /\ deferred' = Append(deferred, j)
        /\ UNCHANGED <<created, info, status, running, runningByRepo, executing, cancelled,
                       stuckAborted, retrying>>
    BY <1>3, <2>0 DEF Defer, Take
  <2>2. /\ j \in ToSet(pending) /\ j \in Jobs
        /\ Distinct(pending') /\ ToSet(pending') = ToSet(pending) \ {j}
    BY <2>0, <2>1, RemoveLemma
  <2>3. deferred \in Seq(Jobs) /\ Distinct(deferred) /\ j \notin ToSet(deferred)
    BY <2>2 DEF WaitingExact, TypeOK, SchedulerTypeOK
  <2>4. Distinct(deferred') /\ ToSet(deferred') = ToSet(deferred) \cup {j}
    BY <2>1, <2>2, <2>3, AppendLemma
  <2>5. WaitingExact'
    BY <2>1, <2>2, <2>3, <2>4 DEF WaitingExact
  <2>6. Numbered' /\ OneActiveJobPerIssue'
    BY <2>1 DEF Numbered, OneActiveJobPerIssue, IssueOf
  <2>7. HandlersExact' /\ RepoSlotsExact'
    BY <2>1, HandlersKept, SlotsKept
  <2> QED BY <2>5, <2>6, <2>7
<1>4. ASSUME EndDrain, UNCHANGED queueOnlyVars PROVE Consistent'
  <2>1. /\ pending' = pending \o deferred /\ deferred' = <<>>
        /\ UNCHANGED <<created, info, running, runningByRepo, executing, cancelled,
                       stuckAborted, retrying>>
    BY <1>4 DEF EndDrain
  <2>2. Settles(status, status')
    <3>1. CASE loop = "boot"
      <4>1. status' \in Pruned(status, BootCap)
        BY <1>4, <3>1 DEF EndDrain
      <4> QED BY <1>0, <4>1, PrunedSettles, StoreAssumption
    <3>2. CASE loop # "boot"
      BY <1>4, <3>2 DEF EndDrain, Settles
    <3> QED BY <3>1, <3>2
  <2>3. Distinct(pending') /\ ToSet(pending') = ToSet(pending) \cup ToSet(deferred)
    <3>1. pending \in Seq(Jobs) /\ deferred \in Seq(Jobs)
      BY DEF TypeOK, SchedulerTypeOK
    <3> QED BY <2>1, <3>1, ConcatLemma DEF WaitingExact
  <2>4. Distinct(deferred') /\ ToSet(deferred') = {}
    BY <2>1 DEF Distinct, ToSet
  <2>5. WaitingExact'
    <3>1. {j \in Jobs : status'[j] = "queued"} = {j \in Jobs : status[j] = "queued"}
      BY <2>2 DEF Settles, Retired, CompletedStatus
    <3> QED BY <2>3, <2>4, <3>1 DEF WaitingExact
  <2>6. Numbered'
    BY <2>1, <2>2 DEF Numbered, Settles, Retired, CompletedStatus
  <2>7. OneActiveJobPerIssue'
    BY <2>1, <2>2
       DEF OneActiveJobPerIssue, IssueOf, Settles, Retired, CompletedStatus, ActiveStatus
  <2>8. HandlersExact' /\ RepoSlotsExact'
    BY <2>1, <2>2, HandlersKept, SlotsKept DEF Settles
  <2> QED BY <2>5, <2>6, <2>7, <2>8
<1>5. ASSUME RunScheduled, UNCHANGED queueOnlyVars PROVE Consistent'
  <2>1. UNCHANGED <<created, info, status, pending, deferred, running, runningByRepo, executing,
                    cancelled, stuckAborted, retrying>>
    BY <1>5 DEF RunScheduled
  <2>2. Settles(status, status')
    BY <2>1 DEF Settles
  <2> QED BY <2>1, <2>2, SettleLemma, HandlersKept, SlotsKept
<1> QED BY <1>1, <1>2, <1>3, <1>4, <1>5 DEF Schedule

-----------------------------------------------------------------------------
(* The other actions *)

\* A step that at most lets jobs end.
LEMMA QuietLemma ==
  ASSUME TypeOK, TypeOK', Consistent, Settles(status, status'),
         UNCHANGED <<created, info, pending, deferred, running, runningByRepo, executing,
                     cancelled, stuckAborted>>,
         \A j \in Jobs : retrying'[j] > 0 => retrying[j] > 0 \/ status[j] \in Retired
  PROVE  Consistent'
<1> USE DEF Consistent
<1>1. Numbered' /\ OneActiveJobPerIssue' /\ WaitingExact'
  BY SettleLemma
<1>2. HandlersExact'
  BY DEF HandlersExact, Settles, Retired, CompletedStatus
<1>3. RepoSlotsExact'
  BY SlotsKept
<1> QED BY <1>1, <1>2, <1>3

LEMMA ArriveSafe == ASSUME TypeOK, TypeOK', Consistent, Arrive PROVE Consistent'
<1>1. PICK i \in Issues : \/ StartByRule(i) \/ Poll(i) \/ WebhookCheck(i)
                          \/ WebhookEnqueue(i) \/ WebhookDefer(i)
  BY DEF Arrive
<1>2. status \in Statuses /\ Settles(status, status)
  BY DEF TypeOK, StoreTypeOK, Statuses, Settles
<1>3. CASE StartByRule(i) \/ Poll(i) \/ WebhookEnqueue(i)
  <2>1. PICK ds : Enqueue(status, i, ds, FALSE) /\ UNCHANGED retrying
    BY <1>3 DEF StartByRule, Poll, WebhookEnqueue, requestVars
  <2> QED BY <1>2, <2>1, EnqueueLemma
<1>4. CASE WebhookCheck(i) \/ WebhookDefer(i)
  <2>1. UNCHANGED <<created, info, status, pending, deferred, running, runningByRepo, executing,
                    cancelled, stuckAborted, retrying>>
    BY <1>4 DEF WebhookCheck, WebhookDefer, storeVars, schedulerVars, queueVars, slotVars, flagVars
  <2> QED BY <1>2, <2>1, QuietLemma
<1> QED BY <1>1, <1>3, <1>4

LEMMA OperateSafe == ASSUME TypeOK, TypeOK', Consistent, Operate PROVE Consistent'
<1> USE DEF requestVars, queueVars, slotVars, flagVars, schedulerVars, queueOnlyVars
<1>1. PICK j \in Jobs :
        \/ PollFailed(j) \/ RetryJob(j) \/ RetryEnqueue(j) \/ CancelPending(j)
        \/ CancelRunning(j) \/ DeleteJob(j) \/ \E p \in PriorityChoices : SetPriority(j, p)
  BY DEF Operate
<1>2. /\ status \in Statuses /\ Settles(status, status) /\ IssueOf(j) \in Issues
      /\ retrying \in [Jobs -> Int]
  BY InfoLemma DEF TypeOK, StoreTypeOK, QueueTypeOK, Statuses, Settles
<1>3. CASE PollFailed(j)
  <2>1. Enqueue(status, IssueOf(j), {}, TRUE) /\ UNCHANGED retrying
    BY <1>3 DEF PollFailed
  <2> QED BY <1>2, <2>1, EnqueueLemma
<1>4. CASE RetryJob(j)
  <2>1. /\ status[j] \in Retired
        /\ status' = Put(status, j, "success") \/ UNCHANGED status
        /\ \A k \in Jobs : retrying'[k] > 0 => retrying[k] > 0 \/ k = j
        /\ UNCHANGED <<created, info, pending, deferred, running, runningByRepo, executing,
                       cancelled, stuckAborted>>
    BY <1>2, <1>4 DEF RetryJob, Retired, CompletedStatus
  <2>2. Settles(status, status')
    BY <1>2, <2>1, PutSettles DEF Retired, CompletedStatus
  <2> QED BY <2>1, <2>2, QuietLemma
<1>5. CASE RetryEnqueue(j)
  <2>1. /\ Enqueue(Put(status, j, "archived"), IssueOf(j), {}, TRUE)
        /\ retrying[j] > 0 /\ \A k \in Jobs : retrying'[k] > 0 => retrying[k] > 0
    BY <1>2, <1>5 DEF RetryEnqueue
  <2>2. status[j] \in Retired
    BY <2>1 DEF Consistent, HandlersExact
  <2>3. /\ Put(status, j, "archived") \in Statuses
        /\ Settles(status, Put(status, j, "archived"))
    BY <1>2, <2>2, PutSettles DEF Retired
  <2> QED BY <1>2, <2>1, <2>3, EnqueueLemma
<1>6. CASE CancelPending(j)
  <2>1. PICK k \in DOMAIN pending : pending[k] = j /\ pending' = RemoveAt(pending, k)
    BY <1>6 DEF CancelPending
  <2>2. /\ status' = Put(status, j, "cancelled")
        /\ UNCHANGED <<created, info, deferred, running, runningByRepo, executing, cancelled,
                       stuckAborted, retrying>>
    BY <1>6 DEF CancelPending
  <2>3. /\ j \in ToSet(pending) /\ status[j] = "queued"
        /\ Distinct(pending') /\ ToSet(pending') = ToSet(pending) \ {j}
    BY <2>1, RemoveLemma DEF Consistent
  <2>4. status'[j] = "cancelled" /\ \A h \in Jobs : h # j => status'[h] = status[h]
    <3>1. "cancelled" \in RowStatus /\ "queued" \in RowStatus
      BY DEF RowStatus, ActiveStatus, CompletedStatus
    <3> QED BY <1>2, <2>2, <2>3, <3>1, PutLemma
  <2>5. Numbered' /\ OneActiveJobPerIssue' /\ WaitingExact'
    BY <2>2, <2>3, <2>4, LeaveLemma DEF Consistent, Retired, CompletedStatus
  <2>6. HandlersExact'
    BY <2>2, <2>3, <2>4, HandlersKept DEF Consistent
  <2>7. RepoSlotsExact'
    BY <2>2, SlotsKept DEF Consistent
  <2> QED BY <2>5, <2>6, <2>7 DEF Consistent
<1>7. CASE CancelRunning(j)
  <2>1. /\ j \in running /\ cancelled' = cancelled \cup {j}
        /\ status' = Put(status, j, "cancelled")
        /\ UNCHANGED <<created, info, pending, deferred, running, runningByRepo, executing,
                       stuckAborted, retrying>>
    BY <1>7 DEF CancelRunning
  <2>2. status[j] \in Retired \cup {"running"}
    BY <2>1 DEF Consistent, HandlersExact
  <2>3. Settles(status, status') /\ status'[j] \in Retired
    BY <1>2, <2>1, <2>2, PutSettles DEF Retired, CompletedStatus
  <2>4. Numbered' /\ OneActiveJobPerIssue' /\ WaitingExact'
    BY <2>1, <2>3, SettleLemma DEF Consistent
  <2>5. HandlersExact'
    BY <2>1, <2>3 DEF Consistent, HandlersExact, Settles, Retired, CompletedStatus
  <2>6. RepoSlotsExact'
    BY <2>1, SlotsKept DEF Consistent
  <2> QED BY <2>4, <2>5, <2>6 DEF Consistent
<1>8. CASE DeleteJob(j)
  <2>1. /\ status[j] \in Retired /\ status' = [status EXCEPT ![j] = "deleted"]
        /\ UNCHANGED <<created, info, pending, deferred, running, runningByRepo, executing,
                       cancelled, stuckAborted, retrying>>
    BY <1>8 DEF DeleteJob, HasRow, RowStatus, Retired
  <2>2. Settles(status, status')
    BY <1>2, <2>1 DEF Settles, Retired, Statuses
  <2> QED BY <2>1, <2>2, QuietLemma
<1>9. ASSUME NEW p \in PriorityChoices, SetPriority(j, p) PROVE Consistent'
  <2>1. UNCHANGED <<created, info, status, pending, deferred, running, runningByRepo, executing,
                    cancelled, stuckAborted, retrying>>
    BY <1>9 DEF SetPriority
  <2> QED BY <1>2, <2>1, QuietLemma
<1> QED BY <1>1, <1>3, <1>4, <1>5, <1>6, <1>7, <1>8, <1>9

\* However a handler ends, its job is over, its slot free, its flags harmless.
LEMMA FinishSafe ==
  ASSUME TypeOK, TypeOK', Consistent, NEW j \in Jobs, Finish(j) PROVE Consistent'
<1> USE DEF Consistent
<1>1. HandlerEnds(j)
  BY DEF Finish, ReturnsCancelled, ReturnsPullRequest, ReturnsError, Throws
<1>2. /\ j \in executing /\ executing' = executing \ {j} /\ running' = running \ {j}
      /\ ReleaseSlot(j)
      /\ UNCHANGED <<created, info, pending, deferred, retrying>>
  BY <1>1 DEF HandlerEnds, ReleaseSlot, queueVars, requestVars
<1>3. /\ status \in Statuses /\ status[j] \in Retired \cup {"running"}
      /\ j \in cancelled => status[j] \in Retired
  BY <1>2 DEF HandlersExact, TypeOK, StoreTypeOK, Statuses
<1>4. Settles(status, status') /\ status'[j] \in Retired
  <2>1. \A s \in {"success", "failure"} : /\ Settles(status, Put(status, j, s))
                                         /\ Put(status, j, s)[j] \in Retired
    BY <1>3, PutSettles DEF Retired, CompletedStatus
  <2>2. CASE ReturnsCancelled(j)
    BY <1>3, <2>2 DEF ReturnsCancelled, Settles
  <2>3. CASE ReturnsPullRequest(j) \/ ReturnsError(j) \/ Throws(j)
    BY <2>1, <2>3 DEF ReturnsPullRequest, ReturnsError, Throws
  <2> QED BY <2>2, <2>3 DEF Finish
<1>5. cancelled' \subseteq cancelled /\ stuckAborted \subseteq stuckAborted' \cup {j}
  BY DEF Finish, ReturnsCancelled, ReturnsPullRequest, ReturnsError, Throws, flagVars
<1>6. Numbered' /\ OneActiveJobPerIssue' /\ WaitingExact'
  BY <1>2, <1>4, SettleLemma
<1>7. HandlersExact'
  BY <1>2, <1>4, <1>5 DEF HandlersExact, Settles, Retired, CompletedStatus
<1>8. RepoSlotsExact'
  BY <1>2, SlotReleased
<1> QED BY <1>6, <1>7, <1>8

LEMMA ExecuteSafe == ASSUME TypeOK, TypeOK', Consistent, Execute PROVE Consistent'
<1>0. status \in Statuses /\ Settles(status, status)
  BY DEF TypeOK, StoreTypeOK, Statuses, Settles
<1>1. ASSUME NEW j \in Jobs, LogPullRequest(j) PROVE Consistent'
  <2>1. UNCHANGED <<created, info, status, pending, deferred, running, runningByRepo, executing,
                    cancelled, stuckAborted, retrying>>
    BY <1>1 DEF LogPullRequest, schedulerVars, queueVars, slotVars, queueOnlyVars, flagVars,
                requestVars
  <2> QED BY <1>0, <2>1, QuietLemma
<1>2. ASSUME NEW j \in Jobs, StuckAbort(j) PROVE Consistent'
  <2>1. /\ j \in running /\ status' = Put(status, j, "failure")
        /\ running' = running \ {j} /\ stuckAborted' = stuckAborted \cup {j}
        /\ UNCHANGED <<created, info, pending, deferred, runningByRepo, executing, cancelled,
                       retrying>>
    BY <1>2 DEF StuckAbort, MarkStuckAborted, queueVars, requestVars
  <2>2. status[j] \in Retired \cup {"running"}
    BY <2>1 DEF Consistent, HandlersExact
  <2>3. Settles(status, status') /\ status'[j] \in Retired
    BY <1>0, <2>1, <2>2, PutSettles DEF Retired, CompletedStatus
  <2>4. Numbered' /\ OneActiveJobPerIssue' /\ WaitingExact'
    BY <2>1, <2>3, SettleLemma DEF Consistent
  <2>5. HandlersExact'
    BY <2>1, <2>3 DEF Consistent, HandlersExact, Settles, Retired, CompletedStatus
  <2>6. RepoSlotsExact'
    BY <2>1, SlotsKept DEF Consistent
  <2> QED BY <2>4, <2>5, <2>6 DEF Consistent
<1> QED BY <1>1, <1>2, FinishSafe DEF Execute

LEMMA ConfigureSafe == ASSUME TypeOK, TypeOK', Consistent, Configure PROVE Consistent'
<1>1. UNCHANGED <<created, info, status, pending, deferred, running, runningByRepo, executing,
                  cancelled, stuckAborted, retrying>>
  BY DEF Configure, SetConcurrency, SetProjectConcurrency, storeVars, schedulerVars, queueVars,
         slotVars, queueOnlyVars, flagVars, requestVars
<1>2. Settles(status, status')
  BY <1>1 DEF Settles
<1> QED BY <1>1, <1>2, QuietLemma

LEMMA ProcessSafe == ASSUME TypeOK, TypeOK', Consistent, Process PROVE Consistent'
<1> USE DEF Consistent
<1>1. CASE Shutdown
  <2>1. UNCHANGED <<created, info, status, pending, deferred, running, runningByRepo, executing,
                    cancelled, stuckAborted, retrying>>
    BY <1>1 DEF Shutdown, storeVars, schedulerVars, queueVars, slotVars, flagVars, requestVars
  <2>2. Settles(status, status')
    BY <2>1 DEF Settles
  <2> QED BY <2>1, <2>2, QuietLemma
<1>2. CASE Restart
  <2> DEFINE S == {j \in Jobs : status[j] \in ActiveStatus}
  <2>1. /\ status' = [j \in Jobs |-> IF j \in S THEN "queued" ELSE status[j]]
        /\ PushNewestFirst(S) /\ deferred' = <<>>
        /\ running' = {} /\ executing' = {} /\ cancelled' = {}
        /\ runningByRepo' = [r \in Repos |-> 0] /\ retrying' = [j \in Jobs |-> 0]
        /\ UNCHANGED <<created, info>>
    BY <1>2 DEF Restart, Recover, Reboot
  <2>2. \A j \in Jobs : status'[j] = IF j \in S THEN "queued" ELSE status[j]
    BY <2>1
  <2>3. Numbered'
    BY <2>1, <2>2 DEF Numbered, ActiveStatus
  <2>4. OneActiveJobPerIssue'
    BY <2>1, <2>2 DEF OneActiveJobPerIssue, IssueOf, ActiveStatus
  <2>5. WaitingExact'
    <3>1. Distinct(pending') /\ ToSet(pending') = S
      BY <2>1, PushLemma
    <3>2. Distinct(deferred') /\ ToSet(deferred') = {}
      BY <2>1 DEF Distinct, ToSet
    <3>3. {j \in Jobs : status'[j] = "queued"} = S
      BY <2>2 DEF ActiveStatus
    <3> QED BY <3>1, <3>2, <3>3 DEF WaitingExact
  <2>6. HandlersExact'
    BY <2>1, <2>2 DEF HandlersExact, ActiveStatus
  <2>7. RepoSlotsExact'
    <3> SUFFICES ASSUME NEW r \in Repos PROVE runningByRepo'[r] = Cardinality(AtWork(r)')
      BY DEF RepoSlotsExact, AtWork
    <3>1. AtWork(r)' = {}
      BY <2>1 DEF AtWork
    <3> QED BY <2>1, <3>1, FS_EmptySet
  <2> QED BY <2>3, <2>4, <2>5, <2>6, <2>7
<1> QED BY <1>1, <1>2 DEF Process

-----------------------------------------------------------------------------
(* The theorems *)

LEMMA InitConsistent == Init => Consistent
<1> SUFFICES ASSUME Init PROVE Consistent
  OBVIOUS
<1> USE DEF Init, StoreInit, SchedulerInit
<1>1. Numbered /\ OneActiveJobPerIssue
  BY DEF Numbered, OneActiveJobPerIssue, ActiveStatus, Jobs
<1>2. WaitingExact
  BY DEF WaitingExact, Distinct, ToSet
<1>3. HandlersExact
  BY DEF HandlersExact
<1>4. RepoSlotsExact
  <2> SUFFICES ASSUME NEW r \in Repos PROVE runningByRepo[r] = Cardinality(AtWork(r))
    BY DEF RepoSlotsExact, AtWork
  <2>1. AtWork(r) = {}
    BY DEF AtWork
  <2> QED BY <2>1, FS_EmptySet
<1> QED BY <1>1, <1>2, <1>3, <1>4 DEF Consistent

LEMMA NextConsistent == TypeOK /\ TypeOK' /\ Consistent /\ [Next]_vars => Consistent'
<1> SUFFICES ASSUME TypeOK, TypeOK', Consistent, [Next]_vars PROVE Consistent'
  OBVIOUS
<1>1. CASE UNCHANGED vars
  <2>1. UNCHANGED <<created, info, status, pending, deferred, running, runningByRepo, executing,
                    cancelled, stuckAborted, retrying>>
    BY <1>1 DEF vars, storeVars, schedulerVars, queueVars, slotVars, queueOnlyVars, flagVars,
                requestVars
  <2>2. Settles(status, status')
    BY <2>1 DEF Settles
  <2> QED BY <2>1, <2>2, QuietLemma
<1> QED BY <1>1, ScheduleSafe, ArriveSafe, OperateSafe, ExecuteSafe, ConfigureSafe, ProcessSafe
        DEF Next

\* The inductive invariant holds in every reachable state.
THEOREM AlwaysConsistent == Spec => []Consistent
<1>1. Init => Consistent
  BY InitConsistent
<1>2. TypeOK /\ TypeOK' /\ Consistent /\ [Next]_vars => Consistent'
  BY NextConsistent
<1> QED BY <1>1, <1>2, TypeCorrect, PTL DEF Spec

\* enqueue never lets an issue have two queued or running jobs.
THEOREM OneActiveJob == Spec => []OneActiveJobPerIssue
<1>1. Consistent => OneActiveJobPerIssue
  BY DEF Consistent
<1> QED BY <1>1, AlwaysConsistent, PTL

\* The waiting jobs are the queued rows, each in one place.
THEOREM QueueIsStore == Spec => []QueueMatchesStore
<1>1. TypeOK /\ Consistent => QueueMatchesStore
  <2> SUFFICES ASSUME TypeOK, Consistent PROVE QueueMatchesStore
    OBVIOUS
  <2>1. pending \in Seq(Jobs) /\ deferred \in Seq(Jobs)
    BY DEF TypeOK, SchedulerTypeOK
  <2> QED BY <2>1, ConcatLemma DEF Consistent, WaitingExact, QueueMatchesStore, Distinct
<1> QED BY <1>1, TypeCorrect, AlwaysConsistent, PTL

\* Handlers, slots and the counters per repository agree.
THEOREM SlotsAccounted == Spec => [](SlotsMatchHandlers /\ RepoSlotsExact)
<1>1. Consistent => SlotsMatchHandlers /\ RepoSlotsExact
  BY DEF Consistent, HandlersExact, SlotsMatchHandlers
<1> QED BY <1>1, AlwaysConsistent, PTL

\* No row is left running without a slot and a handler.
THEOREM NoZombie == Spec => []RunningHasHandler
<1>1. Consistent => RunningHasHandler
  BY DEF Consistent, HandlersExact, RunningHasHandler
<1> QED BY <1>1, AlwaysConsistent, PTL

\* Only StartJob makes a handler.
LEMMA StartsLemma ==
  ASSUME Next, ~\E k \in DOMAIN pending : StartJob(k) PROVE executing' \subseteq executing
<1> USE DEF queueOnlyVars, requestVars
<1>1. Schedule => executing' \subseteq executing
  BY DEF Schedule
<1>2. Arrive => executing' \subseteq executing
  BY DEF Arrive, StartByRule, Poll, WebhookCheck, WebhookEnqueue, WebhookDefer, Enqueue
<1>3. Operate => executing' \subseteq executing
  BY DEF Operate, PollFailed, RetryJob, RetryEnqueue, CancelPending, CancelRunning, DeleteJob,
         SetPriority, Enqueue
<1>4. Execute => executing' \subseteq executing
  BY DEF Execute, Finish, ReturnsCancelled, ReturnsPullRequest, ReturnsError, Throws,
         HandlerEnds, LogPullRequest, StuckAbort
<1>5. Configure \/ Process => executing' \subseteq executing
  BY DEF Configure, Process, Shutdown, Restart, Recover, Reboot
<1> QED BY <1>1, <1>2, <1>3, <1>4, <1>5 DEF Next

\* Nothing but a queued job is ever started.
THEOREM QueuedStart == Spec => StartsOnlyQueued
<1> DEFINE Starts == \A j \in executing' \ executing : status[j] = "queued"
<1>1. TypeOK /\ Consistent /\ [Next]_vars => [Starts]_vars
  <2> SUFFICES ASSUME TypeOK, Consistent, Next PROVE Starts
    OBVIOUS
  <2>1. ASSUME NEW k \in DOMAIN pending, StartJob(k) PROVE Starts
    <3>1. pending' = RemoveAt(pending, k) /\ executing' = executing \cup {pending[k]}
      BY <2>1 DEF StartJob, Dispatch, Take
    <3>2. status[pending[k]] = "queued"
      BY <3>1, RemoveLemma DEF Consistent
    <3> QED BY <3>1, <3>2
  <2> QED BY <2>1, StartsLemma
<1>2. Spec => [][Starts]_vars
  BY <1>1, TypeCorrect, AlwaysConsistent, PTL DEF Spec
<1> QED BY <1>2 DEF StartsOnlyQueued

\* No start exceeds a limit, for any limits, changed at any time.
THEOREM LimitsKept == Spec => StartsWithinLimits
<1> DEFINE Starts ==
             \A j \in executing' \ executing :
               LET r == RepoOfJob(j) IN
                 /\ Cardinality(running') <= concurrency
                 /\ \/ projectConcurrency[r] = 0
                    \/ Cardinality({k \in executing' : RepoOfJob(k) = r}) <= projectConcurrency[r]
<1>1. TypeOK /\ Consistent /\ [Next]_vars => [Starts]_vars
  <2> SUFFICES ASSUME TypeOK, Consistent, Next PROVE Starts
    OBVIOUS
  <2>1. ASSUME NEW k \in DOMAIN pending, StartJob(k) PROVE Starts
    <3>0. PICK j : j = pending[k]
      OBVIOUS
    <3>1. /\ executing' = executing \cup {j} /\ running' = running \cup {j}
          /\ Cardinality(running) < concurrency /\ ~AtProjectLimit(RepoOfJob(j))
          /\ pending' = RemoveAt(pending, k) /\ DependenciesMet(j)
      BY <2>1, <3>0 DEF StartJob, Dispatch, Take, MayTake, MustWait
    <3>2. j \in Jobs /\ status[j] = "queued"
      BY <3>0, <3>1, RemoveLemma DEF Consistent
    <3>3. j \notin executing /\ j \notin running
      BY <3>2 DEF Consistent, HandlersExact, Retired, CompletedStatus
    <3>4. Cardinality(running') <= concurrency
      <4>1. IsFiniteSet(running)
        <5>1. IsFiniteSet(Jobs) /\ running \in SUBSET Jobs
          BY FS_Interval, StoreAssumption DEF TypeOK, SchedulerTypeOK, Jobs
        <5> QED BY <5>1, FS_Subset
      <4>2. Cardinality(running') = Cardinality(running) + 1 /\ Cardinality(running) \in Nat
        BY <3>1, <3>3, <4>1, FS_AddElement, FS_CardinalityType
      <4>3. concurrency \in Nat
        BY SchedulerAssumption DEF TypeOK, SchedulerTypeOK
      <4> QED BY <3>1, <4>2, <4>3
    <3>5. \/ projectConcurrency[RepoOfJob(j)] = 0
          \/ Cardinality({h \in executing' : RepoOfJob(h) = RepoOfJob(j)})
               <= projectConcurrency[RepoOfJob(j)]
      <4> DEFINE r == RepoOfJob(j)
      <4>1. r \in Repos
        BY <3>2, InfoLemma DEF TypeOK
      <4>2. runningByRepo[r] = Cardinality(AtWork(r))
        BY <4>1 DEF Consistent, RepoSlotsExact, AtWork
      <4>3. {h \in executing' : RepoOfJob(h) = r} = AtWork(r) \cup {j} /\ j \notin AtWork(r)
        BY <3>1, <3>3 DEF AtWork
      <4>4. /\ Cardinality(AtWork(r) \cup {j}) = Cardinality(AtWork(r)) + 1
            /\ Cardinality(AtWork(r)) \in Nat
        BY <4>3, AtWorkFinite, FS_AddElement, FS_CardinalityType
      <4>5. projectConcurrency[r] \in Nat
        BY <4>1, SchedulerAssumption DEF TypeOK, SchedulerTypeOK
      <4>6. projectConcurrency[r] = 0 \/ runningByRepo[r] < projectConcurrency[r]
        BY <3>1, <4>2, <4>4, <4>5 DEF AtProjectLimit
      <4> HIDE DEF r
      <4>7. projectConcurrency[r] = 0
            \/ Cardinality(AtWork(r)) + 1 <= projectConcurrency[r]
        BY <4>2, <4>4, <4>5, <4>6
      <4> QED BY <4>3, <4>4, <4>7 DEF r
    <3> QED BY <3>1, <3>4, <3>5
  <2> QED BY <2>1, StartsLemma
<1>2. Spec => [][Starts]_vars
  BY <1>1, TypeCorrect, AlwaysConsistent, PTL DEF Spec
<1> QED BY <1>2, PTL DEF StartsWithinLimits

-----------------------------------------------------------------------------
(* Archived rows *)

\* enqueue, on statuses that leave an archived row alone, leaves it alone.
LEMMA EnqueueArchived ==
  ASSUME TypeOK, Numbered, NEW j \in Jobs, status[j] = "archived",
         NEW st \in Statuses, st[j] = "archived",
         NEW i, NEW ds, NEW retry, Enqueue(st, i, ds, retry)
  PROVE  status'[j] = "archived"
<1>1. CASE status' = st
  BY <1>1
<1>2. CASE Create(ArchiveAll(st, FindAny(st, i)), i, ds, retry)
  <2> DEFINE a == ArchiveAll(st, FindAny(st, i))
             b == [a EXCEPT ![created + 1] = "queued"]
  <2>1. a \in Statuses /\ a[j] = "archived"
    BY ArchiveLemma
  <2>2. j # created + 1
    BY DEF Numbered, TypeOK, StoreTypeOK, Jobs
  <2>3. b \in Statuses /\ b[j] = "archived"
    BY <2>1, <2>2 DEF Statuses, Status, RowStatus, ActiveStatus
  <2>4. status' \in Pruned(b, StoreCap)
    BY <1>2 DEF Create
  <2> HIDE DEF b
  <2>5. status'[j] = b[j] \/ b[j] \in CompletedStatus
    BY <2>3, <2>4, PrunedLemma, StoreAssumption
  <2> QED BY <2>3, <2>5 DEF CompletedStatus
<1> QED BY <1>1, <1>2 DEF Enqueue

\* Without a handler, nothing brings an archived row back.
THEOREM ArchivedRest == Spec => ArchivedStays
<1> DEFINE Rests(j) == status'[j] \in {"archived", "deleted"}
           Stays == \A j \in Jobs : status[j] = "archived" /\ j \notin executing => Rests(j)
<1>1. TypeOK /\ Consistent /\ [Next]_vars => [Stays]_vars
  <2> SUFFICES ASSUME TypeOK, Consistent, Next,
                      NEW j \in Jobs, status[j] = "archived", j \notin executing
               PROVE  Rests(j)
    OBVIOUS
  <2>0. /\ status \in Statuses /\ Numbered /\ j \notin running
        /\ \A s \in RowStatus, k \in Jobs : k # j => Put(status, k, s)[j] = "archived"
    BY PutLemma DEF TypeOK, StoreTypeOK, Statuses, Consistent, HandlersExact
  <2>1. \A s \in RowStatus : s \in {"running", "failure", "success", "cancelled"} => s \in RowStatus
    OBVIOUS
  <2>2. /\ "running" \in RowStatus /\ "failure" \in RowStatus /\ "success" \in RowStatus
        /\ "cancelled" \in RowStatus /\ "archived" \in RowStatus
    BY DEF RowStatus, ActiveStatus, CompletedStatus
  <2>3. CASE Schedule
    <3>1. ASSUME NEW k \in DOMAIN pending, StartJob(k) \/ FailDependent(k) PROVE Rests(j)
      <4>1. pending' = RemoveAt(pending, k)
        BY <3>1 DEF StartJob, Dispatch, FailDependent, Take
      <4>2. pending[k] \in Jobs /\ pending[k] # j
        BY <4>1, RemoveLemma DEF Consistent
      <4>3. \E s \in {"running", "failure"} : status' = Put(status, pending[k], s)
        BY <3>1 DEF StartJob, Dispatch, FailDependent
      <4> QED BY <2>0, <2>2, <4>2, <4>3
    <3>2. ASSUME EndDrain PROVE Rests(j)
      <4>1. status' = status \/ status' \in Pruned(status, BootCap)
        BY <3>2 DEF EndDrain
      <4>2. status'[j] = status[j] \/ status[j] \in CompletedStatus
        BY <2>0, <4>1, PrunedLemma, StoreAssumption
      <4> QED BY <4>2 DEF CompletedStatus
    <3>3. ASSUME RunScheduled \/ \E k \in DOMAIN pending : Defer(k) PROVE Rests(j)
      BY <3>3 DEF RunScheduled, Defer, storeVars
    <3> QED BY <2>3, <3>1, <3>2, <3>3 DEF Schedule
  <2>4. CASE Arrive
    BY <2>0, <2>4, EnqueueArchived
       DEF Arrive, StartByRule, Poll, WebhookCheck, WebhookEnqueue, WebhookDefer, storeVars
  <2>5. CASE Operate
    <3>1. PICK k \in Jobs :
            \/ PollFailed(k) \/ RetryJob(k) \/ RetryEnqueue(k) \/ CancelPending(k)
            \/ CancelRunning(k) \/ DeleteJob(k) \/ \E p \in PriorityChoices : SetPriority(k, p)
      BY <2>5 DEF Operate
    <3>2. CASE PollFailed(k)
      BY <2>0, <3>2, EnqueueArchived DEF PollFailed
    <3>3. CASE RetryJob(k)
      BY <2>0, <2>2, <3>3 DEF RetryJob
    <3>4. CASE RetryEnqueue(k)
      <4>1. Put(status, k, "archived") \in Statuses /\ Put(status, k, "archived")[j] = "archived"
        BY <2>0, <2>2, PutLemma
      <4> QED BY <2>0, <3>4, <4>1, EnqueueArchived DEF RetryEnqueue
    <3>5. CASE CancelPending(k)
      <4>1. PICK h \in DOMAIN pending : pending[h] = k /\ pending' = RemoveAt(pending, h)
        BY <3>5 DEF CancelPending
      <4>2. k # j
        BY <4>1, RemoveLemma DEF Consistent
      <4> QED BY <2>0, <2>2, <3>5, <4>2 DEF CancelPending
    <3>6. CASE CancelRunning(k)
      BY <2>0, <2>2, <3>6 DEF CancelRunning
    <3>7. CASE DeleteJob(k)
      BY <2>0, <3>7 DEF DeleteJob, Statuses
    <3>8. CASE \E p \in PriorityChoices : SetPriority(k, p)
      BY <3>8 DEF SetPriority
    <3> QED BY <3>1, <3>2, <3>3, <3>4, <3>5, <3>6, <3>7, <3>8
  <2>6. CASE Execute
    <3>1. PICK k \in Jobs : Finish(k) \/ LogPullRequest(k) \/ StuckAbort(k)
      BY <2>6 DEF Execute
    <3>2. CASE Finish(k)
      <4>1. k # j
        BY <3>2 DEF Finish, ReturnsCancelled, ReturnsPullRequest, ReturnsError, Throws, HandlerEnds
      <4>2. status' = status \/ \E s \in {"success", "failure"} : status' = Put(status, k, s)
        BY <3>2 DEF Finish, ReturnsCancelled, ReturnsPullRequest, ReturnsError, Throws
      <4> QED BY <2>0, <2>2, <4>1, <4>2
    <3>3. CASE LogPullRequest(k)
      BY <3>3 DEF LogPullRequest
    <3>4. CASE StuckAbort(k)
      BY <2>0, <2>2, <3>4 DEF StuckAbort
    <3> QED BY <3>1, <3>2, <3>3, <3>4
  <2>7. CASE Configure
    BY <2>7 DEF Configure, SetConcurrency, SetProjectConcurrency, storeVars
  <2>8. CASE Process
    BY <2>0, <2>8 DEF Process, Shutdown, Restart, Recover, storeVars, ActiveStatus
  <2> QED BY <2>3, <2>4, <2>5, <2>6, <2>7, <2>8 DEF Next
<1>2. Spec => [][Stays]_vars
  BY <1>1, TypeCorrect, AlwaysConsistent, PTL DEF Spec
<1> QED BY <1>2 DEF ArchivedStays

-----------------------------------------------------------------------------
(* Turns *)

\* Of two repositories in the queue, the turn goes to the one not served last.
LEMMA TurnLemma ==
  ASSUME TypeOK, NEW k \in DOMAIN pending, RepoAt(k) # lastServedRepo
  PROVE  Turn # lastServedRepo
<1> DEFINE later == {m \in RepoOrder : \E h \in RepoOrder : h < m /\ RepoAt(h) = lastServedRepo}
<1>1. DOMAIN pending = 1..Len(pending) /\ Len(pending) \in Nat /\ 1 \in DOMAIN pending
  BY DEF TypeOK, SchedulerTypeOK
<1>2. later \subseteq Nat /\ RepoOrder \subseteq DOMAIN pending
  BY <1>1 DEF RepoOrder
<1>3. CASE later # {}
  <2>1. Min(later) \in later
    BY <1>2, <1>3, SmallestLemma
  <2>2. RepoAt(Min(later)) # lastServedRepo
    BY <1>1, <1>2, <2>1 DEF RepoOrder
  <2>3. Turn = RepoAt(Min(later))
    BY <1>3 DEF Turn
  <2> QED BY <2>2, <2>3
<1>4. CASE later = {}
  <2>1. Turn = RepoAt(1)
    BY <1>4 DEF Turn
  <2>2. 1 \in RepoOrder
    BY <1>1 DEF RepoOrder
  <2> SUFFICES ASSUME RepoAt(1) = lastServedRepo PROVE FALSE
    BY <2>1
  \* The first job of k's repository would come later.
  <2> DEFINE places == {m \in DOMAIN pending : RepoAt(m) = RepoAt(k)}
             first == Min(places)
  <2>3. first \in places /\ \A m \in places : first <= m
    <3>1. places \in SUBSET Nat /\ places # {}
      BY <1>1
    <3> HIDE DEF places
    <3> QED BY <3>1, SmallestLemma
  <2> HIDE DEF first
  <2>4. first \in RepoOrder /\ 1 < first
    BY <1>1, <2>3 DEF RepoOrder
  <2> QED BY <1>4, <2>2, <2>4
<1> QED BY <1>3, <1>4

\* Repositories take turns, for any number of them and any priorities.
THEOREM TurnsTaken == Spec => TurnsAlternate
<1> DEFINE Alternates ==
             \A r \in Repos :
               /\ pending' # pending /\ Len(pending') < Len(pending) /\ loop # "idle"
               /\ lastServedRepo = r
               /\ \E k \in DOMAIN pending : RepoAt(k) # r
               => lastServedRepo' # r
<1>1. TypeOK /\ [Next]_vars => [Alternates]_vars
  <2> SUFFICES ASSUME TypeOK, Next, NEW r \in Repos,
                      pending' # pending, Len(pending') < Len(pending), loop # "idle",
                      lastServedRepo = r, NEW k \in DOMAIN pending, RepoAt(k) # r
               PROVE  lastServedRepo' # r
    OBVIOUS
  <2>1. Schedule \/ Restart
    BY DEF Next, Arrive, StartByRule, Poll, WebhookCheck, WebhookEnqueue, WebhookDefer,
           Operate, PollFailed, RetryJob, RetryEnqueue, CancelPending, CancelRunning, DeleteJob,
           SetPriority, Execute, Finish, ReturnsCancelled, ReturnsPullRequest, ReturnsError,
           Throws, HandlerEnds, LogPullRequest, StuckAbort, Configure, SetConcurrency,
           SetProjectConcurrency, Process, Shutdown, Idle
  <2>2. ASSUME NEW h \in DOMAIN pending, Take(h) PROVE lastServedRepo' # r
    BY <2>2, TurnLemma DEF Take, IsNext
  <2>3. ~EndDrain
    <3>1. pending \in Seq(Jobs) /\ deferred \in Seq(Jobs)
      BY DEF TypeOK, SchedulerTypeOK
    <3>2. Len(pending \o deferred) >= Len(pending)
      BY <3>1
    <3>3. Len(pending) \in Nat /\ Len(pending \o deferred) \in Nat
      BY <3>1
    <3> QED BY <3>2, <3>3 DEF EndDrain
  <2>4. CASE Restart
    BY <2>4, ProjectsAssumption DEF Restart, Recover, Reboot
  <2>5. CASE Schedule
    BY <2>2, <2>3, <2>5 DEF Schedule, StartJob, Dispatch, FailDependent, Defer, RunScheduled
  <2> QED BY <2>1, <2>4, <2>5
<1>2. Spec => [][Alternates]_vars
  BY <1>1, TypeCorrect, PTL DEF Spec
<1> QED BY <1>2 DEF TurnsAlternate

-----------------------------------------------------------------------------
(* The desk *)

\* The desk of IssueDesk as the queue keeps it.
AllWork == [i \in Issues |-> WorkOf(i)]

\* One job per issue makes WorkOf that job.
LEMMA WorkLemma ==
  ASSUME NEW i
  PROVE  /\ ActiveJobs(i) = {} => WorkOf(i) = Desk!Free
         /\ \A j : ActiveJobs(i) = {j} => WorkOf(i) = Desk!Work(status[j], j)
BY DEF WorkOf, Desk!Free, Desk!Work

LEMMA NextWorkLemma ==
  ASSUME NEW i
  PROVE  /\ ActiveJobs(i)' = {} => WorkOf(i)' = Desk!Free
         /\ \A j : ActiveJobs(i)' = {j} => WorkOf(i)' = Desk!Work(status'[j], j)
BY DEF WorkOf, Desk!Free, Desk!Work

LEMMA WorkUnmoved ==
  ASSUME NEW i, ActiveJobs(i)' = ActiveJobs(i), \A j \in ActiveJobs(i) : status'[j] = status[j]
  PROVE  WorkOf(i)' = WorkOf(i)
<1>1. CASE ActiveJobs(i) = {}
  BY <1>1 DEF WorkOf
<1>2. CASE ActiveJobs(i) # {}
  <2>1. PICK j \in ActiveJobs(i) : j = CHOOSE k \in ActiveJobs(i) : TRUE
    BY <1>2
  <2> QED BY <1>2, <2>1 DEF WorkOf
<1> QED BY <1>1, <1>2

LEMMA ActiveAlone ==
  ASSUME OneActiveJobPerIssue, NEW j \in Jobs, status[j] \in ActiveStatus
  PROVE  ActiveJobs(IssueOf(j)) = {j}
BY DEF OneActiveJobPerIssue, ActiveJobs

\* What a step may do to a job without anyone at the desk noticing.
Quiet(j) == status'[j] = status[j] \/ {status[j], status'[j]} \cap ActiveStatus = {}

\* A step that leaves the others alone and lets one job begin or end.
LEMMA OneMoves ==
  ASSUME TypeOK, OneActiveJobPerIssue, UNCHANGED <<created, info>>, NEW j \in Jobs,
         \A k \in Jobs : k # j => Quiet(k),
         \/ Quiet(j)
         \/ status[j] \in ActiveStatus /\ status'[j] \notin ActiveStatus
         \/ status[j] = "queued" /\ status'[j] = "running"
  PROVE  [Desk!Next]_<<created, AllWork>>
<1>0. PICK i \in Issues : i = IssueOf(j)
  BY InfoLemma DEF TypeOK
<1>1. ASSUME NEW k \in Issues, k # i \/ Quiet(j) PROVE WorkOf(k)' = WorkOf(k)
  BY <1>0, <1>1, WorkUnmoved DEF ActiveJobs, IssueOf, Quiet
<1>2. CASE Quiet(j)
  BY <1>1, <1>2 DEF AllWork
<1>3. CASE status[j] \in ActiveStatus /\ status'[j] \notin ActiveStatus
  <2>1. ActiveJobs(i) = {j} /\ ActiveJobs(i)' = {}
    BY <1>0, <1>3, ActiveAlone DEF ActiveJobs, IssueOf, Quiet
  <2>2. WorkOf(i)' = Desk!Free /\ WorkOf(i) = Desk!Work(status[j], j)
    BY <2>1, WorkLemma, NextWorkLemma
  <2>3. AllWork' = [AllWork EXCEPT ![i] = Desk!Free]
    BY <1>1, <2>2 DEF AllWork
  <2>4. AllWork[i] # Desk!Free
    <3>1. status[j] # "none"
      BY <1>3 DEF ActiveStatus
    <3> QED BY <2>2, <3>1 DEF AllWork, Desk!Free, Desk!Work
  <2> QED BY <2>3, <2>4 DEF Desk!Next, Desk!Close, AllWork
<1>4. CASE status[j] = "queued" /\ status'[j] = "running"
  <2>1. ActiveJobs(i) = {j} /\ ActiveJobs(i)' = {j}
    BY <1>0, <1>4, ActiveAlone DEF ActiveJobs, IssueOf, Quiet, ActiveStatus
  <2>2. WorkOf(i)' = Desk!Work("running", j) /\ WorkOf(i) = Desk!Work("queued", j)
    BY <1>4, <2>1, WorkLemma, NextWorkLemma
  <2>3. AllWork[i] = Desk!Work("queued", j) /\ AllWork[i].stage = "queued"
    BY <2>2 DEF AllWork, Desk!Work
  <2>4. AllWork' = [AllWork EXCEPT ![i] = Desk!Work("running", j)]
    BY <1>1, <2>2 DEF AllWork
  <2>5. [Desk!Work("queued", j) EXCEPT !.stage = "running"] = Desk!Work("running", j)
    BY DEF Desk!Work
  <2>6. AllWork' = [AllWork EXCEPT ![i] = [AllWork[i] EXCEPT !.stage = "running"]]
    BY <2>3, <2>4, <2>5
  <2> QED BY <2>3, <2>6 DEF Desk!Next, Desk!Begin, AllWork
<1> QED BY <1>2, <1>3, <1>4

LEMMA NoneMoves ==
  ASSUME TypeOK, UNCHANGED <<created, info>>, \A k \in Jobs : Quiet(k)
  PROVE  [Desk!Next]_<<created, AllWork>>
<1>1. ASSUME NEW k \in Issues PROVE WorkOf(k)' = WorkOf(k)
  BY <1>1, WorkUnmoved DEF ActiveJobs, IssueOf, Quiet
<1> QED BY <1>1 DEF AllWork

\* enqueue, on statuses in which no job of the desk has moved, hands out a
\* ticket or does nothing.
LEMMA EnqueueMoves ==
  ASSUME TypeOK, TypeOK', Consistent, NEW st \in Statuses, Settles(status, st),
         \A j \in Jobs : st[j] = status[j] \/ {status[j], st[j]} \cap ActiveStatus = {},
         NEW i \in Issues, NEW ds, NEW retry, Enqueue(st, i, ds, retry)
  PROVE  [Desk!Next]_<<created, AllWork>>
<1>1. CASE status' = st /\ UNCHANGED <<created, info>>
  BY <1>1, NoneMoves DEF Quiet
<1>2. CASE /\ \A j \in FindAny(st, i) : st[j] \notin ActiveStatus
           /\ Create(ArchiveAll(st, FindAny(st, i)), i, ds, retry)
  <2>1. PICK new \in Jobs :
          /\ new = created + 1 /\ created' = new
          /\ status[new] = "none" /\ status'[new] = "queued" /\ info'[new].issue = i
          /\ \A j \in Jobs : IssueOf(j) = i => st[j] \notin ActiveStatus
          /\ \A j \in Jobs : j # new =>
               /\ info'[j] = info[j]
               /\ status'[j] = st[j] \/ (st[j] \in Retired /\ status'[j] \in Retired)
    BY <1>2, EnqueueEffect DEF Consistent
  <2>2. ASSUME NEW j \in Jobs, j # new PROVE Quiet(j) /\ IssueOf(j)' = IssueOf(j)
    BY <2>1, <2>2 DEF Quiet, IssueOf, Retired, CompletedStatus, ActiveStatus
  <2>3. ASSUME NEW k \in Issues, k # i PROVE WorkOf(k)' = WorkOf(k)
    <3>1. /\ ActiveJobs(k)' = ActiveJobs(k)
          /\ \A j \in ActiveJobs(k) : status'[j] = status[j]
      BY <2>1, <2>2, <2>3 DEF ActiveJobs, IssueOf, Quiet, ActiveStatus
    <3> QED BY <3>1, WorkUnmoved
  <2>4. ActiveJobs(i) = {} /\ ActiveJobs(i)' = {new}
    <3>1. \A j \in Jobs : IssueOf(j) = i => status[j] \notin ActiveStatus
      BY <2>1
    <3>2. \A j \in Jobs : j # new /\ IssueOf(j)' = i => status'[j] \notin ActiveStatus
      BY <3>1, <2>2 DEF Quiet
    <3> QED BY <2>1, <3>1, <3>2 DEF ActiveJobs, IssueOf, ActiveStatus
  <2>5. WorkOf(i) = Desk!Free /\ WorkOf(i)' = Desk!Work("queued", created')
    BY <2>1, <2>4, WorkLemma, NextWorkLemma
  <2>6. /\ AllWork[i] = Desk!Free
        /\ AllWork' = [AllWork EXCEPT ![i] = Desk!Work("queued", created')]
    BY <2>3, <2>5 DEF AllWork
  <2>7. created < MaxJobs /\ created' = created + 1
    BY <1>2 DEF Create
  <2> QED BY <2>6, <2>7 DEF Desk!Next, Desk!Accept, AllWork
<1> QED BY <1>1, <1>2 DEF Enqueue

\* Put on a job that is not queued at most ends it.
LEMMA PutMoves ==
  ASSUME TypeOK, OneActiveJobPerIssue, UNCHANGED <<created, info>>, NEW j \in Jobs,
         NEW s \in {"success", "failure", "cancelled"},
         status' = status \/ status' = Put(status, j, s)
  PROVE  [Desk!Next]_<<created, AllWork>>
<1>1. status \in Statuses /\ s \in RowStatus /\ s \notin ActiveStatus
  BY DEF TypeOK, StoreTypeOK, Statuses, RowStatus, CompletedStatus, ActiveStatus
<1>2. CASE status' = status
  BY <1>2, NoneMoves DEF Quiet
<1>3. CASE status' = Put(status, j, s)
  <2>1. \A k \in Jobs : k # j => Quiet(k)
    BY <1>1, <1>3, PutLemma DEF Quiet
  <2>2. Quiet(j) \/ (status[j] \in ActiveStatus /\ status'[j] \notin ActiveStatus)
    BY <1>1, <1>3, PutLemma DEF Quiet
  <2> QED BY <2>1, <2>2, OneMoves
<1> QED BY <1>2, <1>3

LEMMA ScheduleMoves ==
  ASSUME TypeOK, Consistent, Schedule PROVE [Desk!Next]_<<created, AllWork>>
<1>0. status \in Statuses /\ OneActiveJobPerIssue
  BY DEF TypeOK, StoreTypeOK, Statuses, Consistent
<1>1. ASSUME NEW k \in DOMAIN pending, StartJob(k) PROVE [Desk!Next]_<<created, AllWork>>
  <2>0. PICK j : j = pending[k]
    OBVIOUS
  <2>1. /\ pending' = RemoveAt(pending, k) /\ status' = Put(status, j, "running")
        /\ UNCHANGED <<created, info>>
    BY <1>1, <2>0 DEF StartJob, Dispatch, Take
  <2>2. j \in Jobs /\ status[j] = "queued"
    BY <2>0, <2>1, RemoveLemma DEF Consistent
  <2>3. status'[j] = "running" /\ \A h \in Jobs : h # j => status'[h] = status[h]
    BY <1>0, <2>1, <2>2, PutLemma DEF RowStatus, ActiveStatus
  <2> QED BY <1>0, <2>1, <2>2, <2>3, OneMoves DEF Quiet
<1>2. ASSUME NEW k \in DOMAIN pending, FailDependent(k) PROVE [Desk!Next]_<<created, AllWork>>
  <2>1. /\ pending' = RemoveAt(pending, k) /\ status' = Put(status, pending[k], "failure")
        /\ UNCHANGED <<created, info>>
    BY <1>2 DEF FailDependent, Take
  <2>2. pending[k] \in Jobs
    BY <2>1, RemoveLemma DEF Consistent
  <2> QED BY <1>0, <2>1, <2>2, PutMoves
<1>3. CASE EndDrain
  <2>1. status' = status \/ status' \in Pruned(status, BootCap)
    BY <1>3 DEF EndDrain
  <2>2. \A j \in Jobs : Quiet(j)
    <3>1. CASE status' = status
      BY <3>1 DEF Quiet
    <3>2. CASE status' \in Pruned(status, BootCap)
      <4>1. \A j \in Jobs : \/ status'[j] = status[j]
                            \/ status[j] \in CompletedStatus /\ status'[j] = "deleted"
        BY <1>0, <3>2, PrunedLemma, StoreAssumption
      <4> QED BY <4>1 DEF Quiet, CompletedStatus, ActiveStatus
    <3> QED BY <2>1, <3>1, <3>2
  <2> QED BY <1>3, <2>2, NoneMoves DEF EndDrain
<1>4. CASE RunScheduled \/ \E k \in DOMAIN pending : Defer(k)
  BY <1>4, NoneMoves DEF RunScheduled, Defer, storeVars, Quiet
<1> QED BY <1>1, <1>2, <1>3, <1>4 DEF Schedule

LEMMA OperateMoves ==
  ASSUME TypeOK, TypeOK', Consistent, Operate PROVE [Desk!Next]_<<created, AllWork>>
<1>1. PICK j \in Jobs :
        \/ PollFailed(j) \/ RetryJob(j) \/ RetryEnqueue(j) \/ CancelPending(j)
        \/ CancelRunning(j) \/ DeleteJob(j) \/ \E p \in PriorityChoices : SetPriority(j, p)
  BY DEF Operate
<1>2. /\ status \in Statuses /\ Settles(status, status) /\ IssueOf(j) \in Issues
      /\ OneActiveJobPerIssue
  BY InfoLemma DEF TypeOK, StoreTypeOK, Statuses, Settles, Consistent
<1>3. CASE PollFailed(j)
  BY <1>2, <1>3, EnqueueMoves DEF PollFailed
<1>4. CASE RetryEnqueue(j)
  <2> DEFINE st == Put(status, j, "archived")
  <2>1. Enqueue(st, IssueOf(j), {}, TRUE) /\ status[j] \in Retired
    BY <1>4 DEF RetryEnqueue, Consistent, HandlersExact
  <2>2. st \in Statuses /\ Settles(status, st) /\ st[j] \in Retired
    BY <1>2, <2>1, PutSettles DEF Retired
  <2>3. "archived" \in RowStatus
    BY DEF RowStatus
  <2>4. \A k \in Jobs : k # j => st[k] = status[k]
    BY <1>2, <2>3, PutLemma
  <2>5. \A k \in Jobs : st[k] = status[k] \/ {status[k], st[k]} \cap ActiveStatus = {}
    BY <2>1, <2>2, <2>4 DEF Retired, CompletedStatus, ActiveStatus
  <2> HIDE DEF st
  <2> QED BY <1>2, <2>1, <2>2, <2>5, EnqueueMoves
<1>5. CASE RetryJob(j) \/ CancelPending(j) \/ CancelRunning(j)
  <2>1. UNCHANGED <<created, info>>
        /\ \E s \in {"success", "cancelled"} : status' = status \/ status' = Put(status, j, s)
    BY <1>5 DEF RetryJob, CancelPending, CancelRunning
  <2> QED BY <1>2, <2>1, PutMoves
<1>6. CASE DeleteJob(j)
  <2>1. UNCHANGED <<created, info>> /\ status[j] \notin ActiveStatus
        /\ status' = [status EXCEPT ![j] = "deleted"]
    BY <1>6 DEF DeleteJob
  <2>2. \A k \in Jobs : Quiet(k)
    BY <1>2, <2>1 DEF Quiet, Statuses, ActiveStatus
  <2> QED BY <2>1, <2>2, NoneMoves
<1>7. CASE \E p \in PriorityChoices : SetPriority(j, p)
  BY <1>7, NoneMoves DEF SetPriority, Quiet
<1> QED BY <1>1, <1>3, <1>4, <1>5, <1>6, <1>7

LEMMA RestartMoves ==
  ASSUME TypeOK, OneActiveJobPerIssue, Restart PROVE [Desk!Next]_<<created, AllWork>>
<1>1. /\ UNCHANGED <<created, info>>
      /\ \A j \in Jobs : status'[j] = IF status[j] \in ActiveStatus THEN "queued" ELSE status[j]
  BY DEF Restart, Recover
<1>2. ASSUME NEW i \in Issues
      PROVE  WorkOf(i)' = IF WorkOf(i) = Desk!Free THEN Desk!Free
                          ELSE Desk!Work("queued", WorkOf(i).ticket)
  <2>1. ActiveJobs(i)' = ActiveJobs(i)
    BY <1>1 DEF ActiveJobs, IssueOf, ActiveStatus
  <2>2. CASE ActiveJobs(i) = {}
    BY <2>1, <2>2, WorkLemma, NextWorkLemma
  <2>3. ASSUME NEW j \in ActiveJobs(i)
        PROVE  WorkOf(i)' = IF WorkOf(i) = Desk!Free THEN Desk!Free
                            ELSE Desk!Work("queued", WorkOf(i).ticket)
    <3>1. j \in Jobs /\ status[j] \in ActiveStatus /\ ActiveJobs(i) = {j}
      BY ActiveAlone DEF ActiveJobs
    <3>2. WorkOf(i) = Desk!Work(status[j], j) /\ WorkOf(i)' = Desk!Work("queued", j)
      BY <1>1, <2>1, <3>1, WorkLemma, NextWorkLemma
    <3>3. WorkOf(i) # Desk!Free /\ WorkOf(i).ticket = j
      <4>1. status[j] # "none"
        BY <3>1 DEF ActiveStatus
      <4> QED BY <3>2, <4>1 DEF Desk!Free, Desk!Work
    <3> QED BY <3>2, <3>3
  <2> QED BY <2>2, <2>3
<1>3. AllWork' = [i \in Issues |-> IF AllWork[i] = Desk!Free THEN Desk!Free
                                   ELSE Desk!Work("queued", AllWork[i].ticket)]
  BY <1>2 DEF AllWork
<1>4. Desk!SendBack
  BY <1>1, <1>3 DEF Desk!SendBack, AllWork
<1> QED BY <1>4 DEF Desk!Next

\* Every step of the queue is a step at the desk, or none.
LEMMA NextMoves ==
  TypeOK /\ TypeOK' /\ Consistent /\ [Next]_vars => [Desk!Next]_<<created, AllWork>>
<1> SUFFICES ASSUME TypeOK, TypeOK', Consistent, [Next]_vars
             PROVE  [Desk!Next]_<<created, AllWork>>
  OBVIOUS
<1>0. status \in Statuses /\ OneActiveJobPerIssue /\ Settles(status, status)
  BY DEF TypeOK, StoreTypeOK, Statuses, Consistent, Settles
<1>1. UNCHANGED <<created, info, status>> => [Desk!Next]_<<created, AllWork>>
  BY NoneMoves DEF Quiet
<1>2. CASE UNCHANGED vars
  BY <1>1, <1>2 DEF vars, storeVars
<1>3. CASE Arrive
  BY <1>0, <1>1, <1>3, EnqueueMoves
     DEF Arrive, StartByRule, Poll, WebhookCheck, WebhookEnqueue, WebhookDefer, storeVars
<1>4. CASE Execute
  <2>1. ASSUME NEW j \in Jobs, Finish(j) PROVE [Desk!Next]_<<created, AllWork>>
    <3>1. UNCHANGED <<created, info>>
          /\ \E s \in {"success", "failure"} : status' = status \/ status' = Put(status, j, s)
      BY <2>1 DEF Finish, ReturnsCancelled, ReturnsPullRequest, ReturnsError, Throws, HandlerEnds
    <3> QED BY <1>0, <3>1, PutMoves
  <2>2. ASSUME NEW j \in Jobs, StuckAbort(j) PROVE [Desk!Next]_<<created, AllWork>>
    BY <1>0, <2>2, PutMoves DEF StuckAbort
  <2>3. ASSUME NEW j \in Jobs, LogPullRequest(j) PROVE [Desk!Next]_<<created, AllWork>>
    BY <1>1, <2>3 DEF LogPullRequest
  <2> QED BY <1>4, <2>1, <2>2, <2>3 DEF Execute
<1>5. CASE Configure \/ Process
  BY <1>0, <1>1, <1>5, RestartMoves
     DEF Configure, SetConcurrency, SetProjectConcurrency, Process, Shutdown, storeVars
<1> QED BY <1>2, <1>3, <1>4, <1>5, ScheduleMoves, OperateMoves DEF Next

\* The queue implements the desk of IssueDesk, for any number of issues, jobs,
\* repositories and restarts.
THEOREM DeskImplemented == Spec => ImplementsDesk
<1>1. Init => created = 0 /\ AllWork = [i \in Issues |-> Desk!Free]
  <2> SUFFICES ASSUME Init PROVE created = 0 /\ AllWork = [i \in Issues |-> Desk!Free]
    OBVIOUS
  <2>1. \A i \in Issues : ActiveJobs(i) = {}
    BY DEF Init, StoreInit, ActiveJobs, ActiveStatus
  <2> QED BY <2>1, WorkLemma DEF Init, StoreInit, AllWork
<1>2. Init => Desk!Init
  BY <1>1 DEF Desk!Init, AllWork
<1>3. TypeOK /\ TypeOK' /\ Consistent /\ [Next]_vars => [Desk!Next]_<<created, AllWork>>
  BY NextMoves
<1>4. TypeOK /\ TypeOK' /\ Consistent /\ [Next]_vars
        => [Desk!Next]_<<created, [i \in Issues |-> WorkOf(i)]>>
  BY <1>3 DEF AllWork
<1> QED BY <1>2, <1>4, TypeCorrect, AlwaysConsistent, PTL DEF Spec, ImplementsDesk, Desk!Spec
=============================================================================
