---------------------------- MODULE JobScheduler ----------------------------
(***************************************************************************)
(* src/queue/job-scheduler.ts: the pending queue, the running set, the     *)
(* counters per repository and processNext.                                *)
(*                                                                         *)
(* processNext contains no await: once called it runs to its end before    *)
(* any other callback.  The model takes one iteration of its while loop    *)
(* per step and lets no other action happen until EndDrain, so `loop' is   *)
(* "idle" exactly when the event loop may run something else.  It is       *)
(* "boot" instead of "drain" for the call made by recover(), which cli.ts  *)
(* follows with a prune.  For the same reason isProcessing is never found  *)
(* set and needsReprocess never becomes true; neither is modelled.         *)
(***************************************************************************)
EXTENDS JobStore, ProjectErrorTracker, Sequences, SequencesExt

CONSTANTS Concurrencies,    (* values general.concurrency may take         *)
          ProjectLimits     (* values a project limit may take; 0: none    *)

ASSUME SchedulerAssumption == /\ Concurrencies \subseteq Nat \ {0}
                              /\ ProjectLimits \subseteq Nat

VARIABLES pending,          (* queue of job ids                            *)
          deferred,         (* local list of processNext                   *)
          running,          (* jobs that hold a slot of `concurrency'      *)
          runningByRepo,    (* slots taken per repository                  *)
          lastServedRepo,
          concurrency,
          projectConcurrency,
          kicks,            (* processNext calls set up by setImmediate    *)
                            (* and setTimeout                              *)
          loop

queueVars == <<pending, deferred, lastServedRepo, loop>>
slotVars == <<running, runningByRepo>>
limitVars == <<concurrency, projectConcurrency>>
schedulerVars == <<queueVars, slotVars, limitVars, kicks>>

SchedulerTypeOK ==
  /\ pending \in Seq(Jobs) /\ deferred \in Seq(Jobs)
  /\ running \subseteq Jobs
  /\ runningByRepo \in [Repos -> Nat]
  /\ lastServedRepo \in Repos \cup {NoRepo}
  /\ concurrency \in Concurrencies
  /\ projectConcurrency \in [Repos -> ProjectLimits]
  /\ kicks \in Nat
  /\ loop \in {"idle", "drain", "boot"}

SchedulerInit ==
  /\ pending = <<>> /\ deferred = <<>>
  /\ running = {} /\ runningByRepo = [r \in Repos |-> 0]
  /\ lastServedRepo = NoRepo
  /\ concurrency \in Concurrencies
  /\ projectConcurrency \in [Repos -> ProjectLimits]
  /\ kicks = 0 /\ loop = "idle"

-----------------------------------------------------------------------------
(* getNextRoundRobinJob: repositories take turns, in the order in which    *)
(* they first occur in the queue, starting after the one served last; in a *)
(* repository the best priority goes first, then the oldest job.           *)

RepoAt(k) == RepoOfJob(pending[k])

RepoOrder == {k \in DOMAIN pending : \A h \in 1..(k - 1) : RepoAt(h) # RepoAt(k)}

\* Mutant: the turn starts with the repository served last.
TurnSticky ==
  LET last == {k \in RepoOrder : RepoAt(k) = lastServedRepo}
  IN  RepoAt(IF last = {} THEN 1 ELSE Min(last))

Turn ==
  LET later == {k \in RepoOrder : \E h \in RepoOrder : h < k /\ RepoAt(h) = lastServedRepo}
  IN  RepoAt(IF later = {} THEN 1 ELSE Min(later))

Before(j, k) == \/ priority[j] < priority[k]
                \/ priority[j] = priority[k] /\ j <= k

IsNext(k) == /\ RepoAt(k) = Turn
             /\ \A h \in DOMAIN pending :
                  RepoAt(h) = Turn => Before(pending[k], pending[h])

-----------------------------------------------------------------------------
(* processNext *)

MayTake == Cardinality(running) < concurrency /\ pending # <<>>

Take(k) == /\ loop # "idle" /\ MayTake
           /\ k \in DOMAIN pending /\ IsNext(k)
           /\ pending' = RemoveAt(pending, k)
           /\ lastServedRepo' = RepoAt(k)
           /\ UNCHANGED <<limitVars, kicks, loop>>

DependenciesMet(j) == \A d \in info[j].deps : HasSuccess(status, d)

DependencyFailed(j) ==
  \E d \in info[j].deps : \E k \in FindAny(status, d) : status[k] \in {"failure", "cancelled"}

\* Mutant: the limit is exceeded by one.
AtProjectLimitLate(r) == /\ projectConcurrency[r] # 0
                         /\ runningByRepo[r] > projectConcurrency[r]

AtProjectLimit(r) == /\ projectConcurrency[r] # 0
                     /\ runningByRepo[r] >= projectConcurrency[r]

MustWait(j) == IF DependenciesMet(j)
               THEN AtProjectLimit(RepoOfJob(j)) \/ RepoOfJob(j) \in paused
               ELSE ~DependencyFailed(j)

\* A dependency failed or was cancelled: the dependent job fails unstarted.
FailDependent(k) ==
  LET j == pending[k] IN
    /\ Take(k)
    /\ ~DependenciesMet(j) /\ DependencyFailed(j)
    /\ status' = Put(status, j, "failure")
    /\ UNCHANGED <<created, info, published, priority, deferred, slotVars>>

\* Unmet dependencies, a full project or a paused project: put back later.
Defer(k) == /\ Take(k)
            /\ MustWait(pending[k])
            /\ deferred' = Append(deferred, pending[k])
            /\ UNCHANGED <<storeVars, slotVars>>

Dispatch(k) ==
  LET j == pending[k] IN
    /\ Take(k)
    /\ DependenciesMet(j) /\ ~MustWait(j)
    /\ running' = running \cup {j}
    /\ runningByRepo' = [runningByRepo EXCEPT ![RepoOfJob(j)] = @ + 1]
    /\ status' = Put(status, j, "running")
    /\ UNCHANGED <<created, info, published, priority, deferred>>

\* Mutant: one job is put back, and undefined (0) when none was deferred.
EndDrainPushOne ==
  /\ loop # "idle" /\ ~MayTake
  /\ pending' = Append(pending, IF deferred = <<>> THEN 0 ELSE Head(deferred))
  /\ deferred' = <<>>
  /\ loop' = "idle"
  /\ UNCHANGED <<storeVars, lastServedRepo, slotVars, limitVars, kicks>>

\* The loop ends: deferred jobs go back to the end of the queue.
EndDrain ==
  /\ loop # "idle" /\ ~MayTake
  /\ pending' = pending \o deferred
  /\ deferred' = <<>>
  /\ loop' = "idle"
  /\ IF loop = "boot" THEN status' \in Pruned(status, BootCap) ELSE UNCHANGED status
  /\ UNCHANGED <<created, info, published, priority, lastServedRepo, slotVars, limitVars, kicks>>

\* A processNext set up by setImmediate or setTimeout.
RunScheduled == /\ loop = "idle" /\ kicks > 0
                /\ kicks' = kicks - 1
                /\ loop' = "drain"
                /\ UNCHANGED <<storeVars, pending, deferred, lastServedRepo, slotVars, limitVars>>

-----------------------------------------------------------------------------
(* Hooks and knobs *)

\* markJobFinished
ReleaseSlot(j) ==
  /\ running' = running \ {j}
  /\ runningByRepo' = [runningByRepo EXCEPT ![RepoOfJob(j)] = IF @ > 1 THEN @ - 1 ELSE 0]
  /\ kicks' = kicks + 1

\* Mutant: the repository's slot is given back here and again at the end.
MarkStuckAbortedTwice(j) ==
  /\ running' = running \ {j}
  /\ kicks' = kicks + 1
  /\ runningByRepo' = [runningByRepo EXCEPT ![RepoOfJob(j)] = IF @ > 1 THEN @ - 1 ELSE 0]

\* Mutant: nothing looks at the queue after the slot is given away.
MarkStuckAbortedSilently(j) == /\ running' = running \ {j}
                               /\ UNCHANGED <<runningByRepo, kicks>>

\* markStuckAborted: the repository's slot stays taken until the handler ends.
MarkStuckAborted(j) == /\ running' = running \ {j}
                       /\ kicks' = kicks + 1
                       /\ UNCHANGED runningByRepo

SetConcurrency(n) == /\ loop = "idle"
                     /\ concurrency' = n
                     /\ loop' = "drain"
                     /\ UNCHANGED <<storeVars, pending, deferred, lastServedRepo, slotVars, projectConcurrency, kicks>>

SetProjectConcurrency(r, n) ==
  /\ loop = "idle"
  /\ projectConcurrency' = [projectConcurrency EXCEPT ![r] = n]
  /\ loop' = "drain"
  /\ UNCHANGED <<storeVars, pending, deferred, lastServedRepo, slotVars, concurrency, kicks>>
=============================================================================
