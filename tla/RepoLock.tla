------------------------------ MODULE RepoLock ------------------------------
(***************************************************************************)
(* src/git/repo-lock.ts: withRepoLock for one slug.  In a process callers  *)
(* form a chain of promises, each awaiting the one that came before; the   *)
(* processes of a machine (the daemon, `aqm resume', `aqm run') exclude    *)
(* one another by a file that they create and unlink.                      *)
(***************************************************************************)
EXTENDS Naturals

CONSTANTS Callers,      (* bound: calls of withRepoLock                    *)
          Processes,
          Home,         (* the process of each call                        *)
          Nobody,
          MaxRetries    (* bound: MAX_RETRIES, 50 in the code              *)

ASSUME RepoLockAssumption == /\ Home \in [Callers -> Processes]
                             /\ Nobody \notin Callers
                             /\ MaxRetries \in Nat

VARIABLES place,        (* where each call is                              *)
          prev,         (* the call it comes after                         *)
          tail,         (* inProcessQueues: the last call of each process  *)
          tries,        (* attempts at creating the file                   *)
          file          (* the call that created the lock file             *)

vars == <<place, prev, tail, tries, file>>

Finished == {"returned", "dead"}
Owning == {"holding", "unlinking"}
Turn == {"opening", "signalling"} \cup Owning

RepoLockTypeOK == /\ place \in [Callers -> {"idle", "waiting"} \cup Turn \cup Finished]
                  /\ prev \in [Callers -> Callers \cup {Nobody}]
                  /\ tail \in [Processes -> Callers \cup {Nobody}]
                  /\ tries \in [Callers -> 0..MaxRetries]
                  /\ file \in Callers \cup {Nobody}

Init == /\ place = [c \in Callers |-> "idle"]
        /\ prev = [c \in Callers |-> Nobody]
        /\ tail = [p \in Processes |-> Nobody]
        /\ tries = [c \in Callers |-> 0]
        /\ file = Nobody

GoTo(c, here, there) == place[c] = here /\ place' = [place EXCEPT ![c] = there]

-----------------------------------------------------------------------------
\* withRepoLock, up to the await of the previous call.
Enter(c) == /\ GoTo(c, "idle", "waiting")
            /\ prev' = [prev EXCEPT ![c] = tail[Home[c]]]
            /\ tail' = [tail EXCEPT ![Home[c]] = c]
            /\ UNCHANGED <<tries, file>>

\* Mutant: nothing is awaited.
ProceedAtOnce(c) == /\ GoTo(c, "waiting", "opening")
                    /\ UNCHANGED <<prev, tail, tries, file>>

\* The previous call has signalled, whether it succeeded or not.
Proceed(c) == /\ GoTo(c, "waiting", "opening")
              /\ prev[c] # Nobody => place[prev[c]] = "returned"
              /\ UNCHANGED <<prev, tail, tries, file>>

\* Mutant: the file is opened without O_EXCL.
OpenShared(c) == /\ GoTo(c, "opening", "holding")
                 /\ file' = c
                 /\ UNCHANGED <<prev, tail, tries>>

\* acquireFlockFile: O_CREAT and O_EXCL.
OpenFile(c) == /\ GoTo(c, "opening", "holding")
               /\ file = Nobody /\ file' = c
               /\ UNCHANGED <<prev, tail, tries>>

\* Mutant: there is no last attempt.
OpenFailsOn(c) == /\ place[c] = "opening" /\ file # Nobody
                  /\ UNCHANGED vars

\* The file is there: after a delay the next attempt, or a timeout.
OpenFails(c) == /\ place[c] = "opening" /\ file # Nobody
                /\ IF tries[c] = MaxRetries
                   THEN place' = [place EXCEPT ![c] = "signalling"] /\ UNCHANGED tries
                   ELSE tries' = [tries EXCEPT ![c] = @ + 1] /\ UNCHANGED place
                /\ UNCHANGED <<prev, tail, file>>

\* fn returns or throws.
FnEnds(c) == /\ GoTo(c, "holding", "unlinking")
             /\ UNCHANGED <<prev, tail, tries, file>>

\* releaseFile: whatever file has the path goes.
Unlink(c) == /\ GoTo(c, "unlinking", "signalling")
             /\ file' = Nobody
             /\ UNCHANGED <<prev, tail, tries>>

\* signalDone, and the end of the queue if nobody has come since.
Signal(c) == /\ GoTo(c, "signalling", "returned")
             /\ tail' = [tail EXCEPT ![Home[c]] = IF @ = c THEN Nobody ELSE @]
             /\ UNCHANGED <<prev, tries, file>>

\* The process dies and starts again: its file stays.
Die(p) == /\ place' = [c \in Callers |->
                         IF Home[c] = p /\ place[c] # "idle" /\ place[c] # "returned"
                         THEN "dead" ELSE place[c]]
          /\ tail' = [tail EXCEPT ![p] = Nobody]
          /\ UNCHANGED <<prev, tries, file>>

-----------------------------------------------------------------------------
Step(c) == \/ Proceed(c) \/ OpenFile(c) \/ OpenFails(c) \/ FnEnds(c)
           \/ Unlink(c) \/ Signal(c)

Next == \/ \E c \in Callers : Enter(c) \/ Step(c)
        \/ \E p \in Processes : Die(p)

Spec == Init /\ [][Next]_vars

\* Timers fire, unlink returns, and fn ends: git commands have timeouts.
LiveSpec == Spec /\ \A c \in Callers : WF_vars(Step(c))

-----------------------------------------------------------------------------
(* Properties *)

\* Two calls, of one process or of two, never own the repository together,
\* whatever processes die: setup of branches and worktrees is not interleaved.
OneOwner == \A c, d \in Callers : place[c] \in Owning /\ place[d] \in Owning => c = d

Unfinished(p) == {c \in Callers : Home[c] = p /\ place[c] \notin {"idle"} \cup Finished}

\* The calls of a process take turns, though each knows the one before it only,
\* and the entry of a queue may be taken out while others come.
OneTurn ==
  \A c, d \in Callers :
    place[c] \in Turn /\ place[d] \in Turn /\ Home[c] = Home[d] => c = d

\* A process has an entry in its queue as long as a call is not finished, so that
\* a newcomer waits; and no longer, or queues would pile up.
QueueExact == \A p \in Processes : tail[p] = Nobody <=> Unfinished(p) = {}

\* Every call returns, with the lock or with a timeout, unless its process
\* dies, even if a dead owner's file bars the way for good.
CallsReturn == <>[](\A c \in Callers : place[c] \in {"idle"} \cup Finished)
=============================================================================
