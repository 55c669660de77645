------------------------ MODULE ProjectErrorTracker -------------------------
(***************************************************************************)
(* src/queue/project-error-tracker.ts: consecutive failures per project    *)
(* and the pause they lead to.  A project is in `paused' while its         *)
(* pausedUntil lies in the future; an expired pausedUntil, which           *)
(* isProjectPaused resets to null on its next call, counts as not paused,  *)
(* so the passing of that instant is an action of its own (PauseExpires).  *)
(* The counter is kept up to PauseThreshold: the code only asks whether it *)
(* has reached it.                                                         *)
(***************************************************************************)
EXTENDS Projects

CONSTANT PauseThreshold     (* consecutive failures that pause a project   *)

ASSUME TrackerAssumption == PauseThreshold \in Nat \ {0}

VARIABLES fails,            (* consecutiveFailures per repository          *)
          paused            (* repositories whose pausedUntil is ahead     *)

trackerVars == <<fails, paused>>

TrackerTypeOK == /\ fails \in [Repos -> 0..PauseThreshold]
                 /\ paused \subseteq Repos

TrackerInit == /\ fails = [r \in Repos |-> 0]
               /\ paused = {}

\* The counter goes up; reaching the threshold starts (or restarts) a pause.
TrackFailure(r) ==
  LET reached == fails[r] + 1 >= PauseThreshold IN
    /\ fails' = [fails EXCEPT ![r] = IF reached THEN PauseThreshold ELSE @ + 1]
    /\ paused' = IF reached THEN paused \cup {r} ELSE paused

\* A success resets the counter and leaves a pause standing.
TrackSuccess(r) == /\ fails' = [fails EXCEPT ![r] = 0]
                   /\ UNCHANGED paused

PauseProject(r) == paused' = paused \cup {r} /\ UNCHANGED fails

ResumeProject(r) == paused' = paused \ {r} /\ UNCHANGED fails

PauseExpires(r) == r \in paused /\ ResumeProject(r)

\* clear(): called once per process start.
ClearTracker == /\ fails' = [r \in Repos |-> 0]
                /\ paused' = {}
=============================================================================
