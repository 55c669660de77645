------------------------------- MODULE Tasks -------------------------------
(***************************************************************************)
(* The tasks around other work than Claude: git operations with their      *)
(* rollback (tasks/git-task.ts), validation commands                       *)
(* (tasks/validation-task.ts) and job handlers (tasks/task-factory.ts).    *)
(* One task of any kind, run by one caller and killed by others.           *)
(***************************************************************************)
EXTENDS Integers

VARIABLES
  kind,    \* GitOperationType, "validation" or "handler"
  state,   \* TaskStatus
  work,    \* the operation, command or handler: "none", "going", "landed", "over"
  effect,  \* what it creates (a branch, a commit, a remote branch) exists
  saved,   \* GitTask._state names it
  stopped  \* kill() of a command waits before SIGKILL

workVars == <<kind, state, work, effect, saved, stopped>>

Git == {"branch", "commit", "push", "pr"}

TaskInit ==
  /\ kind \in Git \cup {"validation", "handler"}
  /\ state = "PENDING" /\ work = "none"
  /\ effect = FALSE /\ saved = FALSE
  /\ stopped = FALSE

\* Mutant: the state is saved for the rollback before the operation.
RunTaskSavedEarly ==
  /\ state = "PENDING"
  /\ state' = "RUNNING" /\ work' = "going" /\ saved' = (kind \in Git)
  /\ UNCHANGED <<kind, effect, stopped>>

RunTask ==
  /\ state = "PENDING"
  /\ state' = "RUNNING" /\ work' = "going"
  /\ UNCHANGED <<kind, effect, saved, stopped>>

\* The effect shows before the operation returns.
Lands ==
  /\ work = "going" /\ kind \in Git \ {"pr"}
  /\ work' = "landed" /\ effect' = TRUE
  /\ UNCHANGED <<kind, state, saved, stopped>>

\* _attemptRollback deletes what the state names; a deletion may fail, and a
\* branch that is checked out is kept.
AttemptRollback == effect' \in IF saved THEN {effect, FALSE} ELSE {effect}

\* The operation returns what it made, and run() records it, whatever kill()
\* has recorded before.  Pull requests are not implemented.
WorkReturns ==
  /\ work = IF kind \in Git THEN "landed" ELSE "going"
  /\ work' = "over" /\ state' = "SUCCESS"
  /\ saved' = (kind \in Git)
  /\ UNCHANGED <<kind, effect, stopped>>

\* It throws or exits with an error, before its effect or after it.
WorkFails ==
  /\ work \in {"going", "landed"}
  /\ work' = "over" /\ state' = "FAILED"
  /\ AttemptRollback
  /\ UNCHANGED <<kind, saved, stopped>>

\* kill(), also by the timeout of a git task.  A git task is killed at once
\* and rolled back while its operation goes on; a command is sent SIGTERM and
\* then SIGKILL; a handler is not told.
KillTask ==
  /\ state = "RUNNING" /\ ~stopped
  /\ IF kind = "validation" THEN stopped' = TRUE /\ UNCHANGED state
                             ELSE state' = "KILLED" /\ UNCHANGED stopped
  /\ AttemptRollback
  /\ UNCHANGED <<kind, work, saved>>

CommandKilled ==
  /\ stopped
  /\ stopped' = FALSE /\ state' = "KILLED"
  /\ UNCHANGED <<kind, work, effect, saved>>

\* rollback(), by the owner of a task that has not succeeded.
Rollback ==
  /\ kind \in Git /\ state \in {"FAILED", "KILLED"}
  /\ AttemptRollback
  /\ UNCHANGED <<kind, state, work, saved, stopped>>

TaskNext == RunTask \/ Lands \/ WorkReturns \/ WorkFails \/ KillTask \/ CommandKilled \/ Rollback
TaskSpec == TaskInit /\ [][TaskNext]_workVars

-----------------------------------------------------------------------------
\* What a git task reports as done is there: no rollback, of a kill or a
\* timeout that overtook the operation, takes back what then succeeds.
SuccessIsKept == state = "SUCCESS" /\ kind \in Git => effect
=============================================================================
