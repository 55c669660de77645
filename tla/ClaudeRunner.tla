---------------------------- MODULE ClaudeRunner ----------------------------
(***************************************************************************)
(* Calls of the Claude CLI: the child process of a call, its output,       *)
(* timeout and retries (claude/claude-runner.ts, withRetry of              *)
(* utils/rate-limiter.ts), the task that wraps a call                      *)
(* (tasks/claude-task.ts), and the end of all calls when the daemon stops. *)
(* A process id is the place of the child in the sequence of all children. *)
(***************************************************************************)
EXTENDS Integers, Sequences, FiniteSetsExt

CONSTANTS
  Tasks,       \* the tasks, each with one call
  Killable,    \* those that somebody kills, or asks for their status
  Retries,     \* retry.maxRetries of each; 0 stands for no retry configuration too
  Stubborn     \* those whose child may ignore SIGTERM

VARIABLES
  child,      \* the children spawned so far
  active,     \* activeProcesses: process ids
  call,       \* what the call of a task awaits
  attempt,    \* ExponentialBackoff.attempt of the call
  status,     \* ClaudeTask._status
  processId,  \* ClaudeTask._processId; 0 is undefined
  killing,    \* kill() waits for the process it sent SIGTERM to
  stopping    \* killAllActiveProcesses: [pc, pids]

taskVars == <<status, processId, killing>>
claudeVars == <<child, active, call, attempt, taskVars, stopping>>

Pids == DOMAIN child
Final == {"SUCCESS", "FAILED", "KILLED"}

NewChild(t, stubborn) ==
  [owner |-> t, alive |-> TRUE, stubborn |-> stubborn,
   killed |-> FALSE,       \* child.killed: the runner has sent SIGTERM
   timer |-> "timeout",    \* the timer that is set: timeout, kill or none
   retryable |-> FALSE]    \* stderr named an error worth a retry

ClaudeInit ==
  /\ child = <<>> /\ active = {}
  /\ call = [t \in Tasks |-> "none"]
  /\ attempt = [t \in Tasks |-> 0]
  /\ status = [t \in Tasks |-> "PENDING"]
  /\ processId = [t \in Tasks |-> 0]
  /\ killing = [t \in Tasks |-> FALSE]
  /\ stopping = [pc |-> "no", pids |-> {}]

-----------------------------------------------------------------------------
(* The child of a call.                                                    *)

Ignores(t) == IF t \in Stubborn THEN BOOLEAN ELSE {FALSE}

\* Mutant: the child of a retry runs without a timeout.
SpawnUntimed(t) ==
  /\ \E s \in Ignores(t) : child' = Append(child, [NewChild(t, s) EXCEPT
                            !.timer = IF attempt[t] = 0 THEN "timeout" ELSE "none"])
  /\ active' = active \cup {Len(child) + 1}
  /\ call' = [call EXCEPT ![t] = "child"]

Spawn(t) ==
  /\ \E s \in Ignores(t) : child' = Append(child, NewChild(t, s))
  /\ active' = active \cup {Len(child) + 1}
  /\ call' = [call EXCEPT ![t] = "child"]

\* The call has returned (success or not) or thrown: run() records it.
Settle(t, s) ==
  /\ call' = [call EXCEPT ![t] = "done"]
  /\ status' = [status EXCEPT ![t] = s]
  /\ processId' = [processId EXCEPT ![t] = 0]

\* A task runs once.  A program that cannot be started is a failed call.
Run(t) ==
  /\ status[t] = "PENDING"
  /\ UNCHANGED <<attempt, killing, stopping>>
  /\ \/ Spawn(t) /\ status' = [status EXCEPT ![t] = "RUNNING"] /\ UNCHANGED <<processId>>
     \/ Settle(t, "FAILED") /\ UNCHANGED <<child, active>>

\* Text on stdout: the task takes the youngest child of all for its own.
Speaks(p) ==
  /\ child[p].alive /\ child[p].owner \in Killable
  /\ processId' = [processId EXCEPT ![child[p].owner] = Max(active)]
  /\ UNCHANGED <<child, active, call, attempt, status, killing, stopping>>

\* A rate limit, or a prompt too long, on stderr: remembered, no more.
Complains(p) ==
  /\ child[p].alive /\ ~child[p].retryable
  /\ child' = [child EXCEPT ![p].retryable = TRUE]
  /\ UNCHANGED <<active, call, attempt, taskVars, stopping>>

Dies(p) == child' = [child EXCEPT ![p].alive = FALSE]

Exits(p) ==
  /\ child[p].alive
  /\ Dies(p)
  /\ UNCHANGED <<active, call, attempt, taskVars, stopping>>

\* A signal of the runner; nothing happens when the child has gone.
RunnerTerm(p) ==
  IF child[p].alive THEN [child[p] EXCEPT !.killed = TRUE] ELSE child[p]

\* Mutant: a child that is told to end is forgotten at once.
TimeoutForgets(p) ==
  /\ p \in active /\ child[p].timer = "timeout"
  /\ child' = [child EXCEPT ![p] = [RunnerTerm(p) EXCEPT !.timer = "kill"]]
  /\ active' = active \ {p}
  /\ UNCHANGED <<call, attempt, taskVars, stopping>>

Timeout(p) ==
  /\ p \in active /\ child[p].timer = "timeout"
  /\ child' = [child EXCEPT ![p] = [RunnerTerm(p) EXCEPT !.timer = "kill"]]
  /\ UNCHANGED <<active, call, attempt, taskVars, stopping>>

\* Ten seconds later the child is killed unless a signal has been sent.
KillTimer(p) ==
  /\ p \in active /\ child[p].timer = "kill"
  /\ child' = [child EXCEPT ![p] = [@ EXCEPT !.timer = "none", !.alive = child[p].alive /\ child[p].killed]]
  /\ UNCHANGED <<active, call, attempt, taskVars, stopping>>

\* The close event.  The result event on stdout, if there was one, decides,
\* but for an error worth a retry; the message of that need not be one that
\* withRetry recognises (a bare 429, for one).  The closed child is forgotten.
Close(p) ==
  LET t == child[p].owner
  IN  /\ ~child[p].alive /\ p \in active
      /\ active' = active \ {p}
      /\ \/ /\ child[p].retryable /\ attempt[t] < Retries[t]
            /\ call' = [call EXCEPT ![t] = "backoff"]
            /\ attempt' = [attempt EXCEPT ![t] = @ + 1]
            /\ UNCHANGED <<status, processId>>
         \/ /\ \E ok \in BOOLEAN : Settle(t, IF ok /\ ~child[p].retryable THEN "SUCCESS" ELSE "FAILED")
            /\ UNCHANGED attempt
      /\ child' = [child EXCEPT ![p] = [NewChild(t, FALSE) EXCEPT !.alive = FALSE]]
      /\ UNCHANGED <<killing, stopping>>

BackoffOver(t) ==
  /\ call[t] = "backoff"
  /\ Spawn(t)
  /\ UNCHANGED <<attempt, taskVars, stopping>>

-----------------------------------------------------------------------------
(* The task, and the end of all children.                                  *)

Killed(t) ==
  /\ status' = [status EXCEPT ![t] = "KILLED"]
  /\ processId' = [processId EXCEPT ![t] = 0]

\* kill() of a running task sends SIGTERM, on which the process may exit; it
\* is done at once when it knows no process, or one that has gone.
Kill(t) ==
  /\ t \in Killable /\ status[t] = "RUNNING" /\ ~killing[t]
  /\ LET p == processId[t]
     IN  IF p # 0 /\ child[p].alive
         THEN killing' = [killing EXCEPT ![t] = TRUE] /\ UNCHANGED <<status, processId>>
         ELSE Killed(t) /\ UNCHANGED killing
  /\ UNCHANGED <<child, active, call, attempt, stopping>>

\* A second later, whatever the call has come to in between.
KillEnds(t) ==
  /\ killing[t]
  /\ killing' = [killing EXCEPT ![t] = FALSE]
  /\ IF processId[t] \in active THEN Dies(processId[t]) ELSE UNCHANGED child
  /\ Killed(t)
  /\ UNCHANGED <<active, call, attempt, stopping>>

\* Reading the status corrects it when the process is no longer active.
ReadStatus(t) ==
  /\ t \in Killable /\ status[t] = "RUNNING" /\ processId[t] # 0
  /\ processId[t] \notin active
  /\ status' = [status EXCEPT ![t] = "FAILED"]
  /\ UNCHANGED <<child, active, call, attempt, processId, killing, stopping>>

KillAllActiveProcesses ==
  /\ stopping.pc = "no" /\ active # {}
  /\ child' = [p \in Pids |-> IF p \in active THEN RunnerTerm(p) ELSE child[p]]
  /\ stopping' = [pc |-> "waiting", pids |-> active]
  /\ UNCHANGED <<active, call, attempt, taskVars>>

\* Three seconds later, those still active and not signalled are killed.
KillAllEnds ==
  /\ stopping.pc = "waiting"
  /\ child' = [p \in Pids |-> IF p \in stopping.pids \cap active /\ ~child[p].killed
                              THEN [child[p] EXCEPT !.alive = FALSE] ELSE child[p]]
  /\ stopping' = [pc |-> "done", pids |-> {}]
  /\ UNCHANGED <<active, call, attempt, taskVars>>

ClaudeNext ==
  \/ \E t \in Tasks : Run(t) \/ BackoffOver(t) \/ Kill(t) \/ KillEnds(t) \/ ReadStatus(t)
  \/ \E p \in Pids : Speaks(p) \/ Complains(p) \/ Exits(p) \/ Timeout(p) \/ KillTimer(p) \/ Close(p)
  \/ KillAllActiveProcesses \/ KillAllEnds

ChildrenOf(t) == {p \in Pids : child[p].owner = t}

\* Timers fire, events are delivered, and a child obeys the signal unless it
\* is stubborn; nothing makes one end by itself.
ClaudeFairness ==
  /\ \A t \in Tasks :
       /\ WF_claudeVars(BackoffOver(t))
       /\ WF_claudeVars(KillEnds(t))
       /\ WF_claudeVars(\E p \in ChildrenOf(t) : Timeout(p) \/ KillTimer(p))
       /\ WF_claudeVars(\E p \in ChildrenOf(t) : Close(p))
       /\ WF_claudeVars(\E p \in ChildrenOf(t) : child[p].killed /\ ~child[p].stubborn /\ Exits(p))
  /\ WF_claudeVars(KillAllEnds)

ClaudeSpec == ClaudeInit /\ [][ClaudeNext]_claudeVars /\ ClaudeFairness

-----------------------------------------------------------------------------
\* A call never works with two children at once, and every child that lives
\* is in activeProcesses, where the stuck monitor and the shutdown look:
\* a retry waits for the end of the child before it, whatever has been read
\* from it, and neither timers nor kills let go of one that still runs.
ChildrenTracked ==
  \A p \in Pids : child[p].alive =>
    /\ p \in active
    /\ call[child[p].owner] = "child"
    /\ \A q \in Pids : child[q].alive /\ child[q].owner = child[p].owner => q = p

\* The child has got the one signal that its timeout sends, and ignores it.
Defies(p) == child[p].alive /\ child[p].stubborn /\ child[p].killed /\ child[p].timer = "none"

\* No call is under way, but for those of a child that defies its timeout.
CallsOver ==
  \A t \in Tasks : call[t] \in {"none", "done"} \/ \E p \in active : child[p].owner = t /\ Defies(p)

\* Every call ends, through its retries, whoever kills it or stops the daemon
\* in between, or its child lives on although it was told to end: the timer
\* that would send SIGKILL finds child.killed set (claude-runner.ts:302).
CallsEnd == <>[]CallsOver

\* What docs/CHANGELOG.md:93 says, "Claude process SIGKILL fallback": a call
\* ends also when its child ignores SIGTERM.
SigkillFallback == <>[](\A t \in Tasks : call[t] \in {"none", "done"})
=============================================================================
