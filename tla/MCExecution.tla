---------------------------- MODULE MCExecution ----------------------------
(***************************************************************************)
(* Small instances of what works on a job beside the core loop: the        *)
(* repository lock, the review, the Claude runner, the tasks and the pull  *)
(* requests.  They share no state, so one run explores them one by one: in *)
(* each behaviour one part works and the others stay where they begin.     *)
(***************************************************************************)
EXTENDS RepoLock, Review, ClaudeRunner, Tasks, PullRequests, TLC

CONSTANTS c1, c2, c3, c4, daemon, command

\* A daemon with three calls of the lock, and a command with one.
MCHome == c1 :> daemon @@ c2 :> daemon @@ c3 :> daemon @@ c4 :> command

-----------------------------------------------------------------------------
(* The review.                                                             *)

Changed(n, s, q) == [name |-> n, size |-> s, quoted |-> q]

\* A diff that fits, one in two or more batches with a file that fits in none
\* and a quoted one, and one whose only file cannot be recognised.
MCDiffs == { <<Changed("a", 1, FALSE)>>,
             <<Changed("a", 2, FALSE), Changed("b", 3, FALSE), Changed("c", 9, FALSE), Changed("q", 1, TRUE)>>,
             <<Changed("q", 8, TRUE)>> }

Block == [failAction |-> "block", maxRetries |-> 0]
Warn == [failAction |-> "warn", maxRetries |-> 0]
Retry == [failAction |-> "retry", maxRetries |-> 1]

\* Every kind of round, more rounds than the preset allows, the unified
\* review, no review, and projects without the analyst's template.
MCSettings ==
  [enabled : {TRUE}, unified : {FALSE}, analyst : BOOLEAN, preset : {0, 1, 2}, fixes : {0, 2},
   rounds : {<<Block>>, <<Warn, Retry>>, <<Retry, Block, Warn>>}]
  \cup [enabled : {TRUE}, unified : {TRUE}, analyst : BOOLEAN, preset : {1}, fixes : {1}, rounds : {<<Block>>}]
  \cup [enabled : {FALSE}, unified : {FALSE}, analyst : BOOLEAN, preset : {1}, fixes : {1}, rounds : {<<Block>>}]

-----------------------------------------------------------------------------
(* The others.                                                             *)

\* The first call of Claude has a retry.
MCRetries == [t \in Tasks |-> IF t = "s" THEN 1 ELSE 0]

\* The second issue depends on the first.
MCDeps == [i \in Issues |-> {j \in Issues : j < i}]

-----------------------------------------------------------------------------
VARIABLE part  \* the part that works

execVars == <<part, vars, reviewVars, claudeVars, workVars, pullVars>>

\* A part that does not work stays in an initial state, one of each.
ExecInit ==
  /\ part \in {"lock", "review", "claude", "tasks", "pulls"}
  /\ Init /\ ReviewInit /\ ClaudeInit /\ TaskInit /\ PullInit
  /\ part # "review" => /\ setting = CHOOSE s \in Settings : TRUE
                        /\ head.files = CHOOSE d \in Diffs : TRUE
  /\ part # "tasks" => kind = "handler"

ExecNext ==
  \/ part = "lock"   /\ Next       /\ UNCHANGED <<part, reviewVars, claudeVars, workVars, pullVars>>
  \/ part = "review" /\ ReviewNext /\ UNCHANGED <<part, vars, claudeVars, workVars, pullVars>>
  \/ part = "claude" /\ ClaudeNext /\ UNCHANGED <<part, vars, reviewVars, workVars, pullVars>>
  \/ part = "tasks"  /\ TaskNext   /\ UNCHANGED <<part, vars, reviewVars, claudeVars, pullVars>>
  \/ part = "pulls"  /\ PullNext   /\ UNCHANGED <<part, vars, reviewVars, claudeVars, workVars>>

\* The fairness of each part, while it works.
ExecFairness ==
  /\ \A c \in Callers : WF_vars(part = "lock" /\ Step(c))
  /\ \A t \in Tasks :
       /\ WF_claudeVars(part = "claude" /\ BackoffOver(t))
       /\ WF_claudeVars(part = "claude" /\ KillEnds(t))
       /\ WF_claudeVars(part = "claude" /\ \E p \in ChildrenOf(t) : Timeout(p) \/ KillTimer(p))
       /\ WF_claudeVars(part = "claude" /\ \E p \in ChildrenOf(t) : Close(p))
       /\ WF_claudeVars(part = "claude" /\ \E p \in ChildrenOf(t) :
                                            child[p].killed /\ ~child[p].stubborn /\ Exits(p))
  /\ WF_claudeVars(part = "claude" /\ KillAllEnds)
  /\ WF_pullVars(part = "pulls" /\ PollStep) /\ WF_pullVars(part = "pulls" /\ PauseEnds)

ExecSpec == ExecInit /\ [][ExecNext]_execVars /\ ExecFairness
=============================================================================
