------------------------------ MODULE CoreLoop ------------------------------
(***************************************************************************)
(* src/pipeline/core/core-loop.ts: a plan is generated and its phases are  *)
(* run group by group, with claude-phase-executor.ts, phase-retry.ts and   *)
(* rollback-manager.ts.  The phases of a group run at the same time in one *)
(* git worktree, and every git command and every Claude process is         *)
(* awaited, so their steps interleave.                                     *)
(*                                                                         *)
(* A unit of work <<p, n>> is what attempt n at phase p writes.  A commit  *)
(* is known by the work it contains, its history's included.               *)
(***************************************************************************)
EXTENDS PhaseScheduler

CONSTANTS Plans,            (* bound: plans Claude comes up with           *)
          MaxRetries,       (* safety.maxRetries                           *)
          PlanRetries,      (* DEFAULT_PLAN_MAX_RETRIES                    *)
          PhaseLimit,       (* safety.maxPhases                            *)
          Resumes,          (* sets of phases a resumed job may bring along *)
          Faults            (* "commit", "reset": git commands that may fail *)

ASSUME CoreLoopAssumption == /\ Plans \subseteq RawPlans
                             /\ MaxRetries \in Nat
                             /\ PlanRetries \in Nat \ {0}
                             /\ PhaseLimit \in Nat
                             /\ Resumes \subseteq SUBSET Phases
                             /\ Faults \subseteq {"commit", "reset"}

Attempts == 0..MaxRetries
Work == Phases \X Attempts

Working == {"claude", "stage", "commit", "verify", "checkpoint", "reset"}
Ended == {"succeeded", "failed"}

VARIABLES plan,         (* the plan in use                                 *)
          planAttempts, (* failed calls of Claude for a plan               *)
          parallel,     (* features.parallelPhases                         *)
          stage,        (* "plan", "levels", or how the loop ended         *)
          passed,       (* phases of the levels that are over              *)
          recorded,     (* phases with a success in phaseResults           *)
          at,           (* where each phase of the level is                *)
          attempt,      (* its attempt, 0 being executePhase               *)
          mark,         (* the checkpoint of its retry                     *)
          head, staged, dirty,  (* work in HEAD, in the index or not, not committed *)
          present       (* the worktree is there                           *)

loopVars == <<plan, planAttempts, parallel, stage, passed, recorded>>
phaseVars == <<at, attempt, mark>>
gitVars == <<head, staged, dirty, present>>
vars == <<loopVars, phaseVars, gitVars>>

CoreLoopTypeOK ==
  /\ plan \in RawPlans
  /\ planAttempts \in 0..PlanRetries
  /\ parallel \in BOOLEAN
  /\ stage \in {"plan", "levels", "success", "failure", "error"}
  /\ passed \subseteq Phases /\ recorded \subseteq Phases
  /\ at \in [Phases -> {"idle"} \cup Working \cup Ended]
  /\ attempt \in [Phases -> Attempts]
  /\ mark \in [Phases -> SUBSET Work]
  /\ head \subseteq Work /\ dirty \subseteq Work /\ staged \subseteq dirty
  /\ present \in BOOLEAN

Init == /\ plan \in Plans
        /\ planAttempts = 0
        /\ parallel \in BOOLEAN
        /\ stage = "plan"
        /\ passed = {}
        /\ recorded \in Resumes
        /\ at = [p \in Phases |-> "idle"]
        /\ attempt = [p \in Phases |-> 0]
        /\ mark = [p \in Phases |-> {}]
        /\ head = {} /\ staged = {} /\ dirty = {} /\ present = TRUE

-----------------------------------------------------------------------------
(* The plan *)

\* Claude fails, or its plan does not parse or is not valid.
PlanAttemptFails ==
  /\ stage = "plan"
  /\ planAttempts' = planAttempts + 1
  /\ stage' = IF planAttempts' = PlanRetries THEN "failure" ELSE "plan"
  /\ UNCHANGED <<plan, parallel, passed, recorded, phaseVars, gitVars>>

\* A valid plan: too long a one throws, one that cannot be scheduled fails.
PlanGenerated ==
  /\ stage = "plan"
  /\ ValidPlan(plan)
  /\ \/ plan.size > PhaseLimit /\ stage' = "error"
     \/ plan.size <= PhaseLimit /\ ~Schedulable(plan, parallel) /\ stage' = "failure"
     \/ plan.size <= PhaseLimit /\ Schedulable(plan, parallel) /\ stage' = "levels"
  /\ UNCHANGED <<plan, planAttempts, parallel, passed, recorded, phaseVars, gitVars>>

-----------------------------------------------------------------------------
(* Levels *)

Group == NextGroup(plan, parallel, passed)
Active == {p \in Phases : at[p] # "idle"}

\* The phases of the next group that have no success yet all start; a group
\* that has none left is passed over.
StartLevel ==
  /\ stage = "levels" /\ Active = {} /\ Group # {}
  /\ IF Group \subseteq recorded
     THEN passed' = passed \cup Group /\ UNCHANGED <<at, attempt>>
     ELSE /\ at' = [p \in Phases |-> IF p \in Group \ recorded THEN "claude" ELSE "idle"]
          /\ attempt' = [p \in Phases |-> 0]
          /\ UNCHANGED passed
  /\ UNCHANGED <<plan, planAttempts, parallel, stage, recorded, mark, gitVars>>

\* Mutant: a failure does not end the loop.
EndLevelAnyway ==
  /\ Active # {} /\ \A p \in Active : at[p] \in Ended
  /\ recorded' = recorded \cup {p \in Active : at[p] = "succeeded"}
  /\ passed' = passed \cup Group
  /\ at' = [p \in Phases |-> "idle"]
  /\ UNCHANGED <<plan, planAttempts, parallel, stage, attempt, mark, gitVars>>

\* Promise.all: every phase of the group has ended.  Results are recorded in
\* the order of positions up to the first failure, which ends the loop.
EndLevel ==
  LET failures == {p \in Active : at[p] = "failed"} IN
    /\ Active # {} /\ \A p \in Active : at[p] \in Ended
    /\ recorded' = recorded \cup {p \in Active : \A q \in failures : p < q}
    /\ IF failures = {} THEN passed' = passed \cup Group /\ UNCHANGED stage
                        ELSE stage' = "failure" /\ UNCHANGED passed
    /\ at' = [p \in Phases |-> "idle"]
    /\ UNCHANGED <<plan, planAttempts, parallel, attempt, mark, gitVars>>

AllLevelsDone == /\ stage = "levels" /\ Active = {} /\ Group = {}
                 /\ stage' = "success"
                 /\ UNCHANGED <<plan, planAttempts, parallel, passed, recorded, phaseVars, gitVars>>

-----------------------------------------------------------------------------
(* One phase *)

Unit(p) == <<p, attempt[p]>>

GoTo(p, here, there) == at[p] = here /\ at' = [at EXCEPT ![p] = there]

\* Claude edits files, and may commit its own changes.
ClaudeEdits(p) == /\ at[p] = "claude" /\ present
                  /\ dirty' = dirty \cup {Unit(p)}
                  /\ UNCHANGED <<loopVars, phaseVars, head, staged, present>>

ClaudeCommits(p) == /\ at[p] = "claude" /\ present /\ Unit(p) \in dirty
                    /\ head' = head \cup {Unit(p)}
                    /\ dirty' = dirty \ {Unit(p)}
                    /\ staged' = staged \ {Unit(p)}
                    /\ UNCHANGED <<loopVars, phaseVars, present>>

\* Claude reports success and the scope guard has no objection.
ClaudeSucceeds(p) == /\ GoTo(p, "claude", "stage") /\ present
                     /\ UNCHANGED <<loopVars, attempt, mark, gitVars>>

\* autoCommitIfDirty: status and add, unless the tree is clean; then commit.
Stage(p) == /\ at[p] = "stage"
            /\ IF present /\ dirty # {}
               THEN GoTo(p, "stage", "commit") /\ staged' = dirty
               ELSE GoTo(p, "stage", "verify") /\ UNCHANGED staged
            /\ UNCHANGED <<loopVars, attempt, mark, head, dirty, present>>

\* The exit code of the commit is not looked at.
Commit(p) == /\ GoTo(p, "commit", "verify")
             /\ \/ /\ head' = head \cup staged
                   /\ dirty' = dirty \ staged
                   /\ staged' = {}
                \/ "commit" \in Faults /\ UNCHANGED <<head, staged, dirty>>
             /\ UNCHANGED <<loopVars, attempt, mark, present>>

\* Tests pass, or fail in a way that counts as partial success.
VerifyPasses(p) == /\ GoTo(p, "verify", "succeeded")
                   /\ UNCHANGED <<loopVars, attempt, mark, gitVars>>

\* Where a failed attempt leads: to a retry while there is one left, unless
\* the first attempt failed for a reason that a retry does not mend.
AfterFailure(p) == {IF attempt[p] < MaxRetries THEN "checkpoint" ELSE "failed"}
                   \cup (IF attempt[p] = 0 THEN {"failed"} ELSE {})

AttemptFails(p) == /\ at[p] \in {"claude", "verify"}
                   /\ \E next \in AfterFailure(p) : at' = [at EXCEPT ![p] = next]
                   /\ UNCHANGED <<loopVars, attempt, mark, gitVars>>

\* Mutant: the checkpoint is that of the start, as CoreLoopContext.checkpoint
\* would have it.
CheckpointStart(p) == /\ GoTo(p, "checkpoint", "reset")
                      /\ attempt' = [attempt EXCEPT ![p] = @ + 1]
                      /\ mark' = [mark EXCEPT ![p] = {}]
                      /\ UNCHANGED <<loopVars, gitVars>>

\* Mutant: the attempt is not counted.
CheckpointUncounted(p) == /\ GoTo(p, "checkpoint", "reset")
                          /\ mark' = [mark EXCEPT ![p] = head]
                          /\ UNCHANGED <<loopVars, attempt, gitVars>>

\* createCheckpoint: HEAD as it is after the failed attempt.
Checkpoint(p) == /\ GoTo(p, "checkpoint", "reset")
                 /\ attempt' = [attempt EXCEPT ![p] = @ + 1]
                 /\ mark' = [mark EXCEPT ![p] = head]
                 /\ UNCHANGED <<loopVars, gitVars>>

\* rollbackToCheckpoint: git reset --hard and git clean.
Reset(p) == /\ GoTo(p, "reset", "claude") /\ present
            /\ head' = mark[p] /\ staged' = {} /\ dirty' = {}
            /\ UNCHANGED <<loopVars, attempt, mark, present>>

\* The reset fails: the worktree may be removed, but the attempt goes on in
\* the directory that it was in, where nothing works any more.
ResetFails(p) == /\ at[p] = "reset"
                 /\ "reset" \in Faults \/ ~present
                 /\ \E next \in AfterFailure(p) : at' = [at EXCEPT ![p] = next]
                 /\ \/ UNCHANGED <<staged, dirty, present>>
                    \/ present' = FALSE /\ staged' = {} /\ dirty' = {}
                 /\ UNCHANGED <<loopVars, attempt, mark, head>>

-----------------------------------------------------------------------------
PhaseStep(p) == \/ ClaudeSucceeds(p) \/ Stage(p) \/ Commit(p) \/ VerifyPasses(p)
                \/ AttemptFails(p) \/ Checkpoint(p) \/ Reset(p) \/ ResetFails(p)

LoopStep == PlanAttemptFails \/ PlanGenerated \/ StartLevel \/ EndLevel \/ AllLevelsDone

Next == \/ LoopStep
        \/ \E p \in Phases : PhaseStep(p) \/ ClaudeEdits(p) \/ ClaudeCommits(p)

Spec == Init /\ [][Next]_vars

\* What is due happens: Claude processes and git commands come to an end (a
\* timeout kills those that do not), and the loop goes on.
Fairness == WF_vars(LoopStep) /\ \A p \in Phases : WF_vars(PhaseStep(p))

LiveSpec == Spec /\ Fairness

-----------------------------------------------------------------------------
(* Properties *)

\* No phase starts before the phases it names have succeeded, in this run or
\* in the one that is resumed, however Claude numbers them and whatever else
\* runs at the same time (a number that two phases share names the last).
DependenciesFirst ==
  [][\A p \in Phases :
       at[p] = "idle" /\ at'[p] = "claude" =>
         \A d \in plan.dependsOn[p] : \A q \in PhasesOf(plan) :
           plan.index[q] = d /\ (\A r \in PhasesOf(plan) : r > q => plan.index[r] # d)
             => q \in recorded]_vars

\* With parallelPhases on, two phases that name a common target file are never
\* at work at the same time, chains of three and explicit dependencies against
\* the order of positions included.
ConflictsApart ==
  parallel => \A p, q \in Active :
                p # q => plan.targetFiles[p] \cap plan.targetFiles[q] = {}

\* Success means that every phase of the plan succeeded, though groups are
\* formed while earlier ones run, skipped and recorded partially.
SuccessIsComplete == stage = "success" => PhasesOf(plan) \subseteq recorded

\* Once a phase is recorded, its committed work stays: retries of later phases
\* roll the common worktree back, but never behind a finished level.
RecordedWorkStays ==
  [][\A w \in head : w[1] \in recorded => w \in head']_vars

\* The loop ends, with no phase left at work.
LoopEnds == <>(stage \in {"success", "failure", "error"} /\ Active = {})

=============================================================================
