------------------------------ MODULE Pipeline ------------------------------
(***************************************************************************)
(* src/pipeline/: the runs of the pipeline for one issue, one after        *)
(* another, with what outlives a run: the checkpoint file, the worktree,   *)
(* the local and the remote branch, the pull request and the lock file.    *)
(* The process may die at every await, and every git, gh and Claude call   *)
(* is awaited.                                                             *)
(*                                                                         *)
(* A unit of work <<stage, n, run>> is what attempt or phase n of a stage  *)
(* writes; a branch is known by the work it holds beyond the base branch.  *)
(***************************************************************************)
EXTENDS Naturals

CONSTANTS MaxRuns,      (* bound: runs of the issue                        *)
          MaxPhases,    (* bound: phases in a plan                         *)
          MaxRetries,   (* safety.maxRetries                               *)
          Strategies,   (* values of safety.rollbackStrategy               *)
          Faults        (* "gh", "worktree", "remote": calls that may fail unseen *)

ASSUME PipelineAssumption ==
  /\ MaxRuns \in Nat /\ MaxPhases \in Nat \ {0} /\ MaxRetries \in Nat
  /\ Strategies \subseteq {"none", "all", "failed-only"}
  /\ Faults \subseteq {"gh", "worktree", "remote"}

Phases == 0..(MaxPhases - 1)
Runs == 1..MaxRuns
Stages == {"phases", "review", "simplify", "validation", "lint"}
Work == Stages \X (Phases \cup 0..MaxRetries) \X Runs

Refs == [there: BOOLEAN, work: SUBSET Work]
NoRef == [there |-> FALSE, work |-> {}]
At(work) == [there |-> TRUE, work |-> work]

Hashes == Phases \X SUBSET Work

Files == [phases: SUBSET Phases, tip: SUBSET Work, tree: BOOLEAN]
NoFile == [phases |-> {}, tip |-> {}, tree |-> FALSE]

InSetup == {"sync", "detach", "delete", "remote", "create", "worktree"}
InWorktree == {"prepare", "plan", "phases", "review", "simplify", "validation", "push", "pr",
               "published"}
Over == {"none", "success", "duplicate", "skipped", "failed", "dead"}

VARIABLES run,          (* number of the run                               *)
          pc,           (* where it is, or how it ended                    *)
          retry,        (* job.isRetry                                     *)
          from,         (* resumeFrom: the checkpoint it found             *)
          plan,         (* phases in its plan                              *)
          done,         (* phases with a success in phaseResults           *)
          tip,          (* the commit of the last of them                  *)
          group,        (* phases of the level under way                   *)
          tries,        (* retries of each                                 *)
          marks,        (* <<phase, commit>>: a retry about to reset to its checkpoint *)
          ended,        (* <<phase, commitHash>>: those that have succeeded *)
          lost,         (* phases whose work a retry of another one took   *)
          attempt,      (* fixes tried in this stage                       *)
          unvalidated,  (* preset.skipFinalValidation                      *)
          seen,         (* the tree that the last check of the final validation ran on *)
          checkpoint,   (* the file, NoFile standing for none              *)
          local, origin,    (* the work branch, here and on GitHub         *)
          worktree, dirty,  (* the worktree, and what is not committed in it *)
          pr,           (* the branch has an open pull request             *)
          lock          (* the repository's lock file, made for this issue *)

runVars == <<run, retry, from>>
levelVars == <<group, tries, marks, ended, lost>>
coreVars == <<plan, done, tip, levelVars>>
lateVars == <<attempt, unvalidated, seen>>
treeVars == <<worktree, dirty>>
vars == <<runVars, pc, coreVars, lateVars, checkpoint, local, origin, treeVars, pr, lock>>

PipelineTypeOK ==
  /\ run \in 0..MaxRuns
  /\ pc \in {"check", "validate", "lock"} \cup InSetup \cup InWorktree \cup Over
  /\ retry \in BOOLEAN
  /\ from \in Files /\ checkpoint \in Files
  /\ plan \in 1..MaxPhases /\ done \subseteq Phases /\ tip \subseteq Work
  /\ group \subseteq Phases /\ lost \subseteq Phases
  /\ tries \in [Phases -> 0..MaxRetries]
  /\ marks \subseteq Hashes /\ ended \subseteq Hashes
  /\ attempt \in 0..MaxRetries /\ unvalidated \in BOOLEAN /\ seen \subseteq Work
  /\ local \in Refs /\ origin \in Refs
  /\ worktree \in BOOLEAN /\ dirty \subseteq Work
  /\ pr \in BOOLEAN /\ lock \in BOOLEAN

Init == /\ run = 0 /\ pc = "none" /\ retry = FALSE
        /\ from = NoFile /\ checkpoint = NoFile
        /\ plan = 1 /\ done = {} /\ tip = {}
        /\ group = {} /\ tries = [p \in Phases |-> 0]
        /\ marks = {} /\ ended = {} /\ lost = {}
        /\ attempt = 0 /\ unvalidated = FALSE /\ seen = {}
        /\ local = NoRef /\ origin = NoRef
        /\ worktree = FALSE /\ dirty = {}
        /\ pr = FALSE /\ lock = FALSE

GoTo(here, there) == pc = here /\ pc' = there

\* checkpoint(): the file is written anew; fields that the call does not name
\* are those of the start of the run.
Save(phases, commit, tree) ==
  checkpoint' = [phases |-> phases, tip |-> commit, tree |-> tree]

-----------------------------------------------------------------------------
(* The run starts *)

\* The handler of a job, or `aqm resume': the checkpoint is loaded.
StartRun ==
  /\ pc \in Over /\ run < MaxRuns
  /\ run' = run + 1 /\ pc' = "check"
  /\ retry' \in BOOLEAN
  /\ from' = checkpoint
  /\ plan' = 1 /\ done' = {} /\ tip' = {}
  /\ group' = {} /\ tries' = [p \in Phases |-> 0]
  /\ marks' = {} /\ ended' = {} /\ lost' = {}
  /\ attempt' = 0 /\ unvalidated' = FALSE /\ seen' = {}
  /\ UNCHANGED <<checkpoint, local, origin, treeVars, pr, lock>>

\* Mutant: the check is made for no run.
CheckNothing == /\ GoTo("check", "validate")
                /\ UNCHANGED <<runVars, coreVars, lateVars, checkpoint, local, origin,
                               treeVars, pr, lock>>

\* checkDuplicatePR: an open PR ends a run that is no retry.  A call of gh
\* that fails is taken for none.
CheckDuplicatePR ==
  /\ pc = "check"
  /\ \/ ~retry /\ pr /\ pc' = "duplicate" /\ checkpoint' = NoFile
     \/ (retry \/ ~pr \/ "gh" \in Faults) /\ pc' = "validate" /\ UNCHANGED checkpoint
  /\ UNCHANGED <<runVars, coreVars, lateVars, local, origin, treeVars, pr, lock>>

\* fetchAndValidateIssue: the issue is fit, or out of scope.
FetchAndValidateIssue ==
  /\ pc = "validate"
  /\ Save({}, {}, from.tree)
  /\ pc' \in {"lock", "skipped"}
  /\ UNCHANGED <<runVars, coreVars, lateVars, local, origin, treeVars, pr, lock>>

-----------------------------------------------------------------------------
(* Failure and death *)

\* The paths of the worktree and the branch are known to the run.
Known == pc \in InWorktree \/ from.tree

\* cleanupOnFailure: the worktree goes, unless that fails, and the branch
\* with it; a branch that is checked out cannot be deleted.
CleanUp == \/ UNCHANGED <<local, treeVars>>
           \/ Known /\ local' = NoRef /\ worktree' = FALSE /\ dirty' = {}

\* An error that is thrown anywhere but in the core loop; handlePipelineFailure.
Fail == /\ pc \notin Over
        /\ pc' = "failed"
        /\ lock' = (lock /\ pc \notin InSetup)
        /\ CleanUp
        /\ UNCHANGED <<runVars, coreVars, lateVars, checkpoint, origin, pr>>

\* The final validation saves a checkpoint before it gives up.
ValidationFails == /\ pc = "validation" /\ ~unvalidated
                   /\ Save(done, tip, from.tree)
                   /\ pc' = "failed"
                   /\ CleanUp
                   /\ UNCHANGED <<runVars, coreVars, lateVars, origin, pr, lock>>

\* The process dies; the lock file stays.
Die == /\ pc \notin Over
       /\ pc' = "dead"
       /\ UNCHANGED <<runVars, coreVars, lateVars, checkpoint, local, origin, treeVars, pr, lock>>

\* Somebody closes or merges the pull request.
ClosePR == /\ pr /\ pr' = FALSE
           /\ UNCHANGED <<runVars, pc, coreVars, lateVars, checkpoint, local, origin,
                          treeVars, lock>>

-----------------------------------------------------------------------------
(* setupGitEnvironment, under the lock of the repository *)

AcquireLock == /\ GoTo("lock", "sync") /\ ~lock
               /\ lock' = TRUE
               /\ UNCHANGED <<runVars, coreVars, lateVars, checkpoint, local, origin,
                              treeVars, pr>>

SyncBaseBranch == /\ GoTo("sync", "detach")
                  /\ UNCHANGED <<runVars, coreVars, lateVars, checkpoint, local, origin,
                                 treeVars, pr, lock>>

\* createWorkBranch: the worktree of a branch that exists is removed.
DetachWorktree ==
  /\ GoTo("detach", "delete")
  /\ \/ worktree' = FALSE /\ dirty' = {}
     \/ worktree /\ "worktree" \in Faults /\ UNCHANGED treeVars
  /\ UNCHANGED <<runVars, coreVars, lateVars, checkpoint, local, origin, pr, lock>>

\* git branch -D, whose failure goes unnoticed.
DeleteBranch ==
  /\ GoTo("delete", "remote")
  /\ local' = IF worktree THEN local ELSE NoRef
  /\ UNCHANGED <<runVars, coreVars, lateVars, checkpoint, origin, treeVars, pr, lock>>

\* The branch on GitHub is deleted, which closes its pull request.  If it
\* cannot be listed it is taken to be absent.
DeleteRemoteBranch ==
  /\ GoTo("remote", "create")
  /\ \/ origin' = NoRef /\ pr' = FALSE
     \/ "remote" \in Faults /\ UNCHANGED <<origin, pr>>
  /\ UNCHANGED <<runVars, coreVars, lateVars, checkpoint, local, treeVars, lock>>

\* Mutant: a branch that is still there is used as it is.
ReuseBranch ==
  /\ GoTo("create", "worktree")
  /\ local' = IF local.there THEN local ELSE At({})
  /\ UNCHANGED <<runVars, coreVars, lateVars, checkpoint, origin, treeVars, pr, lock>>

\* git branch, which fails if the branch is still there.
CreateBranch ==
  /\ GoTo("create", "worktree") /\ ~local.there
  /\ local' = At({})
  /\ UNCHANGED <<runVars, coreVars, lateVars, checkpoint, origin, treeVars, pr, lock>>

\* createWorktree cleans the path up and adds the worktree; the lock is
\* released and the checkpoint tells of branch and worktree.
CreateWorktree ==
  /\ GoTo("worktree", "prepare")
  /\ worktree' = TRUE /\ dirty' = {}
  /\ lock' = FALSE
  /\ Save({}, {}, TRUE)
  /\ UNCHANGED <<runVars, coreVars, lateVars, local, origin, pr>>

\* prepareWorkEnvironment; the checkpoint that follows forgets the worktree.
PrepareWorkEnvironment ==
  /\ GoTo("prepare", "plan")
  /\ Save({}, {}, from.tree)
  /\ UNCHANGED <<runVars, coreVars, lateVars, local, origin, treeVars, pr, lock>>

-----------------------------------------------------------------------------
(* The core loop *)

\* A new plan; what the checkpoint recorded counts as done.
GeneratePlan ==
  /\ GoTo("plan", "phases")
  /\ plan' \in 1..MaxPhases
  /\ done' = from.phases /\ tip' = from.tip
  /\ unvalidated' \in BOOLEAN
  /\ UNCHANGED <<runVars, levelVars, attempt, seen, checkpoint, local, origin, treeVars,
                 pr, lock>>

Remaining == 0..(plan - 1) \ done

\* Phases of the level that have succeeded, and those that are at work.
Succeeded == {result[1] : result \in ended}
AtWork == {p \in group \ Succeeded : \A mark \in marks : mark[1] # p}

\* retryWithClaudeFix is at work, or may be.
Fixable == pc = "review" \/ (pc = "validation" /\ ~unvalidated)

\* Claude is at work on a phase, the simplification or a fix.
ClaudeEdits ==
  /\ \E n \in IF pc = "phases" THEN AtWork ELSE {attempt} :
       dirty' = dirty \cup {<<pc, n, run>>}
  /\ pc \in {"phases", "simplify"} \/ (Fixable /\ attempt < MaxRetries)
  /\ UNCHANGED <<runVars, pc, coreVars, lateVars, checkpoint, local, origin, worktree, pr, lock>>

\* A fix has been begun and not committed.
Fixing == <<pc, attempt, run>> \in dirty

\* autoCommitIfDirty takes in all that is dirty, with what is written last.
CommitWith(units) == /\ local' = At(local.work \cup dirty \cup units)
                     /\ dirty' = {}
                     /\ UNCHANGED worktree

\* The phases of a level, which depend on no other that is left, start
\* together and share the worktree.  Module CoreLoop has the details.
StartLevel ==
  /\ pc = "phases" /\ group = {}
  /\ group' \in (SUBSET Remaining) \ {{}}
  /\ tries' = [p \in Phases |-> 0]
  /\ UNCHANGED <<runVars, pc, plan, done, tip, marks, ended, lost, lateVars, checkpoint, local,
                 origin, treeVars, pr, lock>>

Retries(p, commit) ==
  /\ pc = "phases" /\ p \in AtWork /\ tries[p] < MaxRetries
  /\ tries' = [tries EXCEPT ![p] = @ + 1]
  /\ marks' = marks \cup {<<p, commit>>}
  /\ UNCHANGED <<runVars, pc, plan, done, tip, group, ended, lost, lateVars, checkpoint, local,
                 origin, treeVars, pr, lock>>

\* Mutant: a retry goes back to where the run started.
CheckpointStart(p) == Retries(p, {})

\* A failed attempt is retried: createCheckpoint takes HEAD as it is then.
Checkpoint(p) == Retries(p, local.work)

\* ensureCleanState: reset --hard and clean take what others of the level have
\* committed since, and what they have not committed.
Reset ==
  /\ pc = "phases"
  /\ \E mark \in marks :
       /\ local' = At(mark[2]) /\ dirty' = {}
       /\ marks' = marks \ {mark}
       /\ lost' = lost \cup {p \in group \ {mark[1]} :
                               <<pc, p, run>> \in (local.work \cup dirty) \ mark[2]}
  /\ UNCHANGED <<runVars, pc, plan, done, tip, group, tries, ended, lateVars, checkpoint,
                 worktree, origin, pr, lock>>

\* executePhase or retryPhase commits what it finds.  What another's retry has
\* taken it may have written again, or not: it succeeds all the same.
PhaseSucceeds(p) ==
  /\ pc = "phases" /\ p \in AtWork
  /\ \/ CommitWith({<<pc, p, run>>})
     \/ p \in lost /\ CommitWith({})
  /\ ended' = ended \cup {<<p, local'.work>>}
  /\ UNCHANGED <<runVars, pc, plan, done, tip, group, tries, marks, lost, lateVars, checkpoint,
                 origin, pr, lock>>

\* The commit of the last of the phases that have succeeded before p.
LastBefore(p) ==
  {result \in ended : result[1] < p
                      /\ \A other \in ended : other[1] < p => other[1] <= result[1]}

\* Promise.all: the results are recorded.
EndLevel ==
  /\ pc = "phases" /\ group # {} /\ Succeeded = group
  /\ done' = done \cup group
  /\ \E result \in LastBefore(MaxPhases) : tip' = result[2]
  /\ group' = {} /\ ended' = {}
  /\ UNCHANGED <<runVars, pc, plan, tries, marks, lost, lateVars, checkpoint, local, origin,
                 treeVars, pr, lock>>

CoreLoopSucceeds ==
  /\ GoTo("phases", "review") /\ Remaining = {} /\ group = {}
  /\ Save(done, tip, from.tree)
  /\ UNCHANGED <<runVars, coreVars, lateVars, local, origin, treeVars, pr, lock>>

\* A phase fails when those of its level before it have succeeded: their
\* results are the last that are recorded.
Failing == {p \in group \ Succeeded : \A q \in group : q < p => q \in Succeeded}
LastSuccess == UNION {IF LastBefore(p) = {} THEN {tip}
                      ELSE {result[2] : result \in LastBefore(p)} : p \in Failing}

\* handleCoreLoopFailure: rolled back to the start or to the last success,
\* which may be a commit of an earlier run; its checkpoint() does nothing.
CoreLoopFails ==
  /\ pc = "plan" \/ (pc = "phases" /\ Failing # {})
  /\ pc' = "failed"
  /\ \/ UNCHANGED <<local, dirty>>
     \/ \E strategy \in Strategies \ {"none"} :
          /\ \E commit \in IF pc = "plan" THEN {from.tip} ELSE LastSuccess :
               local' = At(IF strategy = "all" THEN {} ELSE commit)
          /\ dirty' = {}
  /\ UNCHANGED <<runVars, coreVars, lateVars, checkpoint, origin, worktree, pr, lock>>

-----------------------------------------------------------------------------
(* Review, simplification, final validation *)

\* Mutant: the attempt is not counted.
FixUncounted ==
  /\ Fixable /\ attempt < MaxRetries
  /\ CommitWith({<<pc, attempt, run>>})
  /\ UNCHANGED <<runVars, pc, coreVars, lateVars, checkpoint, origin, pr, lock>>

\* retryWithClaudeFix: a fix by Claude is committed.  An attempt that throws
\* leaves what it wrote to the next one, and counts.
FixAttempt ==
  /\ Fixable
  /\ \E n \in 1..MaxRetries : n > attempt /\ attempt' = n
  /\ CommitWith({<<pc, attempt, run>>})
  /\ UNCHANGED <<runVars, pc, coreVars, unvalidated, seen, checkpoint, origin, pr, lock>>

\* The review passes or is skipped; without one there is no simplification.
ReviewPasses ==
  /\ pc = "review" /\ ~Fixing /\ pc' \in {"simplify", "validation"}
  /\ attempt' = 0
  /\ Save(done, tip, from.tree)
  /\ UNCHANGED <<runVars, coreVars, unvalidated, seen, local, origin, treeVars, pr, lock>>

\* runSimplify: committed, or thrown away when tests fail, or left as it is
\* when the call of Claude fails.  The checkpoint has no results.
Simplify ==
  /\ GoTo("simplify", "validation")
  /\ \/ CommitWith({})
     \/ dirty' = {} /\ UNCHANGED <<local, worktree>>
     \/ UNCHANGED <<local, treeVars>>
  /\ Save({}, {}, from.tree)
  /\ UNCHANGED <<runVars, coreVars, lateVars, origin, pr, lock>>

\* Mutant: a fix is not validated again.
ValidationTrustsFix ==
  /\ GoTo("validation", "push") /\ ~unvalidated
  /\ seen' = local.work \cup dirty
  /\ CommitWith({<<"validation", attempt, run>>})
  /\ Save(done, tip, from.tree)
  /\ UNCHANGED <<runVars, coreVars, attempt, unvalidated, origin, pr, lock>>

\* runFinalValidation passes, an autofix of lint committed on the way.
ValidationPasses ==
  /\ GoTo("validation", "push") /\ ~unvalidated /\ ~Fixing
  /\ \/ UNCHANGED <<local, treeVars>>
     \/ CommitWith({<<"lint", 0, run>>})
  /\ seen' = local'.work \cup dirty'
  /\ Save(done, tip, from.tree)
  /\ UNCHANGED <<runVars, coreVars, attempt, unvalidated, origin, pr, lock>>

SkipValidation ==
  /\ GoTo("validation", "push") /\ unvalidated
  /\ UNCHANGED <<runVars, coreVars, lateVars, checkpoint, local, origin, treeVars, pr, lock>>

-----------------------------------------------------------------------------
(* Publication *)

\* git push, without force.
PushBranch ==
  /\ GoTo("push", "pr") /\ origin.work \subseteq local.work
  /\ origin' = local
  /\ UNCHANGED <<runVars, coreVars, lateVars, checkpoint, local, treeVars, pr, lock>>

\* gh pr create, which refuses a branch without commits or with a PR.
CreateDraftPR ==
  /\ GoTo("pr", "published") /\ ~pr /\ origin.work # {}
  /\ pr' = TRUE
  /\ UNCHANGED <<runVars, coreVars, lateVars, checkpoint, local, origin, treeVars, lock>>

\* Events and hooks, which may yet fail; worktree and checkpoint stay.
Finish == /\ GoTo("published", "success")
          /\ UNCHANGED <<runVars, coreVars, lateVars, checkpoint, local, origin,
                         treeVars, pr, lock>>

-----------------------------------------------------------------------------
\* The stages of runPipeline.  Each is a sequence of awaits: pc says which is
\* next, and a stage that throws goes to Fail.
ExecuteInitialSetupPhases == CheckDuplicatePR \/ FetchAndValidateIssue

ExecuteEnvironmentSetup ==
  \/ AcquireLock \/ SyncBaseBranch \/ DetachWorktree \/ DeleteBranch \/ DeleteRemoteBranch
  \/ CreateBranch \/ CreateWorktree \/ PrepareWorkEnvironment

ExecuteCoreLoopPhase ==
  \/ GeneratePlan \/ CoreLoopSucceeds \/ CoreLoopFails
  \/ StartLevel \/ EndLevel \/ Reset
  \/ \E p \in Phases : PhaseSucceeds(p) \/ Checkpoint(p)

ExecutePostProcessingPhases ==
  \/ FixAttempt \/ ReviewPasses \/ Simplify
  \/ ValidationPasses \/ SkipValidation \/ ValidationFails
  \/ PushBranch \/ CreateDraftPR \/ Finish

\* runPipeline, one await at a time.
Step ==
  \/ ExecuteInitialSetupPhases \/ ExecuteEnvironmentSetup
  \/ ExecuteCoreLoopPhase \/ ExecutePostProcessingPhases \/ Fail

Next == Step \/ StartRun \/ ClaudeEdits \/ Die \/ ClosePR

Spec == Init /\ [][Next]_vars

\* A run goes on: commands and Claude calls have timeouts, and so has the lock.
LiveSpec == Spec /\ WF_vars(Step)

-----------------------------------------------------------------------------
(* Properties *)

\* When a plan is made the branch, the worktree and the index hold nothing of
\* earlier runs, wherever those ended or died, even when git could not remove
\* the old worktree.
FreshStart == pc = "plan" => local = At({}) /\ worktree /\ dirty = {}

\* What is published is the work of this very run, and all of it: no fix, no
\* rollback and no left-over branch mixes in another run's or loses a phase.
\* Only a retry of another phase of the same level can take a phase's work (the
\* two share a worktree), never one of a later level.
PublishedIsOwn ==
  pc \in {"pr", "published", "success"} =>
    /\ \A unit \in origin.work : unit[3] = run
    /\ \A p \in done \ from.phases : <<"phases", p, run>> \in origin.work \/ p \in lost

\* Unless the mode skips it, final validation has seen whatever is pushed,
\* fixes and automatic corrections included.
NothingUnseen ==
  [][pc = "push" /\ pc' = "pr" /\ ~unvalidated => origin'.work \subseteq seen]_vars

\* As long as gh answers, only a retry makes an open pull request go away.
OpenPRKept ==
  [][pr /\ ~pr' /\ "gh" \notin Faults => retry \/ pc' = pc]_vars

\* Every run comes to an end.
RunEnds == []<>(pc \in Over)

-----------------------------------------------------------------------------
(* Sentences of the documents *)

\* README.md:130: a failed pipeline is resumed from its last checkpoint: the
\* phases that count as done have their work in the branch.
ResumeKeepsWork ==
  [][pc = "plan" /\ pc' = "phases" =>
       \A p \in done' : \E r \in Runs : <<"phases", p, r>> \in local.work]_vars
=============================================================================
