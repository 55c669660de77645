--------------------------- MODULE PipelineProofs ---------------------------
(***************************************************************************)
(* Proofs about module Pipeline: what is made of a plan, what is           *)
(* published, and what becomes of an open pull request.                    *)
(***************************************************************************)
EXTENDS Pipeline, TLAPS

\* Once something has happened there is a run.
Started == pc # "none" => run >= 1

\* The values that files and branches take.
LEMMA NothingYet == NoFile \in Files /\ NoRef \in Refs
  BY DEF NoFile, NoRef, Files, Refs

LEMMA BranchAt == \A work \in SUBSET Work : At(work) \in Refs
  BY DEF At, Refs

LEMMA BranchParts == \A ref \in Refs : ref.there \in BOOLEAN /\ ref.work \in SUBSET Work
  BY DEF Refs

LEMMA FileMade ==
  \A phases \in SUBSET Phases, commit \in SUBSET Work, tree \in BOOLEAN :
    [phases |-> phases, tip |-> commit, tree |-> tree] \in Files
  BY DEF Files

LEMMA FileParts ==
  \A f \in Files : f.phases \in SUBSET Phases /\ f.tip \in SUBSET Work /\ f.tree \in BOOLEAN
  BY DEF Files

\* What is written in a run is a unit of work.
LEMMA UnitMade ==
  ASSUME PipelineTypeOK, run >= 1,
         NEW stage \in Stages, NEW n \in Phases \cup 0..MaxRetries
  PROVE  <<stage, n, run>> \in Work
  BY PipelineAssumption DEF PipelineTypeOK, Work, Runs

LEMMA InitType == Init => PipelineTypeOK /\ Started
<1> SUFFICES ASSUME Init PROVE PipelineTypeOK /\ Started
  OBVIOUS
<1>1. /\ retry \in BOOLEAN /\ unvalidated \in BOOLEAN
      /\ worktree \in BOOLEAN /\ pr \in BOOLEAN /\ lock \in BOOLEAN
  BY Zenon DEF Init
<1>2. /\ from \in Files /\ checkpoint \in Files
      /\ local \in Refs /\ origin \in Refs
  BY NothingYet DEF Init
<1>3. tries \in [Phases -> 0..MaxRetries]
  BY PipelineAssumption DEF Init
<1> QED
  BY <1>1, <1>2, <1>3, PipelineAssumption DEF Init, PipelineTypeOK, Started, Over

LEMMA TypeStep ==
  ASSUME PipelineTypeOK, Started, [Next]_vars
  PROVE  PipelineTypeOK' /\ Started'
<1> USE PipelineAssumption
<1>1. CASE StartRun
  <2>1. retry' \in BOOLEAN /\ unvalidated' \in BOOLEAN
    BY <1>1, Zenon DEF StartRun, treeVars, PipelineTypeOK
  <2>2. tries' \in [Phases -> 0..MaxRetries]
    BY <1>1 DEF StartRun
  <2> QED
    BY <1>1, <2>1, <2>2 DEF StartRun, treeVars, PipelineTypeOK, Started, Over, InSetup, InWorktree
<1>2. CASE CheckDuplicatePR
  <2>1. checkpoint' \in Files
    BY <1>2, NothingYet DEF CheckDuplicatePR, treeVars, PipelineTypeOK
  <2> QED
    BY <1>2, <2>1
    DEF CheckDuplicatePR, runVars, coreVars, levelVars, lateVars, treeVars, PipelineTypeOK, Started,
        Over, InSetup, InWorktree
<1>3. CASE FetchAndValidateIssue
  BY <1>3, FileMade, FileParts
  DEF FetchAndValidateIssue, Save, runVars, coreVars, levelVars, lateVars, treeVars, PipelineTypeOK,
      Started, Over, InSetup, InWorktree
<1>4. CASE AcquireLock
  BY <1>4
  DEF AcquireLock, GoTo, runVars, coreVars, levelVars, lateVars, treeVars, PipelineTypeOK, Started,
      Over, InSetup, InWorktree
<1>5. CASE SyncBaseBranch
  BY <1>5
  DEF SyncBaseBranch, GoTo, runVars, coreVars, levelVars, lateVars, treeVars, PipelineTypeOK, Started,
      Over, InSetup, InWorktree
<1>6. CASE DetachWorktree
  BY <1>6
  DEF DetachWorktree, GoTo, runVars, coreVars, levelVars, lateVars, treeVars, PipelineTypeOK, Started,
      Over, InSetup, InWorktree
<1>7. CASE DeleteBranch
  BY <1>7, NothingYet
  DEF DeleteBranch, GoTo, runVars, coreVars, levelVars, lateVars, treeVars, PipelineTypeOK, Started,
      Over, InSetup, InWorktree
<1>8. CASE DeleteRemoteBranch
  <2>1. pr' \in BOOLEAN
    BY <1>8, Zenon DEF DeleteRemoteBranch, treeVars, PipelineTypeOK
  <2>2. origin' \in Refs
    BY <1>8, NothingYet DEF DeleteRemoteBranch, treeVars, PipelineTypeOK
  <2> QED
    BY <1>8, <2>1, <2>2
    DEF DeleteRemoteBranch, GoTo, runVars, coreVars, levelVars, lateVars, treeVars, PipelineTypeOK,
        Started, Over, InSetup, InWorktree
<1>9. CASE CreateBranch
  BY <1>9, BranchAt
  DEF CreateBranch, GoTo, runVars, coreVars, levelVars, lateVars, treeVars, PipelineTypeOK, Started,
      Over, InSetup, InWorktree
<1>10. CASE CreateWorktree
  BY <1>10, FileMade
  DEF CreateWorktree, Save, GoTo, runVars, coreVars, levelVars, lateVars, PipelineTypeOK, Started,
      Over, InSetup, InWorktree
<1>11. CASE PrepareWorkEnvironment
  BY <1>11, FileMade, FileParts
  DEF PrepareWorkEnvironment, Save, GoTo, runVars, coreVars, levelVars, lateVars, treeVars,
      PipelineTypeOK, Started, Over, InSetup, InWorktree
<1>12. CASE GeneratePlan
  BY <1>12, FileParts
  DEF GeneratePlan, GoTo, levelVars, runVars, treeVars, PipelineTypeOK, Started, Over, InSetup,
      InWorktree
<1>13. CASE ClaudeEdits
  <2>1. dirty' \subseteq Work
    BY <1>13, UnitMade
    DEF ClaudeEdits, Fixable, AtWork, Stages, PipelineTypeOK, Started, Over, InSetup, InWorktree
  <2> QED
    BY <1>13, <2>1
    DEF ClaudeEdits, Fixable, runVars, coreVars, levelVars, lateVars, PipelineTypeOK, Started
<1>14. CASE \E p \in Phases : PhaseSucceeds(p)
  <2>1. PICK p \in Phases : PhaseSucceeds(p)
    BY <1>14
  <2>2. <<"phases", p, run>> \in Work
    BY <2>1, UnitMade DEF PhaseSucceeds, Started, Stages
  <2>3. local' \in Refs /\ local'.work \subseteq Work /\ dirty' = {}
    BY <2>1, <2>2, BranchAt, BranchParts DEF PhaseSucceeds, CommitWith, PipelineTypeOK
  <2>4. ended' \subseteq Hashes
    BY <2>1, <2>3 DEF PhaseSucceeds, Hashes, PipelineTypeOK
  <2> QED
    BY <2>1, <2>3, <2>4
    DEF PhaseSucceeds, CommitWith, runVars, lateVars, PipelineTypeOK, Started
<1>30. CASE StartLevel
  <2>1. tries' \in [Phases -> 0..MaxRetries]
    BY <1>30 DEF StartLevel
  <2>2. group' \subseteq Phases
    BY <1>30 DEF StartLevel, Remaining, Phases, PipelineTypeOK
  <2> QED
    BY <1>30, <2>1, <2>2
    DEF StartLevel, runVars, lateVars, treeVars, PipelineTypeOK, Started
<1>31. CASE \E p \in Phases : Checkpoint(p)
  <2>1. PICK p \in Phases : Checkpoint(p)
    BY <1>31
  <2>2. tries' \in [Phases -> 0..MaxRetries]
    BY <2>1 DEF Checkpoint, Retries, PipelineTypeOK
  <2>3. marks' \subseteq Hashes
    BY <2>1, BranchParts DEF Checkpoint, Retries, Hashes, PipelineTypeOK
  <2> QED
    BY <2>1, <2>2, <2>3
    DEF Checkpoint, Retries, runVars, lateVars, treeVars, PipelineTypeOK, Started
<1>32. CASE Reset
  <2>1. PICK mark \in marks :
          /\ local' = At(mark[2]) /\ dirty' = {}
          /\ marks' = marks \ {mark}
          /\ lost' = lost \cup {p \in group \ {mark[1]} :
                                  <<pc, p, run>> \in (local.work \cup dirty) \ mark[2]}
    BY <1>32 DEF Reset
  <2>2. local' \in Refs
    BY <2>1, BranchAt DEF Hashes, PipelineTypeOK
  <2>3. lost' \subseteq Phases /\ marks' \subseteq Hashes
    BY <2>1 DEF PipelineTypeOK
  <2> QED
    BY <1>32, <2>1, <2>2, <2>3
    DEF Reset, runVars, lateVars, PipelineTypeOK, Started
<1>33. CASE EndLevel
  <2>1. done' \subseteq Phases /\ tip' \subseteq Work
    BY <1>33 DEF EndLevel, LastBefore, Hashes, PipelineTypeOK
  <2> QED
    BY <1>33, <2>1
    DEF EndLevel, runVars, lateVars, treeVars, PipelineTypeOK, Started
<1>15. CASE CoreLoopSucceeds
  BY <1>15, FileMade, FileParts
  DEF CoreLoopSucceeds, Save, GoTo, runVars, coreVars, levelVars, lateVars, treeVars, PipelineTypeOK,
      Started, Over, InSetup, InWorktree
<1>16. CASE CoreLoopFails
  <2>1. local' \in Refs /\ dirty' \subseteq Work
    <3>1. LastSuccess \subseteq SUBSET Work
      BY DEF LastSuccess, LastBefore, Hashes, PipelineTypeOK
    <3>2. from.tip \in SUBSET Work /\ {} \in SUBSET Work
      BY FileParts DEF PipelineTypeOK
    <3> QED
      BY <1>16, <3>1, <3>2, BranchAt DEF CoreLoopFails, PipelineTypeOK
  <2> QED
    BY <1>16, <2>1
    DEF CoreLoopFails, Phases, runVars, coreVars, levelVars, lateVars, PipelineTypeOK, Started, Over,
        InSetup, InWorktree
<1>17. CASE FixAttempt
  BY <1>17, BranchAt, BranchParts, UnitMade
  DEF FixAttempt, CommitWith, Fixable, Stages, runVars, coreVars, levelVars, PipelineTypeOK, Started,
      Over, InSetup, InWorktree
<1>18. CASE ReviewPasses
  BY <1>18, FileMade, FileParts
  DEF ReviewPasses, Save, runVars, coreVars, levelVars, treeVars, PipelineTypeOK, Started, Over,
      InSetup, InWorktree
<1>19. CASE Simplify
  <2>1. local' \in Refs /\ dirty' \subseteq Work
    BY <1>19, BranchAt, BranchParts DEF Simplify, Save, CommitWith, treeVars, PipelineTypeOK
  <2>2. checkpoint' \in Files
    BY <1>19, FileMade, FileParts DEF Simplify, Save, CommitWith, treeVars, PipelineTypeOK
  <2> QED
    BY <1>19, <2>1, <2>2
    DEF Simplify, Save, CommitWith, GoTo, runVars, coreVars, levelVars, lateVars, treeVars,
        PipelineTypeOK, Started, Over, InSetup, InWorktree
<1>20. CASE ValidationPasses
  <2>1. <<"lint", 0, run>> \in Work
    BY <1>20, UnitMade DEF ValidationPasses, GoTo, Stages, Started
  <2>2. local' \in Refs /\ dirty' \subseteq Work
    BY <1>20, <2>1, BranchAt, BranchParts
    DEF ValidationPasses, CommitWith, treeVars, PipelineTypeOK
  <2>3. seen' \subseteq Work
    BY <1>20, <2>2, BranchParts DEF ValidationPasses
  <2>4. checkpoint' \in Files
    BY <1>20, FileMade, FileParts DEF ValidationPasses, Save, PipelineTypeOK
  <2> QED
    BY <1>20, <2>2, <2>3, <2>4
    DEF ValidationPasses, CommitWith, GoTo, runVars, coreVars, levelVars, lateVars, treeVars,
        PipelineTypeOK, Started, Over, InSetup, InWorktree
<1>21. CASE SkipValidation
  BY <1>21
  DEF SkipValidation, GoTo, runVars, coreVars, levelVars, lateVars, treeVars, PipelineTypeOK, Started,
      Over, InSetup, InWorktree
<1>22. CASE ValidationFails
  <2>1. local' \in Refs /\ dirty' \subseteq Work
    BY <1>22, NothingYet DEF ValidationFails, Save, CleanUp, Known, treeVars, PipelineTypeOK
  <2>2. checkpoint' \in Files
    BY <1>22, FileMade, FileParts
    DEF ValidationFails, Save, CleanUp, Known, treeVars, PipelineTypeOK
  <2>3. worktree' \in BOOLEAN
    BY <1>22, Zenon DEF ValidationFails, Save, CleanUp, Known, treeVars, PipelineTypeOK
  <2> QED
    BY <1>22, <2>1, <2>2, <2>3
    DEF ValidationFails, Save, CleanUp, Known, runVars, coreVars, levelVars, lateVars, treeVars,
        PipelineTypeOK, Started, Over, InSetup, InWorktree
<1>23. CASE PushBranch
  BY <1>23, BranchParts
  DEF PushBranch, GoTo, runVars, coreVars, levelVars, lateVars, treeVars, PipelineTypeOK, Started,
      Over, InSetup, InWorktree
<1>24. CASE CreateDraftPR
  BY <1>24, BranchParts
  DEF CreateDraftPR, GoTo, runVars, coreVars, levelVars, lateVars, treeVars, PipelineTypeOK, Started,
      Over, InSetup, InWorktree
<1>25. CASE Fail
  <2>1. local' \in Refs /\ dirty' \subseteq Work
    BY <1>25, NothingYet DEF Fail, CleanUp, Known, treeVars, PipelineTypeOK
  <2>2. worktree' \in BOOLEAN /\ lock' \in BOOLEAN
    BY <1>25, Zenon DEF Fail, CleanUp, Known, treeVars, PipelineTypeOK
  <2> QED
    BY <1>25, <2>1, <2>2
    DEF Fail, CleanUp, Known, runVars, coreVars, levelVars, lateVars, treeVars, PipelineTypeOK,
        Started, Over, InSetup, InWorktree
<1>26. CASE Die
  BY <1>26
  DEF Die, runVars, coreVars, levelVars, lateVars, treeVars, PipelineTypeOK, Started, Over, InSetup,
      InWorktree
<1>27. CASE ClosePR
  <2>1. pr' \in BOOLEAN
    BY <1>27, Zenon DEF ClosePR, treeVars, PipelineTypeOK
  <2> QED
    BY <1>27, <2>1
    DEF ClosePR, runVars, coreVars, levelVars, lateVars, treeVars, PipelineTypeOK, Started, Over,
        InSetup, InWorktree
<1>28. CASE UNCHANGED vars
  BY <1>28, NothingYet, BranchAt, BranchParts, FileMade, FileParts
  DEF vars, GoTo, runVars, coreVars, levelVars, lateVars, treeVars, PipelineTypeOK, Started, Over,
      InSetup, InWorktree
<1>29. CASE Finish
  BY <1>29
  DEF Finish, GoTo, runVars, coreVars, levelVars, lateVars, treeVars, PipelineTypeOK, Started, Over,
      InSetup, InWorktree
<1> QED
  BY <1>1, <1>2, <1>3, <1>4, <1>5, <1>6, <1>7, <1>8, <1>9, <1>10, <1>11, <1>12, <1>13,
     <1>14, <1>15, <1>16, <1>17, <1>18, <1>19, <1>20, <1>21, <1>22, <1>23, <1>24, <1>25,
     <1>26, <1>27, <1>28, <1>29, <1>30, <1>31, <1>32, <1>33
  DEF Next, Step, ExecuteInitialSetupPhases, ExecuteEnvironmentSetup,
      ExecuteCoreLoopPhase, ExecutePostProcessingPhases
-----------------------------------------------------------------------------
(* What is in the branch.  FreshStart and PublishedIsOwn are not inductive: *)
(* a branch that is published is the run's own because it was created empty *)
(* and every commit since then was of this run.                             *)

Building == {"phases", "review", "simplify", "validation", "push", "pr"}

\* A branch is empty after it was created, whatever was there before.
Emptied == pc = "worktree" => local = At({})

FreshTree == pc \in {"prepare", "plan"} => local = At({}) /\ worktree /\ dirty = {}

\* Of this run only, and with every phase of a set that no other's retry took.
Holds(work, phases) ==
  /\ \A unit \in work : unit[3] = run
  /\ \A p \in phases : <<"phases", p, run>> \in work \/ p \in lost

\* From the first phase on branch and worktree hold this run's work only, and
\* that of every phase that this run has done.
OwnWork == pc \in Building => /\ Holds(local.work, done \ from.phases)
                              /\ Holds(dirty, {})

\* Before the first level, and between levels, nothing is left of one.
Between == pc \in {"prepare", "plan"} \cup InSetup \cup {"check", "validate", "lock"} =>
             group = {} /\ marks = {} /\ ended = {}

\* A retry of a phase at work goes back to a commit that holds the levels
\* before; those of the level that have succeeded are in the branch.
LevelHolds ==
  pc = "phases" =>
    /\ \A mark \in marks : /\ mark[1] \in group \ Succeeded
                           /\ Holds(mark[2], done \ from.phases)
    /\ Succeeded \subseteq group
    /\ Holds(local.work, Succeeded)

SeenAll == pc = "push" /\ ~unvalidated => local.work \subseteq seen

\* A run that is no retry and has passed the check has no pull request to lose.
NoPRToLose == "gh" \notin Faults /\ ~retry /\ pc \notin Over \cup {"check", "published"} => ~pr

WorkInv == Emptied /\ FreshTree /\ OwnWork /\ Between /\ LevelHolds /\ SeenAll /\ PublishedIsOwn /\ NoPRToLose

LEMMA InitWork == Init => WorkInv
  BY DEF Init, WorkInv, Emptied, FreshTree, OwnWork, Between, LevelHolds, SeenAll,
         PublishedIsOwn, NoPRToLose, Building, Over, InSetup

LEMMA WorkStep ==
  ASSUME PipelineTypeOK, WorkInv, [Next]_vars
  PROVE  WorkInv'
<1> USE DEF WorkInv, Emptied, FreshTree, OwnWork, Holds, Between, LevelHolds, Succeeded,
            SeenAll, PublishedIsOwn, NoPRToLose, Building, InSetup
<1>1. CASE StartRun
  BY <1>1 DEF StartRun, treeVars, Over, InSetup
<1>2. CASE CheckDuplicatePR
  BY <1>2 DEF CheckDuplicatePR, runVars, coreVars, levelVars, lateVars, treeVars, Over
<1>3. CASE FetchAndValidateIssue
  BY <1>3 DEF FetchAndValidateIssue, runVars, coreVars, levelVars, lateVars, treeVars, Over
<1>4. CASE AcquireLock
  BY <1>4 DEF AcquireLock, GoTo, runVars, coreVars, levelVars, lateVars, treeVars, Over
<1>5. CASE SyncBaseBranch
  BY <1>5 DEF SyncBaseBranch, GoTo, runVars, coreVars, levelVars, lateVars, treeVars, Over
<1>6. CASE DetachWorktree
  BY <1>6 DEF DetachWorktree, GoTo, runVars, coreVars, levelVars, lateVars, treeVars, Over
<1>7. CASE DeleteBranch
  BY <1>7 DEF DeleteBranch, GoTo, runVars, coreVars, levelVars, lateVars, treeVars, Over
<1>8. CASE DeleteRemoteBranch
  BY <1>8 DEF DeleteRemoteBranch, GoTo, runVars, coreVars, levelVars, lateVars, treeVars, Over
<1>9. CASE CreateBranch
  BY <1>9 DEF CreateBranch, GoTo, At, runVars, coreVars, levelVars, lateVars, treeVars, Over
<1>10. CASE CreateWorktree
  BY <1>10 DEF CreateWorktree, GoTo, runVars, coreVars, levelVars, lateVars, Over
<1>11. CASE PrepareWorkEnvironment
  BY <1>11 DEF PrepareWorkEnvironment, GoTo, runVars, coreVars, levelVars, lateVars, treeVars, Over
<1>12. CASE GeneratePlan
  BY <1>12 DEF GeneratePlan, GoTo, At, levelVars, runVars, treeVars, Over
<1>13. CASE ClaudeEdits
  BY <1>13 DEF ClaudeEdits, Fixable, runVars, coreVars, levelVars, lateVars, Over
<1>14. CASE \E p \in Phases : PhaseSucceeds(p)
  BY <1>14 DEF PhaseSucceeds, AtWork, CommitWith, At, runVars, lateVars, Over
<1>30. CASE StartLevel
  BY <1>30 DEF StartLevel, runVars, lateVars, treeVars, Over
<1>31. CASE \E p \in Phases : Checkpoint(p)
  BY <1>31 DEF Checkpoint, Retries, AtWork, runVars, lateVars, treeVars, Over
<1>32. CASE Reset
  BY <1>32 DEF Reset, At, runVars, lateVars, Over
<1>33. CASE EndLevel
  BY <1>33 DEF EndLevel, runVars, lateVars, treeVars, Over
<1>15. CASE CoreLoopSucceeds
  BY <1>15 DEF CoreLoopSucceeds, GoTo, runVars, coreVars, levelVars, lateVars, treeVars, Over
<1>16. CASE CoreLoopFails
  BY <1>16 DEF CoreLoopFails, At, runVars, coreVars, levelVars, lateVars, Over
<1>17. CASE FixAttempt
  BY <1>17 DEF FixAttempt, CommitWith, Fixable, At, runVars, coreVars, levelVars, Over
<1>18. CASE ReviewPasses
  BY <1>18 DEF ReviewPasses, runVars, coreVars, levelVars, treeVars, Over
<1>19. CASE Simplify
  BY <1>19 DEF Simplify, CommitWith, GoTo, At, runVars, coreVars, levelVars, lateVars, treeVars, Over
<1>20. CASE ValidationPasses
  BY <1>20 DEF ValidationPasses, CommitWith, GoTo, At, runVars, coreVars, levelVars, treeVars, Over
<1>21. CASE SkipValidation
  BY <1>21 DEF SkipValidation, GoTo, runVars, coreVars, levelVars, lateVars, treeVars, Over
<1>22. CASE ValidationFails
  BY <1>22 DEF ValidationFails, runVars, coreVars, levelVars, lateVars, treeVars, Over, InWorktree
<1>23. CASE PushBranch
  BY <1>23 DEF PushBranch, GoTo, runVars, coreVars, levelVars, lateVars, treeVars, Over
<1>24. CASE CreateDraftPR
  BY <1>24 DEF CreateDraftPR, GoTo, runVars, coreVars, levelVars, lateVars, treeVars, Over
<1>25. CASE Fail
  BY <1>25 DEF Fail, runVars, coreVars, levelVars, lateVars, treeVars, Over, InSetup, InWorktree
<1>26. CASE Die
  BY <1>26 DEF Die, runVars, coreVars, levelVars, lateVars, treeVars, Over
<1>27. CASE ClosePR
  BY <1>27 DEF ClosePR, runVars, coreVars, levelVars, lateVars, treeVars, Over
<1>28. CASE UNCHANGED vars
  BY <1>28 DEF vars, GoTo, At, runVars, coreVars, levelVars, lateVars, treeVars, Over, InSetup, InWorktree
<1>29. CASE Finish
  BY <1>29 DEF Finish, GoTo, runVars, coreVars, levelVars, lateVars, treeVars, Over
<1> QED
  BY <1>1, <1>2, <1>3, <1>4, <1>5, <1>6, <1>7, <1>8, <1>9, <1>10, <1>11, <1>12, <1>13,
     <1>14, <1>15, <1>16, <1>17, <1>18, <1>19, <1>20, <1>21, <1>22, <1>23, <1>24, <1>25,
     <1>26, <1>27, <1>28, <1>29, <1>30, <1>31, <1>32, <1>33
  DEF Next, Step, ExecuteInitialSetupPhases, ExecuteEnvironmentSetup,
      ExecuteCoreLoopPhase, ExecutePostProcessingPhases

-----------------------------------------------------------------------------
(* The theorems *)

\* Every variable of the pipeline keeps its type, however many runs there are,
\* wherever they die and whatever fails unseen.
THEOREM PipelineTypeCorrect == Spec => []PipelineTypeOK
<1>1. PipelineTypeOK /\ Started /\ [Next]_vars => PipelineTypeOK' /\ Started'
  BY TypeStep
<1> QED
  BY InitType, <1>1, PTL DEF Spec

LEMMA WorkInvariant == Spec => [](PipelineTypeOK /\ WorkInv)
<1>1. PipelineTypeOK /\ WorkInv /\ [Next]_vars => WorkInv'
  BY WorkStep
<1> QED
  BY PipelineTypeCorrect, InitWork, <1>1, PTL DEF Spec

\* createWorkBranch and createWorktree leave nothing of an earlier run behind.
THEOREM StartsFresh == Spec => []FreshStart
<1>1. WorkInv => FreshStart
  BY DEF WorkInv, FreshTree, FreshStart
<1> QED
  BY WorkInvariant, <1>1, PTL

\* What pushBranch publishes is this run's work, and all of its phases'.
THEOREM PublishesItsOwn == Spec => []PublishedIsOwn
<1>1. WorkInv => PublishedIsOwn
  BY DEF WorkInv
<1> QED
  BY WorkInvariant, <1>1, PTL

\* Final validation has seen everything that pushBranch publishes.
THEOREM PublishesWhatWasSeen == Spec => NothingUnseen
<1>1. WorkInv /\ [Next]_vars
        => [pc = "push" /\ pc' = "pr" /\ ~unvalidated => origin'.work \subseteq seen]_vars
  <2> SUFFICES ASSUME WorkInv, Next, pc = "push", pc' = "pr", ~unvalidated
               PROVE  origin'.work \subseteq seen
    OBVIOUS
  <2>1. PushBranch
    BY DEF Next, Step, ExecuteInitialSetupPhases, ExecuteEnvironmentSetup,
      ExecuteCoreLoopPhase, ExecutePostProcessingPhases, StartRun, CheckDuplicatePR, FetchAndValidateIssue,
           AcquireLock, SyncBaseBranch, DetachWorktree, DeleteBranch, DeleteRemoteBranch,
           CreateBranch, CreateWorktree, PrepareWorkEnvironment, GeneratePlan, ClaudeEdits,
           PhaseSucceeds, StartLevel, Checkpoint, Retries, Reset, EndLevel, CoreLoopSucceeds, CoreLoopFails, FixAttempt, ReviewPasses, Simplify,
           ValidationPasses, SkipValidation, ValidationFails, CreateDraftPR, Finish, Fail, Die,
           ClosePR, GoTo, Fixable
  <2> QED
    BY <2>1 DEF PushBranch, WorkInv, SeenAll
<1> QED
  BY WorkInvariant, <1>1, PTL DEF Spec, NothingUnseen

\* While gh answers, deleteRemoteBranch closes a pull request for a retry only.
THEOREM KeepsOpenPR == Spec => OpenPRKept
<1>1. PipelineTypeOK /\ WorkInv /\ [Next]_vars
        => [pr /\ ~pr' /\ "gh" \notin Faults => retry \/ pc' = pc]_vars
  <2> SUFFICES ASSUME PipelineTypeOK, WorkInv, Next, pr, ~pr', "gh" \notin Faults
               PROVE  retry \/ pc' = pc
    OBVIOUS
  <2>1. DeleteRemoteBranch \/ ClosePR
    BY DEF Next, Step, ExecuteInitialSetupPhases, ExecuteEnvironmentSetup,
      ExecuteCoreLoopPhase, ExecutePostProcessingPhases, StartRun, CheckDuplicatePR, FetchAndValidateIssue,
           AcquireLock, SyncBaseBranch, DetachWorktree, DeleteBranch,
           CreateBranch, CreateWorktree, PrepareWorkEnvironment, GeneratePlan, ClaudeEdits,
           PhaseSucceeds, StartLevel, Checkpoint, Retries, Reset, EndLevel, CoreLoopSucceeds, CoreLoopFails, FixAttempt, ReviewPasses, Simplify,
           ValidationPasses, SkipValidation, ValidationFails, PushBranch, CreateDraftPR,
           Finish, Fail, Die
  <2>2. CASE DeleteRemoteBranch
    BY <2>2 DEF DeleteRemoteBranch, GoTo, WorkInv, NoPRToLose, Over
  <2>3. CASE ClosePR
    BY <2>3 DEF ClosePR
  <2> QED
    BY <2>1, <2>2, <2>3
<1> QED
  BY WorkInvariant, <1>1, PTL DEF Spec, OpenPRKept
=============================================================================
