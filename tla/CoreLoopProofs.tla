--------------------------- MODULE CoreLoopProofs ---------------------------
(***************************************************************************)
(* Proofs about PhaseScheduler and CoreLoop, for all plans, retries and    *)
(* interleavings.                                                          *)
(***************************************************************************)
EXTENDS CoreLoop, WellFoundedInduction, TLAPS

-----------------------------------------------------------------------------
(* What the groups of PhaseScheduler guarantee for plans of any size.      *)

\* A set of phases has a last one.
LEMMA LastExists ==
  ASSUME NEW S \in SUBSET Phases, S # {}
  PROVE  \E m \in S : \A x \in S : x <= m
<1> DEFINE T == {k \in Nat : \E x \in S : k = MaxPhases - x}
<1>1. S \subseteq Nat /\ \A x \in S : MaxPhases - x \in Nat
  BY PhasesAssumption DEF Phases
<1>2. T \subseteq Nat /\ T # {}
  BY <1>1
<1>3. IsWellFoundedOn(OpToRel(<, Nat), Nat)
  BY NatLessThanWellFounded
<1>4. PICK k \in T : \A j \in T : ~ (<<j, k>> \in OpToRel(<, Nat))
  BY <1>2, <1>3, WFMin
<1>5. \A j \in T : ~ (j < k)
  BY <1>4, <1>2 DEF OpToRel
<1>6. PICK m \in S : k = MaxPhases - m
  BY <1>4
<1>7. ASSUME NEW x \in S PROVE x <= m
  <2>1. MaxPhases - x \in T
    BY <1>1
  <2>2. ~ (MaxPhases - x < MaxPhases - m)
    BY <2>1, <1>5, <1>6
  <2> HIDE DEF T
  <2> QED BY <2>2, PhasesAssumption DEF Phases
<1> QED BY <1>7

\* A number that exactly one phase has, or has as the last, names that phase.
LEMMA NamedPosition ==
  ASSUME NEW raw \in RawPlans, NEW d \in Numbers, NEW q \in PhasesOf(raw),
         raw.index[q] = d, \A r \in PhasesOf(raw) : r > q => raw.index[r] # d
  PROVE  Position(raw, d) = q
<1> DEFINE named == {p \in PhasesOf(raw) : raw.index[p] = d}
<1>1. q \in named /\ named \subseteq Nat
  BY DEF PhasesOf, RawPlans
<1>2. \A p \in named : q >= p
  BY <1>1
<1>3. \A x \in named : (\A y \in named : x >= y) => x = q
  BY <1>1, <1>2
<1>4. Max(named) = q
  BY <1>1, <1>2, <1>3 DEF Max
<1> QED BY <1>1, <1>4 DEF Position

LEMMA PlanPhases ==
  ASSUME NEW raw \in RawPlans
  PROVE  PhasesOf(raw) \subseteq Phases
BY PhasesAssumption DEF PhasesOf, Phases, RawPlans

\* While phases are left, a schedulable plan has a next group.
LEMMA GroupExists ==
  ASSUME NEW raw \in RawPlans, NEW apart \in BOOLEAN, NEW done,
         ValidPlan(raw), Schedulable(raw, apart),
         ~ (PhasesOf(raw) \subseteq done)
  PROVE  NextGroup(raw, apart, done) # {}
<1> DEFINE T == PhasesOf(raw) \ done
<1>1. PICK p \in T : Awaited(raw, apart, p) \cap T = {}
  BY DEF Schedulable, Ordered
<1>2. Awaited(raw, apart, p) \subseteq PhasesOf(raw)
  BY DEF Awaited, Conflicting, ValidPlan
<1> QED BY <1>1, <1>2 DEF NextGroup

\* What has been done is closed under the order of each file's phases.
ChainClosed(raw, done) ==
  \A q \in done, p \in PhasesOf(raw) :
    p < q /\ raw.targetFiles[p] \cap raw.targetFiles[q] # {} => p \in done

\* Of two phases with a common file, the later one waits until the earlier
\* one has been done, through whatever phases are between them.
LEMMA ConflictWaits ==
  ASSUME NEW raw \in RawPlans, NEW done \in SUBSET PhasesOf(raw), ChainClosed(raw, done),
         NEW p \in PhasesOf(raw), NEW q \in NextGroup(raw, TRUE, done),
         p < q, raw.targetFiles[p] \cap raw.targetFiles[q] # {}
  PROVE  p \in done
<1>1. PICK f : f \in raw.targetFiles[p] \cap raw.targetFiles[q]
  OBVIOUS
<1> DEFINE S == {r \in PhasesOf(raw) : r < q /\ f \in raw.targetFiles[r]}
<1>2. S \in SUBSET Phases /\ p \in S
  BY <1>1, PlanPhases
<1>3. PICK m \in S : \A x \in S : x <= m
  BY <1>2, LastExists
<1>4. q \in PhasesOf(raw) /\ PhasesOf(raw) \subseteq Nat
  BY DEF NextGroup, PhasesOf
<1>5. m \in Conflicting(raw, q)
  <2>1. \A r \in PhasesOf(raw) : m < r /\ r < q => f \notin raw.targetFiles[r]
    BY <1>3, <1>4
  <2> QED BY <1>1, <1>3, <2>1 DEF Conflicting
<1>6. m \in done
  BY <1>5 DEF NextGroup, Awaited
<1>7. CASE p = m
  BY <1>6, <1>7
<1>8. CASE p # m
  <2>1. p < m
    BY <1>2, <1>3, <1>4, <1>8
  <2> QED BY <1>1, <1>3, <1>6, <2>1 DEF ChainClosed
<1> QED BY <1>7, <1>8

LEMMA ChainKept ==
  ASSUME NEW raw \in RawPlans, NEW done \in SUBSET PhasesOf(raw), ChainClosed(raw, done)
  PROVE  ChainClosed(raw, done \cup NextGroup(raw, TRUE, done))
BY ConflictWaits DEF ChainClosed

-----------------------------------------------------------------------------
(* The core loop.                                                          *)

\* There is always room for the attempt that is about to be counted.
Counted == /\ stage = "plan" => planAttempts < PlanRetries
           /\ \A p \in Phases : at[p] = "checkpoint" => attempt[p] < MaxRetries

LEMMA AfterFailureType ==
  ASSUME CoreLoopTypeOK, NEW p \in Phases, NEW next \in AfterFailure(p)
  PROVE  next \in {"checkpoint", "failed"} /\ (next = "checkpoint" => attempt[p] < MaxRetries)
BY DEF AfterFailure, CoreLoopTypeOK, Attempts

\* Variables keep their types, attempts are bounded, and only changed files
\* are staged.
THEOREM CoreLoopTypeCorrect == Spec => []CoreLoopTypeOK
<1> DEFINE Inv == CoreLoopTypeOK /\ Counted
<1> USE CoreLoopAssumption DEF CoreLoopTypeOK, Counted, Working, Ended
<1>1. Init => Inv
  BY DEF Init, Attempts
<1>2. Inv /\ [Next]_vars => Inv'
  <2> SUFFICES ASSUME Inv, [Next]_vars PROVE Inv'
    OBVIOUS
  <2> USE DEF loopVars, phaseVars, gitVars
  <2>1. CASE PlanAttemptFails
    BY <2>1 DEF PlanAttemptFails
  <2>2. CASE PlanGenerated
    BY <2>2 DEF PlanGenerated
  <2>3. CASE StartLevel
    <3>1. Group \subseteq Phases
      BY PlanPhases DEF Group, NextGroup
    <3> QED BY <2>3, <3>1 DEF StartLevel, Attempts
  <2>4. CASE EndLevel
    <3>1. Group \subseteq Phases
      BY PlanPhases DEF Group, NextGroup
    <3> QED BY <2>4, <3>1 DEF EndLevel, Active
  <2>5. CASE AllLevelsDone
    BY <2>5 DEF AllLevelsDone
  <2>6. ASSUME NEW p \in Phases, ClaudeEdits(p) PROVE Inv'
    <3>1. Unit(p) \in Work
      BY DEF Unit, Work
    <3> QED BY <2>6, <3>1 DEF ClaudeEdits
  <2>7. ASSUME NEW p \in Phases, ClaudeCommits(p) PROVE Inv'
    <3>1. Unit(p) \in Work
      BY DEF Unit, Work
    <3> QED BY <2>7, <3>1 DEF ClaudeCommits
  <2>8. ASSUME NEW p \in Phases, PhaseStep(p) PROVE Inv'
    <3>1. CASE ClaudeSucceeds(p) \/ VerifyPasses(p)
      BY <3>1 DEF ClaudeSucceeds, VerifyPasses, GoTo
    <3>2. CASE Stage(p)
      BY <3>2 DEF Stage, GoTo
    <3>3. CASE Commit(p)
      BY <3>3 DEF Commit, GoTo
    <3>4. CASE AttemptFails(p)
      BY <3>4, AfterFailureType DEF AttemptFails
    <3>5. CASE Checkpoint(p)
      <4>1. attempt[p] + 1 \in Attempts
        BY <3>5 DEF Checkpoint, GoTo, Attempts
      <4> QED BY <3>5, <4>1 DEF Checkpoint, GoTo
    <3>6. CASE Reset(p)
      BY <3>6 DEF Reset, GoTo
    <3>7. CASE ResetFails(p)
      BY <3>7, AfterFailureType DEF ResetFails
    <3> QED BY <2>8, <3>1, <3>2, <3>3, <3>4, <3>5, <3>6, <3>7 DEF PhaseStep
  <2>9. CASE UNCHANGED vars
    BY <2>9 DEF vars
  <2> QED BY <2>1, <2>2, <2>3, <2>4, <2>5, <2>6, <2>7, <2>8, <2>9 DEF Next, LoopStep
<1> QED BY <1>1, <1>2, PTL DEF Spec

-----------------------------------------------------------------------------
(* Levels *)

\* The levels that are over are recorded, and the phases at work are those of
\* the next group that are not.
LevelInv ==
  /\ stage \in {"levels", "success"} => ValidPlan(plan) /\ Schedulable(plan, parallel)
  /\ passed \subseteq recorded \cap PhasesOf(plan)
  /\ parallel => ChainClosed(plan, passed)
  /\ Active # {} => stage = "levels" /\ Active = Group \ recorded
  /\ stage = "success" => PhasesOf(plan) \subseteq passed

LEMMA GroupPhases == ASSUME CoreLoopTypeOK PROVE Group \subseteq PhasesOf(plan) /\ Group \subseteq Phases
BY PlanPhases DEF Group, NextGroup, CoreLoopTypeOK

LEMMA ChainExtended ==
  ASSUME CoreLoopTypeOK, LevelInv, parallel
  PROVE  ChainClosed(plan, passed \cup Group)
BY ChainKept DEF CoreLoopTypeOK, LevelInv, Group

\* A step of a phase moves it from one point of work to the next.
LEMMA PhaseStepMoves ==
  ASSUME CoreLoopTypeOK, NEW p \in Phases, PhaseStep(p)
  PROVE  /\ at[p] \in Working
         /\ \E there \in Working \cup Ended : at' = [at EXCEPT ![p] = there]
         /\ UNCHANGED loopVars
<1> USE DEF GoTo, Working, Ended
<1>1. CASE ClaudeSucceeds(p) \/ Stage(p) \/ Commit(p) \/ VerifyPasses(p)
  BY <1>1 DEF ClaudeSucceeds, Stage, Commit, VerifyPasses
<1>2. CASE Checkpoint(p) \/ Reset(p)
  BY <1>2 DEF Checkpoint, Reset
<1>3. CASE AttemptFails(p) \/ ResetFails(p)
  BY <1>3, AfterFailureType DEF AttemptFails, ResetFails
<1> QED BY <1>1, <1>2, <1>3 DEF PhaseStep

LEMMA LevelInvKept ==
  CoreLoopTypeOK /\ CoreLoopTypeOK' /\ LevelInv /\ [Next]_vars => LevelInv'
<1> SUFFICES ASSUME CoreLoopTypeOK, CoreLoopTypeOK', LevelInv, [Next]_vars PROVE LevelInv'
  OBVIOUS
<1> USE DEF loopVars, phaseVars, Group
<1>1. CASE PlanAttemptFails
  BY <1>1 DEF PlanAttemptFails, LevelInv, Active
<1>2. CASE PlanGenerated
  <2>1. Active = {} /\ Active' = {}
    BY <1>2 DEF PlanGenerated, LevelInv, Active
  <2>2. stage' = "levels" => ValidPlan(plan) /\ Schedulable(plan, parallel)
    BY <1>2 DEF PlanGenerated
  <2>3. stage' # "success"
    BY <1>2 DEF PlanGenerated
  <2> QED BY <1>2, <2>1, <2>2, <2>3 DEF PlanGenerated, LevelInv
<1>3. CASE StartLevel
  <2>1. CASE Group \subseteq recorded
    <3>1. passed' = passed \cup Group /\ Active' = {} /\ stage' = "levels"
          /\ UNCHANGED <<plan, parallel, recorded>>
      BY <1>3, <2>1 DEF StartLevel, Active
    <3>2. parallel => ChainClosed(plan, passed')
      BY <3>1, ChainExtended
    <3>3. stage = "levels"
      BY <1>3 DEF StartLevel
    <3> QED BY <2>1, <3>1, <3>2, <3>3, GroupPhases DEF LevelInv
  <2>2. CASE ~ (Group \subseteq recorded)
    <3>1. at' = [p \in Phases |-> IF p \in Group \ recorded THEN "claude" ELSE "idle"]
          /\ UNCHANGED <<plan, parallel, stage, passed, recorded>> /\ stage = "levels"
      BY <1>3, <2>2 DEF StartLevel
    <3>2. Active' = Group \ recorded
      BY <3>1, GroupPhases DEF Active
    <3> QED BY <3>1, <3>2 DEF LevelInv
  <2> QED BY <2>1, <2>2
<1>4. CASE EndLevel
  <2>1. Active # {} /\ Active' = {} /\ UNCHANGED <<plan, parallel>>
    BY <1>4 DEF EndLevel, Active
  <2>2. stage = "levels" /\ Active = Group \ recorded
    BY <2>1 DEF LevelInv
  <2>3. CASE {p \in Active : at[p] = "failed"} = {}
    <3>1. recorded' = recorded \cup Active /\ passed' = passed \cup Group /\ stage' = stage
      BY <1>4, <2>3 DEF EndLevel
    <3>2. parallel => ChainClosed(plan, passed')
      BY <3>1, ChainExtended
    <3> QED BY <2>1, <2>2, <3>1, <3>2, GroupPhases DEF LevelInv
  <2>4. CASE {p \in Active : at[p] = "failed"} # {}
    <3>1. recorded \subseteq recorded' /\ passed' = passed /\ stage' = "failure"
      BY <1>4, <2>4 DEF EndLevel
    <3> QED BY <2>1, <3>1 DEF LevelInv
  <2> QED BY <2>3, <2>4
<1>5. CASE AllLevelsDone
  <2>1. Active' = {} /\ UNCHANGED <<plan, parallel, passed, recorded>>
    BY <1>5 DEF AllLevelsDone, Active
  <2>2. ValidPlan(plan) /\ Schedulable(plan, parallel) /\ Group = {}
    BY <1>5 DEF AllLevelsDone, LevelInv
  <2>3. PhasesOf(plan) \subseteq passed
    BY <2>2, GroupExists DEF CoreLoopTypeOK
  <2> QED BY <2>1, <2>2, <2>3 DEF LevelInv
<1>6. ASSUME NEW p \in Phases, PhaseStep(p) PROVE LevelInv'
  <2>1. Active' = Active /\ UNCHANGED loopVars
    BY <1>6, PhaseStepMoves DEF Active, Working, Ended, CoreLoopTypeOK
  <2> QED BY <2>1 DEF LevelInv
<1>7. ASSUME NEW p \in Phases, ClaudeEdits(p) \/ ClaudeCommits(p) PROVE LevelInv'
  BY <1>7 DEF ClaudeEdits, ClaudeCommits, LevelInv, Active
<1>8. CASE UNCHANGED vars
  BY <1>8 DEF vars, LevelInv, Active
<1> QED BY <1>1, <1>2, <1>3, <1>4, <1>5, <1>6, <1>7, <1>8 DEF Next, LoopStep

LEMMA LevelInvHolds == Spec => [](CoreLoopTypeOK /\ LevelInv)
<1>1. Init => LevelInv
  BY DEF Init, LevelInv, Active, ChainClosed
<1> QED BY <1>1, LevelInvKept, CoreLoopTypeCorrect, PTL DEF Spec

\* A phase starts after the phases it names, whatever the numbering.
THEOREM DependenciesComeFirst == Spec => DependenciesFirst
<1>1. CoreLoopTypeOK /\ LevelInv /\ [Next]_vars =>
        [\A p \in Phases :
           at[p] = "idle" /\ at'[p] = "claude" =>
             \A d \in plan.dependsOn[p] : \A q \in PhasesOf(plan) :
               plan.index[q] = d /\ (\A r \in PhasesOf(plan) : r > q => plan.index[r] # d)
                 => q \in recorded]_vars
  <2> SUFFICES ASSUME CoreLoopTypeOK, LevelInv, Next,
                      NEW p \in Phases, at[p] = "idle", at'[p] = "claude",
                      NEW d \in plan.dependsOn[p], NEW q \in PhasesOf(plan),
                      plan.index[q] = d, \A r \in PhasesOf(plan) : r > q => plan.index[r] # d
               PROVE  q \in recorded
    OBVIOUS
  <2>1. StartLevel
    <3>1. ~ PlanAttemptFails /\ ~ PlanGenerated /\ ~ EndLevel /\ ~ AllLevelsDone
      BY DEF PlanAttemptFails, PlanGenerated, EndLevel, AllLevelsDone, phaseVars
    <3>2. \A r \in Phases : ~ ClaudeEdits(r) /\ ~ ClaudeCommits(r)
      BY DEF ClaudeEdits, ClaudeCommits, phaseVars
    <3>3. \A r \in Phases : ~ PhaseStep(r)
      BY PhaseStepMoves DEF Working, CoreLoopTypeOK
    <3> QED BY <3>1, <3>2, <3>3 DEF Next, LoopStep
  <2>2. p \in Group
    BY <2>1 DEF StartLevel, CoreLoopTypeOK
  <2>3. Position(plan, d) = q
    <3>1. d \in Numbers
      BY DEF CoreLoopTypeOK, RawPlans
    <3> QED BY <3>1, NamedPosition DEF CoreLoopTypeOK
  <2>4. q \in passed
    BY <2>2, <2>3 DEF Group, NextGroup, Awaited, DependsOn
  <2> QED BY <2>4 DEF LevelInv
<1> QED BY <1>1, LevelInvHolds, PTL DEF Spec, DependenciesFirst

\* Phases that name a common file are not at work together.
THEOREM ConflictsKeptApart == Spec => []ConflictsApart
<1>1. CoreLoopTypeOK /\ LevelInv => ConflictsApart
  <2> SUFFICES ASSUME CoreLoopTypeOK, LevelInv, parallel, NEW p \in Active, NEW q \in Active,
                      p # q, plan.targetFiles[p] \cap plan.targetFiles[q] # {}
               PROVE  FALSE
    BY DEF ConflictsApart
  <2>1. p \in Group /\ q \in Group /\ p \notin passed /\ q \notin passed
    BY DEF LevelInv, Group, NextGroup
  <2>2. p \in PhasesOf(plan) /\ q \in PhasesOf(plan) /\ (p < q \/ q < p)
    BY <2>1, GroupPhases DEF PhasesOf
  <2>3. plan \in RawPlans /\ passed \in SUBSET PhasesOf(plan) /\ ChainClosed(plan, passed)
    BY DEF CoreLoopTypeOK, LevelInv
  <2>4. p \in NextGroup(plan, TRUE, passed) /\ q \in NextGroup(plan, TRUE, passed)
    BY <2>1 DEF Group, CoreLoopTypeOK
  <2>5. CASE p < q
    BY <2>1, <2>2, <2>3, <2>4, <2>5, ConflictWaits
  <2>6. CASE q < p
    BY <2>1, <2>2, <2>3, <2>4, <2>6, ConflictWaits
  <2> QED BY <2>2, <2>5, <2>6
<1> QED BY <1>1, LevelInvHolds, PTL

\* Success means that the whole plan is done.
THEOREM SuccessCoversPlan == Spec => []SuccessIsComplete
<1>1. LevelInv => SuccessIsComplete
  BY DEF LevelInv, SuccessIsComplete
<1> QED BY <1>1, LevelInvHolds, PTL
-----------------------------------------------------------------------------
(* Work that is recorded *)

\* Recorded work is committed, a phase that gets past its commit has none left,
\* and a checkpoint that is about to be used contains the same recorded work as
\* HEAD does: resets of siblings may come in any order.
WorkInv ==
  /\ ~present => dirty = {}
  /\ \A w \in dirty : w[1] \notin recorded
  /\ \A p \in Phases : at[p] = "commit" => \A w \in dirty : w[1] = p => w \in staged
  /\ \A p \in Phases : at[p] \in {"verify", "succeeded"} => \A w \in dirty : w[1] # p
  /\ \A p \in Phases : at[p] = "reset" =>
       \A w \in Work : w[1] \in recorded => (w \in mark[p] <=> w \in head)

LEMMA AtWorkUnrecorded ==
  ASSUME CoreLoopTypeOK, LevelInv, NEW p \in Phases, at[p] # "idle"
  PROVE  p \notin recorded
BY DEF LevelInv, Active

LEMMA UnitOf == ASSUME CoreLoopTypeOK, NEW p \in Phases PROVE Unit(p) \in Work /\ Unit(p)[1] = p
BY DEF Unit, Work, CoreLoopTypeOK

LEMMA WorkInvKept ==
  ASSUME "commit" \notin Faults, CoreLoopTypeOK, CoreLoopTypeOK', LevelInv, WorkInv, [Next]_vars
  PROVE  WorkInv'
<1> USE DEF loopVars, phaseVars, gitVars
<1>1. CASE PlanAttemptFails \/ PlanGenerated \/ AllLevelsDone
  BY <1>1 DEF PlanAttemptFails, PlanGenerated, AllLevelsDone, WorkInv
<1>2. CASE StartLevel
  <2>1. /\ UNCHANGED <<recorded, mark, gitVars>>
        /\ \A p \in Phases : at'[p] \in {at[p], "claude", "idle"}
    BY <1>2 DEF StartLevel, CoreLoopTypeOK
  <2> QED BY <2>1 DEF WorkInv
<1>3. CASE EndLevel
  <2>1. \A p \in Phases : at'[p] = "idle"
    BY <1>3 DEF EndLevel
  <2>2. \A p \in recorded' \ recorded : p \in Phases /\ at[p] = "succeeded"
    <3> SUFFICES ASSUME NEW p \in recorded' \ recorded PROVE p \in Phases /\ at[p] = "succeeded"
      OBVIOUS
    <3>1. p \in Active /\ (at[p] = "failed" => p < p) /\ at[p] \in Ended
      BY <1>3 DEF EndLevel
    <3>2. p \in Phases /\ ~ (p < p)
      BY <3>1 DEF Active, Phases
    <3> QED BY <3>1, <3>2 DEF Ended
  <2>3. UNCHANGED gitVars
    BY <1>3 DEF EndLevel
  <2>4. \A w \in dirty : w[1] \notin recorded'
    BY <2>2 DEF WorkInv
  <2> QED BY <2>1, <2>3, <2>4 DEF WorkInv
<1>4. ASSUME NEW p \in Phases, ClaudeEdits(p) \/ ClaudeCommits(p) PROVE WorkInv'
  <2>1. at[p] = "claude" /\ p \notin recorded /\ Unit(p)[1] = p
    BY <1>4, AtWorkUnrecorded, UnitOf DEF ClaudeEdits, ClaudeCommits
  <2>2. CASE ClaudeEdits(p)
    BY <2>1, <2>2 DEF ClaudeEdits, WorkInv
  <2>3. CASE ClaudeCommits(p)
    BY <2>1, <2>3 DEF ClaudeCommits, WorkInv
  <2> QED BY <1>4, <2>2, <2>3
<1>5. ASSUME NEW p \in Phases, PhaseStep(p) PROVE WorkInv'
  <2> USE DEF CoreLoopTypeOK
  <2>1. UNCHANGED recorded
    BY <1>5, PhaseStepMoves
  <2>2. CASE ClaudeSucceeds(p) \/ VerifyPasses(p)
    <3>1. /\ UNCHANGED <<mark, gitVars>>
          /\ \A q \in Phases : \/ at'[q] = at[q] \/ at'[q] = "stage"
                               \/ at[q] = "verify" /\ at'[q] = "succeeded"
      BY <2>2 DEF ClaudeSucceeds, VerifyPasses, GoTo
    <3> QED BY <2>1, <3>1 DEF WorkInv
  <2>3. CASE Stage(p)
    <3>1. CASE present /\ dirty # {}
      BY <2>1, <2>3, <3>1 DEF Stage, GoTo, WorkInv
    <3>2. CASE ~ (present /\ dirty # {})
      BY <2>1, <2>3, <3>2 DEF Stage, GoTo, WorkInv
    <3> QED BY <3>1, <3>2
  <2>4. CASE Commit(p)
    <3>1. /\ at[p] = "commit" /\ at' = [at EXCEPT ![p] = "verify"]
          /\ head' = head \cup staged /\ dirty' = dirty \ staged /\ staged' = {}
          /\ UNCHANGED <<mark, present>>
      BY <2>4 DEF Commit, GoTo
    <3>2. \A q \in Phases : q # p => at'[q] = at[q]
      BY <3>1
    <3>3. \A w \in staged : w[1] \notin recorded
      BY DEF WorkInv
    <3>4. \A w \in dirty' : w[1] # p
      BY <3>1 DEF WorkInv
    <3>5. \A q \in Phases : at'[q] = "reset" =>
            \A w \in Work : w[1] \in recorded => (w \in mark'[q] <=> w \in head')
      BY <3>1, <3>2, <3>3 DEF WorkInv
    <3>6. \A q \in Phases : at'[q] = "commit" => \A w \in dirty' : w[1] = q => w \in staged'
      BY <3>1, <3>2 DEF WorkInv
    <3>7. \A q \in Phases : at'[q] \in {"verify", "succeeded"} => \A w \in dirty' : w[1] # q
      BY <3>1, <3>2, <3>4 DEF WorkInv
    <3> QED BY <2>1, <3>1, <3>5, <3>6, <3>7 DEF WorkInv
  <2>5. CASE AttemptFails(p)
    <3>1. /\ UNCHANGED <<mark, gitVars>>
          /\ \A q \in Phases : at'[q] \in {at[q], "checkpoint", "failed"}
      BY <2>5, AfterFailureType DEF AttemptFails
    <3> QED BY <2>1, <3>1 DEF WorkInv
  <2>6. CASE Checkpoint(p)
    BY <2>1, <2>6 DEF Checkpoint, GoTo, WorkInv
  <2>7. CASE Reset(p)
    <3>1. /\ at[p] = "reset" /\ at' = [at EXCEPT ![p] = "claude"]
          /\ head' = mark[p] /\ dirty' = {} /\ UNCHANGED <<mark, present>>
      BY <2>7 DEF Reset, GoTo
    <3> QED BY <2>1, <3>1 DEF WorkInv
  <2>8. CASE ResetFails(p)
    <3>1. /\ UNCHANGED <<mark, head>>
          /\ \A q \in Phases : at'[q] \in {at[q], "checkpoint", "failed"}
          /\ UNCHANGED <<staged, dirty, present>> \/ dirty' = {}
      BY <2>8, AfterFailureType DEF ResetFails
    <3> QED BY <2>1, <3>1 DEF WorkInv
  <2> QED BY <1>5, <2>2, <2>3, <2>4, <2>5, <2>6, <2>7, <2>8 DEF PhaseStep
<1>6. CASE UNCHANGED vars
  BY <1>6 DEF vars, WorkInv
<1> QED BY <1>1, <1>2, <1>3, <1>4, <1>5, <1>6 DEF Next, LoopStep

\* While no commit fails, no reset takes the committed work of a phase that is
\* recorded, whatever resets of its level's phases have gone before.
THEOREM RecordedWorkKept ==
  ASSUME "commit" \notin Faults PROVE Spec => RecordedWorkStays
<1>1. Init => WorkInv
  BY DEF Init, WorkInv
<1>2. CoreLoopTypeOK /\ CoreLoopTypeOK' /\ LevelInv /\ WorkInv /\ [Next]_vars => WorkInv'
  BY WorkInvKept
<1>3. CoreLoopTypeOK /\ LevelInv /\ WorkInv /\ [Next]_vars =>
        [\A w \in head : w[1] \in recorded => w \in head']_vars
  <2> SUFFICES ASSUME CoreLoopTypeOK, LevelInv, WorkInv, Next,
                      NEW w \in head, w[1] \in recorded
               PROVE  w \in head'
    OBVIOUS
  <2> USE DEF loopVars, phaseVars, gitVars
  <2>1. CASE LoopStep
    BY <2>1 DEF LoopStep, PlanAttemptFails, PlanGenerated, StartLevel, EndLevel, AllLevelsDone
  <2>2. ASSUME NEW p \in Phases, ClaudeEdits(p) \/ ClaudeCommits(p) PROVE w \in head'
    BY <2>2 DEF ClaudeEdits, ClaudeCommits
  <2>3. ASSUME NEW p \in Phases, PhaseStep(p) PROVE w \in head'
    <3>1. CASE Reset(p)
      BY <3>1 DEF Reset, GoTo, WorkInv, CoreLoopTypeOK
    <3>2. CASE ~ Reset(p)
      BY <2>3, <3>2 DEF PhaseStep, ClaudeSucceeds, Stage, Commit, VerifyPasses, AttemptFails,
                        Checkpoint, ResetFails
    <3> QED BY <3>1, <3>2
  <2> QED BY <2>1, <2>2, <2>3 DEF Next
<1> QED BY <1>1, <1>2, <1>3, LevelInvHolds, PTL DEF Spec, RecordedWorkStays
=============================================================================
