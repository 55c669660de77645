--------------------------- MODULE PhaseScheduler ---------------------------
(***************************************************************************)
(* src/pipeline/execution/phase-scheduler.ts, with the normalisation and   *)
(* validation of plan-generator.ts that precede it.                        *)
(*                                                                         *)
(* Claude numbers the phases of a plan as it likes; normalizePhaseIndices  *)
(* replaces the numbers by positions.  A plan is a record of sequences     *)
(* over positions, `size' of which are used.                               *)
(***************************************************************************)
EXTENDS Naturals, FiniteSetsExt

CONSTANTS MaxPhases,    (* bound: phases in a plan                         *)
          Files         (* target files                                    *)

ASSUME PhasesAssumption == MaxPhases \in Nat

Phases == 0..(MaxPhases - 1)
Numbers == 0..MaxPhases

RawPlans == [size: 1..MaxPhases,
             index: [Phases -> Numbers],
             dependsOn: [Phases -> SUBSET Numbers],
             targetFiles: [Phases -> SUBSET Files]]

PhasesOf(raw) == 0..(raw.size - 1)

\* Mutant: the numbers are taken for positions, as if Claude counted from 0.
PositionAsNumbered(raw, d) == d

\* normalizePhaseIndices: a number stands for the last phase that has it; one
\* that no phase has is left as it is, and may then name another position.
Position(raw, d) ==
  LET named == {p \in PhasesOf(raw) : raw.index[p] = d}
  IN  IF named = {} THEN d ELSE Max(named)

DependsOn(raw, p) == {Position(raw, d) : d \in raw.dependsOn[p]}

\* Set S of phases has no cycle, before[p] being what p comes after.
Ordered(S, before) == \A T \in SUBSET S : T # {} => \E p \in T : before[p] \cap T = {}

\* validatePhaseDependencies and detectCircularDependencies.
ValidPlan(raw) ==
  LET deps == [p \in PhasesOf(raw) |-> DependsOn(raw, p)] IN
    /\ \A p \in PhasesOf(raw) : p \notin deps[p] /\ deps[p] \subseteq PhasesOf(raw)
    /\ Ordered(PhasesOf(raw), deps)

\* Mutant: only neighbouring phases are compared.
ConflictingNeighbour(raw, p) ==
  {q \in PhasesOf(raw) : q + 1 = p /\ raw.targetFiles[p] \cap raw.targetFiles[q] # {}}

\* detectFileConflicts: each file's phases form a chain, in order of position.
Conflicting(raw, p) ==
  {q \in PhasesOf(raw) :
     /\ q < p
     /\ \E f \in raw.targetFiles[p] \cap raw.targetFiles[q] :
          \A r \in PhasesOf(raw) : q < r /\ r < p => f \notin raw.targetFiles[r]}

\* What a phase waits for.  An edge counted twice is released twice.
Awaited(raw, parallel, p) ==
  DependsOn(raw, p) \cup (IF parallel THEN Conflicting(raw, p) ELSE {})

\* Kahn's algorithm comes to its end with every phase in a group.
Schedulable(raw, parallel) ==
  Ordered(PhasesOf(raw), [p \in PhasesOf(raw) |-> Awaited(raw, parallel, p)])

\* The group that follows those that make up `passed'.
NextGroup(raw, parallel, passed) ==
  {p \in PhasesOf(raw) \ passed : Awaited(raw, parallel, p) \subseteq passed}
=============================================================================
