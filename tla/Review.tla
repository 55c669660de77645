------------------------------- MODULE Review -------------------------------
(***************************************************************************)
(* The review of one run: analyst, review rounds, and the loop in which    *)
(* Claude fixes what they found (src/review, pipeline/phases/              *)
(* pipeline-review.ts).  The diff under review is a sequence of files,     *)
(* each with its size in tokens and whether git prints its path in         *)
(* quotes; a version counts the commits of the fix loop.                   *)
(***************************************************************************)
EXTENDS Integers, Sequences, SequencesExt

CONSTANTS
  Diffs,      \* what the branch may differ in, at first and after each fix
  Settings,   \* the configurations of a project that are explored
  Limit,      \* tokens a prompt may have, the safety margin taken off
  Template,   \* tokens of a prompt around the diff
  MinBudget   \* least budget of a batch (1000 tokens in the code)

File == [name : STRING, size : Nat, quoted : BOOLEAN]
RoundConfig == [failAction : {"block", "warn", "retry"}, maxRetries : Nat]
SettingType ==
  [enabled : BOOLEAN, unified : BOOLEAN, analyst : BOOLEAN, preset : Nat, fixes : Nat,
   rounds : Seq(RoundConfig)]

ASSUME ReviewAssumption ==
  /\ \A d \in Diffs : d \in Seq(File)
  /\ \A s \in Settings : s \in SettingType

VARIABLES
  setting,   \* the configuration
  pc,        \* what is awaited
  head,      \* HEAD: [version, files]
  seen,      \* reviewVariables.diff
  calls,     \* Claude calls of the current analysis or attempt still to make: the files each reads
  outcome,   \* of the calls made so far: [bad, read]
  attempts,  \* attempts at the current round
  results,   \* results of runReviews: one [verdict, version, read] per round
  analysis,  \* the last analyst result: [critical, version, read]
  fixes      \* attempts of retryWithClaudeFix

reviewVars == <<setting, pc, head, seen, calls, outcome, attempts, results, analysis, fixes>>

Nothing == [bad |-> FALSE, read |-> {}]
NoAnalysis == [critical |-> FALSE, version |-> -1, read |-> {}]

-----------------------------------------------------------------------------
(* Prompts too long are reviewed in batches of files.                      *)

Tokens(files) == FoldLeft(LAMBDA n, f : n + f.size, 0, files)

\* A prompt longer than the model's limit less the margin.
ExceedsTokenLimit(files) == Template + Tokens(files) > Limit

\* A file is recognised by its header, unless git quotes the path there.
SplitDiffByFiles(files) ==
  LET kept[n \in 0..Len(files)] ==
        IF n = 0 THEN <<>>
        ELSE IF files[n].quoted THEN kept[n - 1] ELSE Append(kept[n - 1], files[n])
  IN  kept[Len(files)]

\* What a batch may hold besides the template; a template that is too long
\* gets a budget of its own.
EffectiveBudget ==
  (IF Limit > Template THEN Limit ELSE LET t == (11 * Template + 9) \div 10
                                       IN  IF t > MinBudget THEN t ELSE MinBudget)
  - Template

\* Files join the last batch while they fit; a batch has at least one.
Joined(batches, f) ==
  IF batches # <<>> /\ Tokens(Last(batches)) + f.size <= EffectiveBudget
  THEN [batches EXCEPT ![Len(batches)] = Append(@, f)]
  ELSE Append(batches, <<f>>)

GroupFilesByTokenBudget(files) ==
  LET grouped[n \in 0..Len(files)] == IF n = 0 THEN <<>> ELSE Joined(grouped[n - 1], files[n])
  IN  grouped[Len(files)]

NamesOf(files) == {f.name : f \in ToSet(files)}

\* The batches that files are split into.
BatchesOf(files) ==
  LET batches == GroupFilesByTokenBudget(SplitDiffByFiles(files))
  IN  [i \in DOMAIN batches |-> NamesOf(batches[i])]

\* The calls of a round.  To be split, the diff is made a string; it is an
\* object with the field full, which prints as "[object Object]", so that no
\* file is found in it, and an empty split makes no call.
ReviewCalls(files) == IF ExceedsTokenLimit(files) THEN <<>> ELSE <<NamesOf(files)>>

\* The analyst splits the text of the diff, and reads the whole of it when it
\* cannot be split.
AnalystCalls(files) ==
  IF ExceedsTokenLimit(files) /\ BatchesOf(files) # <<>> THEN BatchesOf(files) ELSE <<NamesOf(files)>>

-----------------------------------------------------------------------------
ReviewInit ==
  /\ setting \in Settings
  /\ pc = "idle"
  /\ \E d \in Diffs : head = [version |-> 0, files |-> d]
  /\ seen = head
  /\ calls = <<>> /\ outcome = Nothing /\ attempts = 0
  /\ results = <<>> /\ analysis = NoAnalysis /\ fixes = 0

\* The preset of the execution mode limits the rounds.
Rounds == SubSeq(setting.rounds, 1,
                 IF setting.preset < Len(setting.rounds) THEN setting.preset
                                                         ELSE Len(setting.rounds))
Round == Rounds[Len(results) + 1]
MaxAttempts == IF Round.failAction = "retry" THEN Round.maxRetries + 1 ELSE 1

\* A block, or a retry that used up its attempts, halts the rounds.
Halts(result, round) == result.verdict = "FAIL" /\ round.failAction # "warn"
RoundsPassed(rs) ==
  IF setting.unified THEN \A i \in DOMAIN rs : rs[i].verdict = "PASS"
                     ELSE \A i \in DOMAIN rs : ~Halts(rs[i], Rounds[i])

\* Where runReviews goes with these results: another round or its return.
NextRound(rs) ==
  IF setting.enabled /\ ( \/ setting.unified /\ rs = <<>>
                          \/ /\ ~setting.unified
                             /\ Len(rs) < Len(Rounds)
                             /\ RoundsPassed(rs) )
  THEN "round" ELSE "rounds done"

StartRounds ==
  /\ pc' = NextRound(<<>>)
  /\ results' = <<>>
  /\ attempts' = 0

\* runReviewPhase, up to its first call of Claude.
RunReviewPhase ==
  /\ pc = "idle"
  /\ UNCHANGED <<setting, head, calls, outcome, analysis, fixes>>
  /\ \/ setting.preset = 0 /\ pc' = "skipped" /\ UNCHANGED <<seen, attempts, results>>
     \/ setting.preset > 0 /\ seen' = head
        /\ IF setting.analyst THEN pc' = "analyst" /\ UNCHANGED <<attempts, results>>
                              ELSE StartRounds

\* Splitting, or not, decides the calls of an analysis or of an attempt.
RunAnalyst ==
  /\ pc = "analyst"
  /\ calls' = AnalystCalls(seen.files)
  /\ outcome' = Nothing
  /\ pc' = "analysing"
  /\ UNCHANGED <<setting, head, seen, attempts, results, analysis, fixes>>

RunReviews ==
  /\ pc = "round"
  /\ calls' = IF setting.unified THEN <<NamesOf(seen.files)>> ELSE ReviewCalls(seen.files)
  /\ outcome' = Nothing
  /\ attempts' = attempts + 1
  /\ pc' = "reviewing"
  /\ UNCHANGED <<setting, head, seen, results, analysis, fixes>>

\* A call of Claude answers: with a verdict, in JSON or in words, or with a
\* failure, which counts as FAIL (of a round) or as a critical mismatch.
ClaudeAnswers ==
  /\ pc \in {"analysing", "reviewing"} /\ calls # <<>>
  /\ \E bad \in BOOLEAN : outcome' = [bad |-> outcome.bad \/ bad, read |-> outcome.read \cup Head(calls)]
  /\ calls' = Tail(calls)
  /\ UNCHANGED <<setting, pc, head, seen, attempts, results, analysis, fixes>>

\* The findings of all batches are merged; one that is critical is enough.
AnalystDone ==
  /\ pc = "analysing" /\ calls = <<>>
  /\ analysis' = [critical |-> outcome.bad, version |-> seen.version, read |-> outcome.read]
  /\ IF fixes = 0 THEN StartRounds ELSE pc' = "verdict" /\ UNCHANGED <<attempts, results>>
  /\ UNCHANGED <<setting, head, seen, calls, outcome, fixes>>

\* The verdicts of all batches are merged; one FAIL is enough.  A round that
\* may be retried is reviewed again as it is.
RoundDone ==
  /\ pc = "reviewing" /\ calls = <<>>
  /\ UNCHANGED <<setting, head, seen, calls, outcome, analysis, fixes>>
  /\ LET result == [verdict |-> IF outcome.bad THEN "FAIL" ELSE "PASS",
                    version |-> seen.version, read |-> outcome.read]
     IN  IF outcome.bad /\ ~setting.unified /\ attempts < MaxAttempts
         THEN pc' = "round" /\ UNCHANGED <<attempts, results>>
         ELSE /\ results' = Append(results, result)
              /\ pc' = NextRound(results')
              /\ attempts' = 0

\* The rounds end before the analyst runs again, after it the first time.
RoundsDone ==
  /\ pc = "rounds done"
  /\ pc' = IF fixes > 0 /\ setting.analyst THEN "analyst" ELSE "verdict"
  /\ UNCHANGED <<setting, head, seen, calls, outcome, attempts, results, analysis, fixes>>

Passed == ~analysis.critical /\ RoundsPassed(results)

\* Passed, given up, or another attempt.  maxRetries = 0 is taken for missing.
Verdict ==
  /\ pc = "verdict"
  /\ pc' = IF Passed THEN "passed"
           ELSE IF setting.fixes = 0 THEN "threw"
           ELSE IF fixes = setting.fixes THEN "failed" ELSE "fix"
  /\ UNCHANGED <<setting, head, seen, calls, outcome, attempts, results, analysis, fixes>>

\* Mutant: the rounds start again on the diff of the start.
FixAttemptOldDiff ==
  /\ pc = "fix"
  /\ fixes' = fixes + 1
  /\ \E d \in Diffs \cup {head.files} :
       head' = IF d = head.files THEN head ELSE [version |-> fixes + 1, files |-> d]
  /\ StartRounds
  /\ UNCHANGED <<setting, seen, calls, outcome, analysis>>

\* Claude edits, what it left is committed (or not, nobody looks), and the
\* rounds start again on a fresh diff.
FixAttempt ==
  /\ pc = "fix"
  /\ fixes' = fixes + 1
  /\ \E d \in Diffs \cup {head.files} :
       head' = IF d = head.files THEN head ELSE [version |-> fixes + 1, files |-> d]
  /\ seen' = head'
  /\ StartRounds
  /\ UNCHANGED <<setting, calls, outcome, analysis>>

\* An attempt that throws is counted and leaves the results as they were.
FixThrows ==
  /\ pc = "fix"
  /\ fixes' = fixes + 1
  /\ pc' = IF fixes' = setting.fixes THEN "failed" ELSE "fix"
  /\ \E d \in Diffs \cup {head.files} :
       head' = IF d = head.files THEN head ELSE [version |-> fixes + 1, files |-> d]
  /\ UNCHANGED <<setting, seen, calls, outcome, attempts, results, analysis>>

ReviewNext ==
  \/ RunReviewPhase \/ RunAnalyst \/ RunReviews \/ ClaudeAnswers \/ AnalystDone
  \/ RoundDone \/ RoundsDone \/ Verdict \/ FixAttempt \/ FixThrows

ReviewSpec == ReviewInit /\ [][ReviewNext]_reviewVars

-----------------------------------------------------------------------------
Plain(files) == {f.name : f \in {g \in ToSet(files) : ~g.quoted}}

\* A diff that does not fit is split by a round, and found empty.
RoundReads(s, files) ==
  IF ~s.unified /\ ExceedsTokenLimit(files) THEN {} ELSE NamesOf(files)

\* What a review that passes has read of what will be published: every round
\* that may block has passed, and the analyst has found nothing critical, on
\* the diff of HEAD, after the last commit of the fix loop.  The rounds have
\* read all of it, or nothing, the latter exactly when the diff does not fit
\* into a prompt (review-orchestrator.ts:83-97); the analyst has read all
\* files, however they were divided into batches (those git quotes excepted).
PassedOnHead ==
  pc = "passed" /\ setting.enabled =>
    /\ Len(results) = IF setting.unified THEN 1 ELSE Len(Rounds)
    /\ \A i \in DOMAIN results :
         /\ results[i].version = head.version
         /\ results[i].read = RoundReads(setting, head.files)
         /\ (setting.unified \/ Rounds[i].failAction # "warn") => results[i].verdict = "PASS"
    /\ setting.analyst => /\ analysis.version = head.version
                          /\ ~analysis.critical
                          /\ Plain(head.files) \subseteq analysis.read

\* What the comment of runSplitReview says (review-orchestrator.ts:74): a diff
\* beyond the token limit is split by files, the parts are reviewed and the
\* results merged; so what passes the rounds has been read by them.
SplitIsReviewed ==
  pc = "passed" /\ setting.enabled => \A i \in DOMAIN results : Plain(head.files) \subseteq results[i].read
=============================================================================
