----------------------------- MODULE PairVerdict -----------------------------
(***************************************************************************)
(* What a pair comes to: the judge's answers, presented in both orders,    *)
(* are brought back to the sides they are about (validate_response and     *)
(* derive_outcome, comparator_calibration/calibration.py), compared, and   *)
(* together with the verifiers' results make the pair's winner             *)
(* (EvalRunner._run_pair, runner.py).                                      *)
(*                                                                         *)
(* Evidence, quotes and anchors of an answer are not modelled: an answer   *)
(* that is refused, for them or otherwise, is NoAnswer, like a judge that  *)
(* failed.                                                                 *)
(***************************************************************************)
CONSTANTS
  Requirements,   \* requirements of the case
  Criteria,       \* criteria by which two eligible candidates are compared
  Decisive,       \* those that may have a winner: calibrated, with a basis
  NotApplicable,  \* no criteria: not both candidates are eligible
  NoAnswer        \* a comparison that raised

Roles == {"control", "treatment"}
Sides == {"A", "B"}      \* A is the control, B the treatment
Orders == {"AB", "BA"}   \* how they were presented
Statuses == {"satisfied", "violated", "unknown"}
Winners == Sides \cup {"tie"}

Opposite(s) == CHOOSE t \in Sides : t # s

----------------------------------------------------------------------------
(* One answer.                                                             *)

Eligible(checks) == \A r \in Requirements : checks[r] = "satisfied"
Ineligible(checks) == \E r \in Requirements : checks[r] = "violated"

\* Criteria are given exactly if both candidates are eligible.
WellFormed(answer) ==
  answer.criteria # NotApplicable <=> \A s \in Sides : Eligible(answer.checks[s])

\* A criterion without calibration or basis must be left a tie.
Supported(answer) ==
  answer.criteria # NotApplicable =>
    \A c \in Criteria \ Decisive : answer.criteria[c] = "tie"

\* The answers that are accepted.
Answers ==
  {answer \in [checks : [Sides -> [Requirements -> Statuses]],
               criteria : [Criteria -> Winners] \cup {NotApplicable}] :
     WellFormed(answer) /\ Supported(answer)}

ASSUME VerdictAssumption ==
  NotApplicable \notin [Criteria -> Winners] /\ NoAnswer \notin Answers

SwapWinner(w) == IF w = "tie" THEN "tie" ELSE Opposite(w)

Swap(answer) ==
  [checks |-> [s \in Sides |-> answer.checks[Opposite(s)]],
   criteria |-> IF answer.criteria = NotApplicable THEN NotApplicable
                ELSE [c \in Criteria |-> SwapWinner(answer.criteria[c])]]

Normalized(answer, order) == IF order = "AB" THEN answer ELSE Swap(answer)

\* derive_outcome: eligibility first, then Pareto.
WinsSome(s, d) == \E c \in Criteria : d.criteria[c] = s

Outcome(d) ==
  CASE d.criteria # NotApplicable ->
         IF \A s \in Sides : WinsSome(s, d) THEN "tradeoff"
         ELSE IF WinsSome("A", d) THEN "A"
         ELSE IF WinsSome("B", d) THEN "B" ELSE "tie"
    [] d.criteria = NotApplicable ->
         IF Eligible(d.checks["A"]) /\ Ineligible(d.checks["B"]) THEN "A"
         ELSE IF Eligible(d.checks["B"]) /\ Ineligible(d.checks["A"]) THEN "B"
         ELSE "unqualified"

----------------------------------------------------------------------------
(* Both answers, and the pair.                                             *)

MapOutcome(o) ==
  CASE o = "A" -> "control" [] o = "B" -> "treatment" [] OTHER -> o

\* The full normalized decisions must be the same, not only their outcomes.
Agree(answers) ==
  Normalized(answers["AB"], "AB") = Normalized(answers["BA"], "BA")

Verdict(winner, basis) ==
  [winner |-> winner, basis |-> basis, bias |-> FALSE,
   completed |-> basis # "infrastructure_error"]

Inconclusive == Verdict("inconclusive", "infrastructure_error")

Judged(answers) ==
  IF \E o \in Orders : answers[o] = NoAnswer THEN Inconclusive
  ELSE IF ~Agree(answers) THEN [Inconclusive EXCEPT !.bias = TRUE]
  ELSE Verdict(MapOutcome(Outcome(Normalized(answers["AB"], "AB"))),
               "canonical_comparator")

Modes == {"judged", "verifier_only", "objective_only"}

\* What the verifiers of the roles in passed decide; their error comes first.
Objective(passed, mode) ==
  LET basis == IF mode = "objective_only" THEN "verifier-pass-v1"
                                          ELSE "objective_verifier"
  IN CASE passed = {"treatment"} -> Verdict("treatment", basis)
       [] passed = {"control"} -> Verdict("control", basis)
       [] passed \in {{}, Roles} /\ mode = "objective_only" -> Verdict("tie", basis)
       [] passed = {} /\ mode # "objective_only" -> Verdict("unqualified", basis)
       [] passed = Roles /\ mode = "verifier_only" -> Verdict("tie", "verifier_only")

IsJudged(passed, mode) == passed = Roles /\ mode = "judged"

\* Mutant of VerdictOf: an arm that failed counts as one that did not pass.
VerdictOfPassed(errors, passed, mode, answers) ==
  IF IsJudged(passed, mode) THEN Judged(answers) ELSE Objective(passed, mode)

\* Errors of the arms, or arms that are not comparable, decide nothing.
VerdictOf(errors, passed, mode, answers) ==
  IF errors THEN Inconclusive
  ELSE IF IsJudged(passed, mode) THEN Judged(answers)
  ELSE Objective(passed, mode)
=============================================================================
