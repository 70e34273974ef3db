---------------------------- MODULE ReleaseVerdict ----------------------------
(***************************************************************************)
(* What the results of all pairs of a run come to (_aggregate, runner.py): *)
(* a winner per comparison and case, a sign test per comparison and skill, *)
(* the gates over the whole run, and whether a holdout run authorizes the  *)
(* release of the treatment.  The constants are the arguments of one call. *)
(***************************************************************************)
EXTENDS Naturals, FiniteSetsExt

CONSTANTS
  pairs,        \* the results of _run_pair, a sequence
  comparisons,  \* the comparisons that were run
  cases,        \* the ids of the cases that were selected, numbers in their order
  skill,        \* skill[x], fingerprint[x]: of case x; a fingerprint is the
  fingerprint,  \*   identity of the task's content
  selection,    \* split, verifier_only; whether the cases or the seed were
                \*   chosen; the comparisons it names
  release,      \* suite.holdout_comparison_ids
  objective,    \* suite.evaluation_mode is objective_only
  authorities,  \* the plan, the judge and the generator have release authority
  planned       \* the cases of the holdout plan, a sequence

\* One result of _run_pair, reduced to what is aggregated.  treatment and
\* critical: its treatment arm completed and passed, and met all critical
\* expectations; models and judges: the actual models of its providers, and of
\* its comparisons; missing: an arm has none.
FinalWinners == {"control", "treatment", "tie", "tradeoff", "unqualified", "inconclusive"}

_MIN_HOLDOUT_CASES_PER_SKILL == 8

Key(i) == <<pairs[i].comparison, pairs[i].case, pairs[i].repetition>>

----------------------------------------------------------------------------
(* The execution matrix.                                                   *)

Expected == comparisons \X cases \X (0..2)
Observed == {Key(i) : i \in DOMAIN pairs}

MatrixExact ==
  /\ \A i, j \in DOMAIN pairs : Key(i) = Key(j) => i = j
  /\ Observed = Expected

----------------------------------------------------------------------------
(* The cases of a comparison.                                              *)

Recorded == {<<k[1], k[2]>> : k \in Observed}
Repetitions(c, x) ==
  {i \in DOMAIN pairs : pairs[i].comparison = c /\ pairs[i].case = x}

\* Three repetitions, numbered 0, 1, 2, all completed.
Complete(c, x) ==
  /\ {pairs[i].repetition : i \in Repetitions(c, x)} = 0..2
  /\ \A i, j \in Repetitions(c, x) : pairs[i].repetition = pairs[j].repetition => i = j
  /\ \A i \in Repetitions(c, x) : pairs[i].completed

Stable(c, x) == Complete(c, x) /\ \A i \in Repetitions(c, x) : pairs[i].treatment
CriticalStable(c, x) == Stable(c, x) /\ \A i \in Repetitions(c, x) : pairs[i].critical
OrderStable(c, x) == Complete(c, x) /\ \A i \in Repetitions(c, x) : ~pairs[i].bias

\* The winner of a case has a majority of its repetitions.
Majority(c, x) ==
  {w \in FinalWinners :
     /\ Complete(c, x)
     /\ \E i, j \in Repetitions(c, x) : i # j /\ pairs[i].winner = w /\ pairs[j].winner = w}

Winner(c, x) ==
  IF \E w \in FinalWinners : Majority(c, x) = {w}
    THEN CHOOSE w \in FinalWinners : Majority(c, x) = {w}
    ELSE "inconclusive"

----------------------------------------------------------------------------
(* The gates.                                                              *)

Infrastructure == Recorded # {} /\ \A k \in Recorded : Complete(k[1], k[2])

TreatmentStability ==
  Recorded # {} /\ \A k \in Recorded : Stable(k[1], k[2]) /\ CriticalStable(k[1], k[2])

GeneratorModels ==
  /\ \A i \in DOMAIN pairs : ~pairs[i].missing
  /\ Cardinality(UNION {pairs[i].models : i \in DOMAIN pairs}) = 1

ComparatorModels ==
  \/ selection.verifier_only
  \/ \A i, j \in DOMAIN pairs : \A m \in pairs[i].judges, n \in pairs[j].judges : m = n

OrderIntegrity ==
  selection.verifier_only \/ \A k \in Recorded : OrderStable(k[1], k[2])

Skills == {skill[x] : x \in cases}

HoldoutProtocol ==
  \/ selection.split # "holdout"
  \/ /\ authorities.plan /\ authorities.judge /\ authorities.generator
     /\ ~selection.cases_chosen /\ ~selection.seed_chosen
     /\ selection.comparisons = release
     /\ Skills # {}
     /\ \A i, j \in DOMAIN planned :
          \/ planned[i].tree = planned[j].tree
          \/ planned[i].fingerprint = planned[j].fingerprint
          => i = j
     /\ \A s \in Skills :
          Cardinality({i \in DOMAIN planned : planned[i].skill = s})
            >= _MIN_HOLDOUT_CASES_PER_SKILL
     /\ MatrixExact

Gates ==
  /\ MatrixExact /\ Infrastructure /\ TreatmentStability
  /\ GeneratorModels /\ ComparatorModels /\ OrderIntegrity /\ HoldoutProtocol

----------------------------------------------------------------------------
(* The cells: a comparison and a skill.                                    *)

\* comb[n][k]: how many subsets of n elements have k.
comb[n \in Nat] ==
  IF n = 0 THEN [k \in {0} |-> 1]
  ELSE LET row == comb[n - 1]
       IN [k \in 0..n |-> IF k \in {0, n} THEN 1 ELSE row[k - 1] + row[k]]

\* _one_sided_sign_test(wins, losses) <= 0.05
Significant(wins, losses) ==
  LET n == wins + losses
      row == comb[n]
  IN n > 0 /\ 20 * MapThenSumSet(LAMBDA v : row[v], wins..n) <= 2^n

Records(c, s) == {x \in cases : <<c, x>> \in Recorded /\ skill[x] = s}

\* The first record of each fingerprint.
Selected(c, s) ==
  {x \in Records(c, s) : \A y \in Records(c, s) : fingerprint[y] = fingerprint[x] => x <= y}

Won(c, s, w) == {x \in Selected(c, s) : Winner(c, x) = w}
Wins(c, s) == Cardinality(Won(c, s, "treatment"))
Losses(c, s) == Cardinality(Won(c, s, "control"))

CellIntegrity(c, s) ==
  /\ \A x, y \in Records(c, s) : fingerprint[x] = fingerprint[y] => x = y
  /\ \A x \in Selected(c, s) :
       /\ Complete(c, x) /\ Stable(c, x) /\ CriticalStable(c, x)
       /\ selection.verifier_only \/ OrderStable(c, x)

HoldoutAuthorized(c, s) ==
  /\ c \in release
  /\ selection.split = "holdout"
  /\ Wins(c, s) + Losses(c, s) >= 8
  /\ Significant(Wins(c, s), Losses(c, s))
  /\ CellIntegrity(c, s)

CandidateCells == {k \in (comparisons \cap release) \X Skills : Records(k[1], k[2]) # {}}

----------------------------------------------------------------------------
(* The verdict.                                                            *)

FinalReleaseAuthorized ==
  /\ selection.split = "holdout"
  /\ ~selection.verifier_only \/ objective
  /\ authorities.generator
  /\ comparisons \cap release = release
  /\ CandidateCells = release \X Skills
  /\ \A k \in CandidateCells : HoldoutAuthorized(k[1], k[2])
  /\ Gates

\* What the command's exit code reports.
Passed ==
  CASE selection.split = "holdout" -> FinalReleaseAuthorized
    [] selection.split # "holdout" /\ selection.verifier_only ->
         MatrixExact /\ Infrastructure /\ TreatmentStability /\ GeneratorModels
    [] OTHER -> Gates
=============================================================================
