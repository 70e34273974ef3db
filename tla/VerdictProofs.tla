---------------------------- MODULE VerdictProofs ----------------------------
(***************************************************************************)
(* What a verdict means, for any requirements, criteria, pairs and cases:  *)
(* the comparison does not favour a side or an order (PairVerdict), a      *)
(* release rests on every result of the run (ReleaseVerdict) over the      *)
(* whole holdout of its suite (Suite), with every answer paid for          *)
(* (SpendAccounting).  What a calibration that passed, and a certification *)
(* that was loaded, are worth, for any corpus, release and evidence        *)
(* (Calibration); and what its evidence cost, whatever interrupted the     *)
(* collectors that paid for it (Collector).                                *)
(***************************************************************************)
EXTENDS PairVerdict, ReleaseVerdict, SpendAccounting, Calibration, Collector,
        FiniteSetTheorems, WellFoundedInduction, TLAPS

----------------------------------------------------------------------------
(* Exchanging the sides.                                                   *)

LEMMA Opposites == Opposite("A") = "B" /\ Opposite("B") = "A"
  BY DEF Opposite, Sides

LEMMA WinnersSwap ==
  ASSUME NEW w \in Winners
  PROVE  SwapWinner(w) \in Winners /\ SwapWinner(SwapWinner(w)) = w
  BY Opposites DEF Winners, Sides, SwapWinner

\* Exchanging the sides of an accepted answer gives one, and doing so twice
\* gives the same.
LEMMA SwapAnswer ==
  ASSUME NEW a \in Answers
  PROVE  Swap(a) \in Answers /\ Swap(Swap(a)) = a
<1> DEFINE b == Swap(a)
<1>1. /\ a.checks \in [Sides -> [Requirements -> Statuses]]
      /\ a.criteria \in [Criteria -> Winners] \cup {NotApplicable}
      /\ a = [checks |-> a.checks, criteria |-> a.criteria]
      /\ WellFormed(a) /\ Supported(a)
  BY DEF Answers
<1>2. /\ b.checks = [s \in Sides |-> a.checks[Opposite(s)]]
      /\ b.criteria = IF a.criteria = NotApplicable THEN NotApplicable
                      ELSE [c \in Criteria |-> SwapWinner(a.criteria[c])]
      /\ b = [checks |-> b.checks, criteria |-> b.criteria]
  BY DEF Swap
<1>3. \A s \in Sides : Opposite(s) \in Sides /\ Opposite(Opposite(s)) = s
  BY Opposites DEF Sides
<1>4. b.checks \in [Sides -> [Requirements -> Statuses]]
  BY <1>1, <1>2, <1>3
<1>5. b.criteria = NotApplicable <=> a.criteria = NotApplicable
  <2>1. CASE a.criteria = NotApplicable  BY <2>1, <1>2
  <2>2. CASE a.criteria # NotApplicable
    <3>1. b.criteria \in [Criteria -> Winners]
      BY <2>2, <1>1, <1>2, WinnersSwap
    <3>. QED  BY <3>1, <2>2, VerdictAssumption
  <2>. QED  BY <2>1, <2>2
<1>6. b.criteria \in [Criteria -> Winners] \cup {NotApplicable}
  BY <1>1, <1>2, WinnersSwap
<1>7. WellFormed(b)
  BY <1>1, <1>2, <1>3, <1>5 DEF WellFormed
<1>8. Supported(b)
  BY <1>1, <1>2, <1>5 DEF Supported, SwapWinner
<1>9. b \in Answers
  BY <1>2, <1>4, <1>6, <1>7, <1>8 DEF Answers
<1>10. [s \in Sides |-> b.checks[Opposite(s)]] = a.checks
  BY <1>1, <1>2, <1>3
<1>11. ASSUME a.criteria # NotApplicable
       PROVE  [c \in Criteria |-> SwapWinner(b.criteria[c])] = a.criteria
  BY <1>1, <1>2, <1>11, WinnersSwap
<1>12. Swap(b) = a
  <2>1. CASE a.criteria = NotApplicable
    BY <2>1, <1>1, <1>5, <1>10 DEF Swap
  <2>2. CASE a.criteria # NotApplicable
    BY <2>2, <1>1, <1>5, <1>10, <1>11 DEF Swap
  <2>. QED  BY <2>1, <2>2
<1>. QED  BY <1>9, <1>12

SwapOutcome(o) == CASE o = "A" -> "B" [] o = "B" -> "A" [] OTHER -> o

LEMMA OutcomeSwaps ==
  ASSUME NEW a \in Answers
  PROVE  Outcome(Swap(a)) = SwapOutcome(Outcome(a))
<1> DEFINE b == Swap(a)
<1>1. /\ a.criteria \in [Criteria -> Winners] \cup {NotApplicable}
      /\ b.criteria \in [Criteria -> Winners] \cup {NotApplicable}
      /\ WellFormed(a) /\ WellFormed(b)
  BY SwapAnswer DEF Answers
<1>2. b.checks["A"] = a.checks["B"] /\ b.checks["B"] = a.checks["A"]
  BY Opposites DEF Swap, Sides
<1>3. CASE a.criteria = NotApplicable
  <2>1. b.criteria = NotApplicable  BY <1>3 DEF Swap
  <2>2. \A s \in Sides : ~(Eligible(a.checks[s]) /\ Ineligible(a.checks[s]))
    BY DEF Eligible, Ineligible
  <2>. QED  BY <1>2, <1>3, <2>1, <2>2 DEF Outcome, SwapOutcome, Sides
<1>4. CASE a.criteria # NotApplicable
  <2>1. b.criteria = [c \in Criteria |-> SwapWinner(a.criteria[c])]
    BY <1>4 DEF Swap
  <2>2. b.criteria # NotApplicable
    <3>1. b.criteria \in [Criteria -> Winners]
      BY <2>1, <1>1, <1>4, WinnersSwap
    <3>. QED  BY <3>1, VerdictAssumption
  <2>3. WinsSome("A", b) <=> WinsSome("B", a)
    BY <2>1, <1>1, <1>4, Opposites DEF WinsSome, SwapWinner, Winners, Sides
  <2>4. WinsSome("B", b) <=> WinsSome("A", a)
    BY <2>1, <1>1, <1>4, Opposites DEF WinsSome, SwapWinner, Winners, Sides
  <2>. QED  BY <1>4, <2>2, <2>3, <2>4 DEF Outcome, SwapOutcome, Sides
<1>. QED  BY <1>3, <1>4

----------------------------------------------------------------------------
(* The judge.                                                              *)

\* A judge that looks at the position only, and answers the same whichever
\* candidate is presented first, never makes one of them win: what it says is
\* found inconsistent, or favours neither (_run_pair's AB/BA comparison).
THEOREM PositionNeverWins ==
  ASSUME NEW a \in Answers
  PROVE  Judged([o \in Orders |-> a]).winner \notin Roles
<1> DEFINE answers == [o \in Orders |-> a]
<1>1. answers["AB"] = a /\ answers["BA"] = a  BY DEF Orders
<1>2. a # NoAnswer  BY VerdictAssumption
<1>3. CASE ~Agree(answers)
  <2>1. Judged(answers).winner = "inconclusive"
    BY <1>1, <1>2, <1>3 DEF Judged, Inconclusive, Verdict, Orders
  <2>. QED  BY <2>1 DEF Roles
<1>4. CASE Agree(answers)
  <2>1. Swap(a) = a
    BY <1>1, <1>4 DEF Agree, Normalized
  <2>2. Outcome(a) = SwapOutcome(Outcome(a))
    BY <2>1, OutcomeSwaps
  <2>3. Outcome(a) \notin {"A", "B"}
    BY <2>2 DEF SwapOutcome
  <2>4. Judged(answers).winner = MapOutcome(Outcome(a))
    BY <1>1, <1>2, <1>4 DEF Judged, Verdict, Normalized, Orders
  <2>5. Outcome(a) \in {"A", "B", "tie", "tradeoff", "unqualified"}
    BY VerdictAssumption DEF Outcome
  <2>. QED  BY <2>3, <2>4, <2>5 DEF MapOutcome, Roles
<1>. QED  BY <1>3, <1>4

\* The judge prefers candidate s of decision d: only s is eligible, or both
\* are and s wins some criterion and the other none.
Prefers(d, s) ==
  /\ Eligible(d.checks[s])
  /\ \/ Ineligible(d.checks[Opposite(s)])
     \/ /\ Eligible(d.checks[Opposite(s)])
        /\ \E c \in Criteria : d.criteria[c] = s
        /\ \A c \in Criteria : d.criteria[c] \in {s, "tie"}

SideOf(role) == IF role = "control" THEN "A" ELSE "B"

LEMMA OutcomePrefers ==
  ASSUME NEW a \in Answers, NEW s \in Sides, Outcome(a) = s
  PROVE  Prefers(a, s)
<1>1. a.criteria \in [Criteria -> Winners] \cup {NotApplicable} /\ WellFormed(a)
  BY DEF Answers
<1>2. CASE a.criteria = NotApplicable
  BY <1>2, Opposites DEF Outcome, Prefers, Sides
<1>3. CASE a.criteria # NotApplicable
  <2>1. \A t \in Sides : Eligible(a.checks[t])
    BY <1>1, <1>3 DEF WellFormed
  <2>2. WinsSome(s, a) /\ ~WinsSome(Opposite(s), a)
    BY <1>3, Opposites DEF Outcome, Sides
  <2>3. \A c \in Criteria : a.criteria[c] \in {s, "tie"}
    BY <1>1, <1>3, <2>2, Opposites DEF WinsSome, Winners, Sides
  <2>. QED  BY <2>1, <2>2, <2>3, Opposites DEF Prefers, WinsSome, Sides
<1>. QED  BY <1>2, <1>3

\* A candidate the judge makes the winner was preferred by the judge in both
\* orders of presentation, as the side it was presented as.
THEOREM JudgedWinnerIsPreferred ==
  ASSUME NEW answers \in [Orders -> Answers \cup {NoAnswer}], NEW role \in Roles,
         Judged(answers).winner = role
  PROVE  /\ answers["AB"] \in Answers /\ answers["BA"] \in Answers
         /\ Prefers(answers["AB"], SideOf(role))
         /\ Prefers(Swap(answers["BA"]), SideOf(role))
<1> DEFINE a == answers["AB"]
<1>1. Inconclusive.winner \notin Roles /\ [Inconclusive EXCEPT !.bias = TRUE].winner \notin Roles
  BY DEF Inconclusive, Verdict, Roles
<1>2. /\ \A o \in Orders : answers[o] # NoAnswer
      /\ Agree(answers)
  BY <1>1 DEF Judged
<1>3. a \in Answers /\ answers["BA"] \in Answers
  BY <1>2 DEF Orders
<1>4. Swap(answers["BA"]) = a
  BY <1>2 DEF Agree, Normalized
<1>5. MapOutcome(Outcome(a)) = role
  BY <1>2 DEF Judged, Verdict, Normalized
<1>6. Outcome(a) = SideOf(role)
  <2>1. Outcome(a) \in {"A", "B", "tie", "tradeoff", "unqualified"}
    BY <1>3, VerdictAssumption DEF Outcome
  <2>. QED  BY <1>5, <2>1 DEF MapOutcome, SideOf, Roles
<1>7. Prefers(a, SideOf(role))
  BY <1>3, <1>6, OutcomePrefers DEF SideOf, Sides
<1>. QED  BY <1>3, <1>4, <1>7

----------------------------------------------------------------------------
(* The pair.                                                               *)

Other(role) == IF role = "control" THEN "treatment" ELSE "control"
Exchanged(v) ==
  [winner |-> IF v.winner \in Roles THEN Other(v.winner) ELSE v.winner,
   basis |-> v.basis, bias |-> v.bias, completed |-> v.completed]

LEMMA VerdictExchanged ==
  ASSUME NEW w, NEW basis
  PROVE  Exchanged(Verdict(w, basis))
           = Verdict(IF w \in Roles THEN Other(w) ELSE w, basis)
<1>1. /\ Verdict(w, basis).winner = w
      /\ Verdict(w, basis).basis = basis
      /\ Verdict(w, basis).bias = FALSE
      /\ Verdict(w, basis).completed = (basis # "infrastructure_error")
  BY DEF Verdict
<1>. QED  BY <1>1 DEF Exchanged, Verdict

LEMMA JudgedExchanged ==
  ASSUME NEW a \in Answers \cup {NoAnswer}, NEW b \in Answers \cup {NoAnswer},
         NEW answers, answers = [o \in Orders |-> IF o = "AB" THEN a ELSE b],
         NEW exchanged, exchanged = [o \in Orders |-> IF o = "AB" THEN b ELSE a]
  PROVE  Judged(exchanged) = Exchanged(Judged(answers))
<1>1. /\ answers["AB"] = a /\ answers["BA"] = b
      /\ exchanged["AB"] = b /\ exchanged["BA"] = a
  BY DEF Orders
<1>2. CASE a = NoAnswer \/ b = NoAnswer
  <2>1. Judged(exchanged) = Inconclusive /\ Judged(answers) = Inconclusive
    BY <1>1, <1>2 DEF Judged, Orders
  <2>2. Exchanged(Inconclusive) = Inconclusive
    BY DEF Exchanged, Inconclusive, Verdict, Roles
  <2>. QED  BY <2>1, <2>2
<1>3. CASE a \in Answers /\ b \in Answers /\ a # NoAnswer /\ b # NoAnswer
  <2>1. Agree(answers) <=> a = Swap(b)
    BY <1>1 DEF Agree, Normalized
  <2>2. Agree(exchanged) <=> b = Swap(a)
    BY <1>1 DEF Agree, Normalized
  <2>3. Agree(answers) <=> Agree(exchanged)
    BY <1>3, <2>1, <2>2, SwapAnswer
  <2>4. CASE ~Agree(answers)
    <3>1. /\ Judged(exchanged) = [Inconclusive EXCEPT !.bias = TRUE]
          /\ Judged(answers) = [Inconclusive EXCEPT !.bias = TRUE]
      BY <1>1, <1>3, <2>3, <2>4 DEF Judged, Orders
    <3>. QED  BY <3>1 DEF Exchanged, Inconclusive, Verdict, Roles
  <2>5. CASE Agree(answers)
    <3>1. /\ Judged(answers) = Verdict(MapOutcome(Outcome(a)), "canonical_comparator")
          /\ Judged(exchanged) = Verdict(MapOutcome(Outcome(b)), "canonical_comparator")
      BY <1>1, <1>3, <2>3, <2>5 DEF Judged, Orders, Normalized
    <3>2. Outcome(b) = SwapOutcome(Outcome(a))
      BY <1>3, <2>2, <2>3, <2>5, OutcomeSwaps
    <3>3. Outcome(a) \in {"A", "B", "tie", "tradeoff", "unqualified"}
      BY <1>3, VerdictAssumption DEF Outcome
    <3>4. MapOutcome(Outcome(b)) =
            IF MapOutcome(Outcome(a)) \in Roles THEN Other(MapOutcome(Outcome(a)))
                                               ELSE MapOutcome(Outcome(a))
      BY <3>2, <3>3 DEF MapOutcome, SwapOutcome, Other, Roles
    <3>5. Exchanged(Judged(answers)) =
            Verdict(MapOutcome(Outcome(b)), "canonical_comparator")
      BY <3>1, <3>4, VerdictExchanged
    <3>. QED  BY <3>1, <3>5
  <2>. QED  BY <2>4, <2>5
<1>. QED  BY <1>2, <1>3, VerdictAssumption

\* The verdict has no preference for a role: had the two skill versions been
\* given the other roles, which the judge would have been presented the other
\* way round, the same version would have won, for the same reason.
THEOREM RolesAreEqual ==
  ASSUME NEW errors \in BOOLEAN, NEW passed \in SUBSET Roles, NEW mode \in Modes,
         NEW answers \in [Orders -> Answers \cup {NoAnswer}]
  PROVE  VerdictOf(errors, {Other(r) : r \in passed}, mode,
                   [o \in Orders |-> IF o = "AB" THEN answers["BA"] ELSE answers["AB"]])
           = Exchanged(VerdictOf(errors, passed, mode, answers))
<1> DEFINE swapped == {Other(r) : r \in passed}
           exchanged == [o \in Orders |-> IF o = "AB" THEN answers["BA"] ELSE answers["AB"]]
<1>1. CASE errors
  BY <1>1 DEF VerdictOf, Exchanged, Inconclusive, Verdict, Roles
<1>2. passed \in {{}, {"control"}, {"treatment"}, Roles}
  BY DEF Roles
<1>3. /\ passed = {} => swapped = {}
      /\ passed = {"control"} => swapped = {"treatment"}
      /\ passed = {"treatment"} => swapped = {"control"}
      /\ passed = Roles => swapped = Roles
  BY DEF Other, Roles
<1>4. CASE ~errors /\ IsJudged(passed, mode)
  <2>1. answers = [o \in Orders |-> IF o = "AB" THEN answers["AB"] ELSE answers["BA"]]
    BY DEF Orders
  <2>2. Judged(exchanged) = Exchanged(Judged(answers))
    BY <2>1, JudgedExchanged DEF Orders
  <2>3. IsJudged(swapped, mode)
    BY <1>3, <1>4 DEF IsJudged
  <2>. QED  BY <1>4, <2>2, <2>3 DEF VerdictOf
<1>5. CASE ~errors /\ ~IsJudged(passed, mode)
  <2>1. ~IsJudged(swapped, mode)
    BY <1>2, <1>3, <1>5 DEF IsJudged, Roles
  <2>2. Objective(swapped, mode) = Exchanged(Objective(passed, mode))
    <3> DEFINE basis == IF mode = "objective_only" THEN "verifier-pass-v1"
                                                    ELSE "objective_verifier"
    <3>0. /\ {} # Roles /\ {"control"} # Roles /\ {"treatment"} # Roles
          /\ {"control"} # {"treatment"} /\ {} # {"control"} /\ {} # {"treatment"}
      BY DEF Roles
    <3>1. CASE passed = {"control"}
      <4>1. /\ Objective(passed, mode) = Verdict("control", basis)
            /\ Objective(swapped, mode) = Verdict("treatment", basis)
        BY <3>0, <3>1, <1>3 DEF Objective
      <4>. QED  BY <4>1, VerdictExchanged DEF Roles, Other
    <3>2. CASE passed = {"treatment"}
      <4>1. /\ Objective(passed, mode) = Verdict("treatment", basis)
            /\ Objective(swapped, mode) = Verdict("control", basis)
        BY <3>0, <3>2, <1>3 DEF Objective
      <4>. QED  BY <4>1, VerdictExchanged DEF Roles, Other
    <3>3. CASE passed \in {{}, Roles}
      <4>1. PICK w, why : w \in {"tie", "unqualified"} /\ Objective(passed, mode) = Verdict(w, why)
        BY <3>0, <3>3, <1>5 DEF Objective, Modes, IsJudged
      <4>2. swapped = passed
        BY <3>3, <1>3
      <4>. QED  BY <4>1, <4>2, VerdictExchanged DEF Roles
    <3>. QED  BY <1>2, <3>1, <3>2, <3>3
  <2>. QED  BY <1>5, <2>1, <2>2 DEF VerdictOf
<1>. QED  BY <1>1, <1>4, <1>5

\* A role wins a pair without errors only, whose verifiers it passed, and which
\* the other one failed unless the judge preferred the winner in both orders.
THEOREM PairIsEarned ==
  ASSUME NEW errors \in BOOLEAN, NEW passed \in SUBSET Roles, NEW mode \in Modes,
         NEW answers \in [Orders -> Answers \cup {NoAnswer}], NEW role \in Roles,
         VerdictOf(errors, passed, mode, answers).winner = role
  PROVE  /\ ~errors /\ role \in passed
         /\ \/ Other(role) \notin passed
            \/ /\ mode = "judged"
               /\ Prefers(answers["AB"], SideOf(role))
               /\ Prefers(Swap(answers["BA"]), SideOf(role))
<1>1. ~errors
  BY DEF VerdictOf, Inconclusive, Verdict, Roles
<1>2. CASE IsJudged(passed, mode)
  <2>1. Judged(answers).winner = role
    BY <1>1, <1>2 DEF VerdictOf
  <2>. QED  BY <1>1, <1>2, <2>1, JudgedWinnerIsPreferred DEF IsJudged
<1>3. CASE ~IsJudged(passed, mode)
  <2>1. Objective(passed, mode).winner = role
    BY <1>1, <1>3 DEF VerdictOf
  <2>2. passed \in {{}, {"control"}, {"treatment"}, Roles}
    BY DEF Roles
  <2>3. passed \notin {{}, Roles}
    <3>1. SUFFICES ASSUME passed \in {{}, Roles}  PROVE FALSE
      OBVIOUS
    <3>2. {} # Roles /\ {"control"} # Roles /\ {"treatment"} # Roles
      BY DEF Roles
    <3>3. {} # {"control"} /\ {} # {"treatment"}
      OBVIOUS
    <3>4. PICK w, why : w \in {"tie", "unqualified"} /\ Objective(passed, mode) = Verdict(w, why)
      BY <1>3, <3>1, <3>2, <3>3 DEF Objective, Modes, IsJudged
    <3>. QED  BY <2>1, <3>4 DEF Verdict, Roles
  <2>4. \E why : Objective(passed, mode)
                   = Verdict(IF passed = {"control"} THEN "control" ELSE "treatment", why)
    <3>1. {"control"} # {"treatment"}
      OBVIOUS
    <3>. QED  BY <2>2, <2>3, <3>1 DEF Objective
  <2>5. passed = {role}
    BY <2>1, <2>2, <2>3, <2>4 DEF Verdict, Roles
  <2>. QED  BY <1>1, <2>5 DEF Other, Roles
<1>. QED  BY <1>2, <1>3

----------------------------------------------------------------------------
(* The release.                                                            *)

\* A release rests on all results of the run and on no other: for each
\* released comparison and selected case there is one result of each
\* repetition; it is completed, the treatment passed with everything critical,
\* and the judge answered the same in both orders (_aggregate's gates).
THEOREM ReleaseIsComplete ==
  ASSUME FinalReleaseAuthorized, NEW c \in release, NEW x \in cases, NEW r \in 0..2
  PROVE  \E i \in DOMAIN pairs :
           /\ \A j \in DOMAIN pairs : Key(j) = <<c, x, r>> <=> j = i
           /\ pairs[i].completed /\ pairs[i].treatment /\ pairs[i].critical
           /\ selection.verifier_only \/ ~pairs[i].bias
<1>1. /\ MatrixExact /\ TreatmentStability /\ OrderIntegrity
      /\ c \in comparisons
  BY DEF FinalReleaseAuthorized, Gates
<1>2. <<c, x, r>> \in Observed
  BY <1>1 DEF MatrixExact, Expected
<1>3. PICK i \in DOMAIN pairs : Key(i) = <<c, x, r>>
  BY <1>2 DEF Observed
<1>4. \A j \in DOMAIN pairs : Key(j) = <<c, x, r>> <=> j = i
  BY <1>1, <1>3 DEF MatrixExact
<1>5. i \in Repetitions(c, x)
  BY <1>3 DEF Repetitions, Key
<1>6. <<c, x>> \in Recorded
  BY <1>2 DEF Recorded
<1>7. Stable(c, x) /\ CriticalStable(c, x)
  BY <1>1, <1>6 DEF TreatmentStability
<1>8. selection.verifier_only \/ OrderStable(c, x)
  BY <1>1, <1>6 DEF OrderIntegrity
<1>9. pairs[i].completed /\ pairs[i].treatment /\ pairs[i].critical
  BY <1>5, <1>7 DEF Stable, CriticalStable, Complete
<1>10. selection.verifier_only \/ ~pairs[i].bias
  BY <1>5, <1>8 DEF OrderStable
<1>. QED  BY <1>4, <1>9, <1>10

\* Whoever wins a case has won two of its repetitions, all three of which were
\* completed (_aggregate's majority).
THEOREM WinnerIsMajority ==
  ASSUME NEW c, NEW x, Winner(c, x) # "inconclusive"
  PROVE  /\ Complete(c, x)
         /\ \E i, j \in Repetitions(c, x) :
              /\ pairs[i].repetition # pairs[j].repetition
              /\ pairs[i].winner = Winner(c, x) /\ pairs[j].winner = Winner(c, x)
<1>1. Majority(c, x) = {Winner(c, x)}
  BY DEF Winner
<1>2. PICK i, j \in Repetitions(c, x) :
        /\ Complete(c, x) /\ i # j
        /\ pairs[i].winner = Winner(c, x) /\ pairs[j].winner = Winner(c, x)
  BY <1>1 DEF Majority
<1>3. pairs[i].repetition # pairs[j].repetition
  BY <1>2 DEF Complete
<1>. QED  BY <1>2, <1>3

\* The two modules together.  If every winner is one of _run_pair, a case that
\* counts as a win for the release was won in two repetitions, in which no arm
\* failed, the treatment passed the verifiers, and the control either did not
\* or was found worse by the judge in both orders.
THEOREM ReleaseIsEarned ==
  ASSUME NEW errors \in [DOMAIN pairs -> BOOLEAN],
         NEW passed \in [DOMAIN pairs -> SUBSET Roles], NEW mode \in Modes,
         NEW answers \in [DOMAIN pairs -> [Orders -> Answers \cup {NoAnswer}]],
         \A i \in DOMAIN pairs :
           pairs[i].winner = VerdictOf(errors[i], passed[i], mode, answers[i]).winner,
         NEW c, NEW s, NEW x \in Won(c, s, "treatment")
  PROVE  \E i, j \in Repetitions(c, x) :
           /\ pairs[i].repetition # pairs[j].repetition
           /\ \A k \in {i, j} :
                /\ pairs[k].completed /\ ~errors[k] /\ "treatment" \in passed[k]
                /\ \/ "control" \notin passed[k]
                   \/ Prefers(answers[k]["AB"], "B") /\ Prefers(Swap(answers[k]["BA"]), "B")
<1>1. Winner(c, x) = "treatment"
  BY DEF Won
<1>2. PICK i, j \in Repetitions(c, x) :
        /\ pairs[i].repetition # pairs[j].repetition
        /\ pairs[i].winner = "treatment" /\ pairs[j].winner = "treatment"
  BY <1>1, WinnerIsMajority
<1>3. Complete(c, x)
  BY <1>1, WinnerIsMajority
<1>4. ASSUME NEW k \in {i, j}
      PROVE  /\ pairs[k].completed /\ ~errors[k] /\ "treatment" \in passed[k]
             /\ \/ "control" \notin passed[k]
                \/ Prefers(answers[k]["AB"], "B") /\ Prefers(Swap(answers[k]["BA"]), "B")
  <2>1. k \in DOMAIN pairs /\ pairs[k].completed
    BY <1>3 DEF Repetitions, Complete
  <2>2. VerdictOf(errors[k], passed[k], mode, answers[k]).winner = "treatment"
    BY <1>2, <2>1
  <2>3. /\ errors[k] \in BOOLEAN /\ passed[k] \in SUBSET Roles
        /\ answers[k] \in [Orders -> Answers \cup {NoAnswer}]
    BY <2>1
  <2>4. "treatment" \in Roles /\ Other("treatment") = "control" /\ SideOf("treatment") = "B"
    BY DEF Roles, Other, SideOf
  <2>. QED  BY <2>1, <2>2, <2>3, <2>4, PairIsEarned
<1>. QED  BY <1>2, <1>4

----------------------------------------------------------------------------
(* The suite, and the run of it that a release rests on.                   *)

\* The result an aggregation is given of run sel of suite s.
RunOf(s, sel) ==
  /\ Loads(s) /\ Selects(s, sel, FALSE)
  /\ cases = SelectedCases(s, sel)
  /\ comparisons = {s.comparisons[i].id : i \in SelectedComparisons(s, sel)}
  /\ skill = [i \in cases |-> s.cases[i].skill]
  /\ release = ToSet(s.holdout)
  /\ selection = [split |-> sel.split, verifier_only |-> sel.verifier_only,
                  cases_chosen |-> sel.cases # <<>>, seed_chosen |-> sel.seed # Absent,
                  comparisons |-> ToSet(sel.comparisons)]

\* An authorized release covers the suite: every holdout case, no case of
\* another split, and every comparison the suite demands, three times, between
\* two distinct variants (_selected, load_suite and the gates together).
THEOREM ReleaseCoversHoldout ==
  ASSUME NEW s, NEW sel, RunOf(s, sel), FinalReleaseAuthorized
  PROVE  /\ cases = {i \in DOMAIN s.cases : s.cases[i].split = "holdout"}
         /\ \A n \in DOMAIN s.holdout : \A i \in cases, r \in 0..2 :
              \E k \in DOMAIN pairs :
                /\ \A j \in DOMAIN pairs : Key(j) = <<s.holdout[n], i, r>> <=> j = k
                /\ pairs[k].completed /\ pairs[k].treatment
         /\ \A n \in DOMAIN s.holdout : \E m \in DOMAIN s.comparisons :
              /\ s.comparisons[m].id = s.holdout[n]
              /\ s.comparisons[m].control # s.comparisons[m].treatment
              /\ {s.comparisons[m].control, s.comparisons[m].treatment} \subseteq Ids(s.variants)
<1>1. sel.split = "holdout"
  BY DEF RunOf, FinalReleaseAuthorized
<1>2. sel.cases = <<>>
  BY <1>1 DEF RunOf, Selects, HoldoutShape
<1>3. cases = {i \in DOMAIN s.cases : s.cases[i].split = "holdout"}
  BY <1>1, <1>2 DEF RunOf, SelectedCases, SplitCases
<1>4. ASSUME NEW n \in DOMAIN s.holdout, NEW i \in cases, NEW r \in 0..2
      PROVE  \E k \in DOMAIN pairs :
               /\ \A j \in DOMAIN pairs : Key(j) = <<s.holdout[n], i, r>> <=> j = k
               /\ pairs[k].completed /\ pairs[k].treatment
  <2>1. s.holdout[n] \in release
    BY DEF RunOf, ToSet
  <2>. QED  BY <2>1, ReleaseIsComplete
<1>5. ASSUME NEW n \in DOMAIN s.holdout
      PROVE  \E m \in DOMAIN s.comparisons :
               /\ s.comparisons[m].id = s.holdout[n]
               /\ s.comparisons[m].control # s.comparisons[m].treatment
               /\ {s.comparisons[m].control, s.comparisons[m].treatment} \subseteq Ids(s.variants)
  <2>1. ComparisonsParse(s.comparisons, s.variants) /\ HoldoutParses(s.holdout, s.comparisons)
    BY DEF RunOf, Loads
  <2>2. s.holdout[n] \in Ids(s.comparisons)
    BY <2>1 DEF HoldoutParses, ToSet
  <2>3. PICK m \in DOMAIN s.comparisons : s.comparisons[m].id = s.holdout[n]
    BY <2>2 DEF Ids
  <2>. QED  BY <2>1, <2>3 DEF ComparisonsParse
<1>. QED  BY <1>3, <1>4, <1>5

\* What the preflight accepted meets every demand of the holdout protocol that
\* does not depend on the results: when plan, judge and generator have authority
\* and the plan lists the selected cases, only an inexact matrix can fail it.
THEOREM ProtocolIsPreflighted ==
  ASSUME NEW s, NEW sel, RunOf(s, sel), sel.split = "holdout",
         NEW tree, NEW print, TasksUnique(s, sel, tree, print),
         NEW listed \in Bijection(DOMAIN planned, cases), IsFiniteSet(DOMAIN planned),
         \A i \in DOMAIN planned :
           /\ planned[i].skill = skill[listed[i]]
           /\ planned[i].tree = tree[listed[i]]
           /\ planned[i].fingerprint = print[listed[i]],
         authorities.plan /\ authorities.judge /\ authorities.generator
  PROVE  HoldoutProtocol <=> MatrixExact
<1>1. /\ listed \in [DOMAIN planned -> cases]
      /\ \A i, j \in DOMAIN planned : listed[i] = listed[j] => i = j
      /\ \A x \in cases : \E i \in DOMAIN planned : listed[i] = x
  BY DEF Bijection, Injection, Surjection, IsInjective
<1>2. selection.split = "holdout" /\ ~selection.cases_chosen /\ ~selection.seed_chosen
  BY DEF RunOf, Selects, HoldoutShape
<1>3. selection.comparisons = release
  BY DEF RunOf, Selects, HoldoutShape
<1>4. Skills = SelectedSkills(s, sel) /\ Skills # {}
  BY DEF RunOf, Selects, Skills, SelectedSkills
<1>5. \A i, j \in DOMAIN planned :
        planned[i].tree = planned[j].tree \/ planned[i].fingerprint = planned[j].fingerprint
          => i = j
  <2>1. \A x, y \in cases : tree[x] = tree[y] \/ print[x] = print[y] => x = y
    BY DEF RunOf, TasksUnique
  <2>. QED  BY <1>1, <2>1
<1>6. ASSUME NEW k \in Skills
      PROVE  Cardinality({i \in DOMAIN planned : planned[i].skill = k})
               >= _MIN_HOLDOUT_CASES_PER_SKILL
  <2> DEFINE P == {i \in DOMAIN planned : planned[i].skill = k}
             C == {i \in SelectedCases(s, sel) : s.cases[i].skill = k}
  <2>1. Cardinality(C) >= _MIN_HOLDOUT_CASES
    BY <1>4 DEF RunOf, Selects
  <2>2. IsFiniteSet(P)
    BY FS_Subset
  <2>3. [i \in P |-> listed[i]] \in Bijection(P, C)
    <3> DEFINE f == [i \in P |-> listed[i]]
    <3>1. \A i \in P : listed[i] \in C
      BY <1>1 DEF RunOf
    <3>2. ASSUME NEW x \in C  PROVE \E i \in P : listed[i] = x
      <4>1. x \in cases /\ skill[x] = k
        BY DEF RunOf
      <4>2. PICK i \in DOMAIN planned : listed[i] = x
        BY <1>1, <4>1
      <4>. QED  BY <4>1, <4>2
    <3>3. f \in [P -> C]
      BY <3>1
    <3>4. \A i, j \in P : f[i] = f[j] => i = j
      BY <1>1
    <3>5. \A x \in C : \E i \in P : f[i] = x
      BY <3>2
    <3>. QED  BY <3>3, <3>4, <3>5 DEF Bijection, Injection, Surjection, IsInjective
  <2>4. Cardinality(C) = Cardinality(P)
    BY <2>2, <2>3, FS_Bijection DEF ExistsBijection
  <2>. QED  BY <2>1, <2>4 DEF _MIN_HOLDOUT_CASES, _MIN_HOLDOUT_CASES_PER_SKILL
<1>. QED  BY <1>2, <1>3, <1>4, <1>5, <1>6 DEF HoldoutProtocol

LEMMA Scale ==
  ASSUME NEW a \in Nat, NEW b \in Nat, NEW p \in Nat, a <= b
  PROVE  a * p <= b * p
<1>1. PICK d \in Nat : b = a + d  BY b - a \in Nat
<1>2. b * p = a * p + d * p /\ d * p \in Nat  BY <1>1
<1>. QED  BY <1>1, <1>2

\* A comparison whose plan is within the cap never runs out of it: whatever was
\* committed to the calls made so far, none above the ceiling of a call, the
\* next planned call can still be reserved (_execution_plan,
\* _assert_comparator_plan_within_release_cap and SpendLedger.reserve).
THEOREM ReservationsFit ==
  ASSUME NEW s, NEW sel, Loads(s), JudgeLoaded(s, sel), ~sel.verifier_only,
         NEW limits \in [per_call : Nat, run : Nat], PlanWithinCap(s, sel, limits),
         IsFiniteSet(SelectedCases(s, sel)), NEW c \in SelectedComparisons(s, sel),
         NEW n \in Nat, n < ComparisonPlan(s, sel, limits, c).comparator_calls,
         NEW committed \in Nat, committed <= n * limits.per_call
  PROVE  committed + limits.per_call <= limits.run
<1> DEFINE calls == ComparisonPlan(s, sel, limits, c).comparator_calls
           p == limits.per_call
<1>1. s.comparisons[c].repetitions = 3
  BY DEF SelectedComparisons, Loads, ComparisonsParse
<1>2. Cardinality(SelectedCases(s, sel)) \in Nat
  BY FS_CardinalityType
<1>3. calls = 3 * Cardinality(SelectedCases(s, sel)) * 2
  BY <1>1 DEF ComparisonPlan
<1>4. calls \in Nat /\ n + 1 <= calls /\ p \in Nat /\ limits.run \in Nat
  BY <1>2, <1>3
<1>5. calls * p <= limits.run
  BY DEF PlanWithinCap, ComparisonPlan
<1> HIDE DEF calls, p
<1>6. (n + 1) * p <= calls * p
  BY <1>4, Scale
<1>7. (n + 1) * p = n * p + p
  BY <1>4
<1>8. committed + p <= n * p + p /\ n * p \in Nat /\ calls * p \in Nat
  BY <1>4 DEF p
<1>9. committed + p <= limits.run
  BY <1>4, <1>5, <1>6, <1>7, <1>8
<1>. QED  BY <1>9 DEF p

\* The exposure of a loaded suite is always defined: neither error of
\* _execution_plan about billing can occur, in dollars or by subscription.
THEOREM ExposureIsDefined ==
  ASSUME NEW s, Loads(s), Absent \notin Nat
  PROVE  /\ BillingStated(s.provider)
         /\ AgentPerCall(s.provider) \in Nat <=> s.provider.adapter # "codex-app-server"
         /\ AgentPerCall(s.provider) \in Nat \cup {Absent}
<1>1. ProviderParses(s.provider, "generation")
  BY DEF Loads
<1>2. s.provider.adapter \in {"claude-cli", "codex-app-server", "deterministic-fake"}
  BY <1>1 DEF ProviderParses, Capabilities
<1>3. CASE s.provider.adapter = "codex-app-server"
  <2>1. Capabilities[s.provider.adapter].kind = "codex"
    BY <1>3 DEF Capabilities
  <2>2. Billing(s.provider) = "chatgpt_subscription" /\ s.provider.budget = Absent
    BY <1>1, <2>1 DEF ProviderParses
  <2>. QED  BY <1>3, <2>2 DEF BillingStated, AgentPerCall
<1>4. CASE s.provider.adapter # "codex-app-server"
  <2>1. Capabilities[s.provider.adapter].kind # "codex"
    BY <1>2, <1>4 DEF Capabilities
  <2>2. Billing(s.provider) = "metered_api"
    BY <1>1, <2>1 DEF ProviderParses
  <2>3. s.provider.budget # Absent => s.provider.budget \in Nat
    BY <1>1 DEF ProviderParses
  <2>. QED  BY <1>4, <2>2, <2>3 DEF BillingStated, AgentPerCall
<1>. QED  BY <1>3, <1>4

LEMMA OneIsSome ==
  ASSUME NEW q, Len(q) = 1
  PROVE  q # <<>>
<1>1. Len(<<>>) # 1
  OBVIOUS
<1>. QED  BY <1>1, Zenon

\* A diagnostic run, whatever it filters by, touches no holdout case and takes
\* no plan, and if the judge will be asked it is about one comparison.
THEOREM DiagnosticsSpareHoldout ==
  ASSUME NEW s, NEW sel, NEW Names, sel.comparisons \in Seq(Names),
         Loads(s), Selects(s, sel, FALSE), sel.split # "holdout"
  PROVE  /\ sel.plan = Absent
         /\ \A i \in SelectedCases(s, sel) : s.cases[i].split # "holdout"
         /\ ~sel.verifier_only =>
              \A i, j \in SelectedComparisons(s, sel) : i = j
<1>1. /\ sel.plan = Absent
      /\ sel.verifier_only \/ Len(sel.comparisons) = 1
  BY DEF Selects
<1>2. \A i \in SelectedCases(s, sel) : s.cases[i].split # "holdout"
  BY DEF SelectedCases, SplitCases
<1>3. ASSUME NEW i \in SelectedComparisons(s, sel), NEW j \in SelectedComparisons(s, sel),
             Len(sel.comparisons) = 1
      PROVE  i = j
  <2>1. DOMAIN sel.comparisons = {1}
    BY <1>3
  <2>2. ToSet(sel.comparisons) = {sel.comparisons[1]}
    BY <2>1 DEF ToSet
  <2>3. sel.comparisons # <<>>
    BY <1>3, OneIsSome
  <2>4. s.comparisons[i].id = s.comparisons[j].id
    BY <2>2, <2>3 DEF SelectedComparisons
  <2>5. i \in DOMAIN s.comparisons /\ j \in DOMAIN s.comparisons
    BY DEF SelectedComparisons
  <2>. QED  BY <2>4, <2>5 DEF Loads, ComparisonsParse, UniqueIds
<1>. QED  BY <1>1, <1>2, <1>3

\* With a serialized provider the arms change places from one repetition to the
\* next, so neither runs first in all three (_serialized_arm_order).
THEOREM ArmsAlternate ==
  ASSUME NEW seed, NEW c, NEW x, ControlFirst[seed][c][x] \in BOOLEAN, NEW r \in Nat
  PROVE  ArmOrder(seed, c, x, r) # ArmOrder(seed, c, x, r + 1)
<1>1. (r % 2 = 0) <=> ~((r + 1) % 2 = 0)
  OBVIOUS
<1>2. <<"control", "treatment">> # <<"treatment", "control">>
  OBVIOUS
<1>. QED  BY <1>1, <1>2 DEF ArmOrder

----------------------------------------------------------------------------
(* What the judge was paid.                                                *)

\* Records that were in the journal stay where they were.
Kept(old, new) ==
  DOMAIN old \subseteq DOMAIN new /\ \A n \in DOMAIN old : new[n] = old[n]

LEMMA ReservedOnce ==
  ASSUME NEW Entries, NEW book \in Seq(Entries), JournalAccounts(book),
         NEW m \in DOMAIN book, NEW n \in DOMAIN book,
         book[m].event = "reserve", book[n].event = "reserve",
         book[m].attempt = book[n].attempt
  PROVE  m = n
<1>1. m \in Nat \ {0} /\ n \in Nat \ {0}
  OBVIOUS
<1>2. /\ \A k \in 1 .. (n - 1) : book[k].attempt # book[n].attempt
      /\ \A k \in 1 .. (m - 1) : book[k].attempt # book[m].attempt
  BY DEF JournalAccounts, RecordAccounts, Terminal
<1>3. ~(m < n) /\ ~(n < m)
  BY <1>1, <1>2
<1>. QED  BY <1>1, <1>3

LEMMA Spent ==
  ASSUME NEW result, NEW q, NEW runtime, NEW maximum, NEW seen, NEW book, NEW c,
         ResultAccepted(result, q, runtime, maximum, seen), ~runtime.test_release,
         Kept(seen, book)
  PROVE  /\ TrialAccounts(book, Trial(result, q, c))
         /\ \E m \in DOMAIN book :
              /\ book[m].event = "reserve"
              /\ book[m].attempt = Trial(result, q, c).attempt
              /\ book[m].invocation = Trial(result, q, c).invocation
<1> DEFINE t == Trial(result, q, c)
           price == result.provider.cost
<1>1. result.transport.cost = price
  BY DEF ResultAccepted, EvidenceAgrees
<1>2. t.attempt = result.transport.attempt /\ t.request = q.bytes
      /\ t.invocation = InvocationId(q.pair.id, q.repetition, q.order)
      /\ t.provider_cost = price /\ t.transport_cost = price
  BY <1>1 DEF Trial
<1>3. PICK m \in DOMAIN seen, n \in DOMAIN seen :
        /\ seen[m].event = "reserve" /\ seen[m].attempt = t.attempt
        /\ seen[m].invocation = t.invocation
        /\ seen[n].event = "reconcile" /\ seen[n].attempt = t.attempt
        /\ seen[n].request = t.request /\ seen[n].invocation = t.invocation
        /\ seen[n].amount = price
  BY <1>2 DEF ResultAccepted, SpendReconciled
<1> HIDE DEF t, price
<1>4. /\ m \in DOMAIN book /\ book[m] = seen[m]
      /\ n \in DOMAIN book /\ book[n] = seen[n]
  BY DEF Kept
<1>5. TrialAccounts(book, t)
  BY <1>2, <1>3, <1>4 DEF TrialAccounts, Binding
<1>. QED  BY <1>3, <1>4, <1>5 DEF t

\* A run whose every trial was accepted when it was made is accepted when it is
\* added up: each trial is found reconciled at its price, and no attempt paid for
\* two, because two trials of a run never ask with the same invocation (the
\* spend journal, ComparatorResult and _comparator_cost_accounting together).
THEOREM TrialsAreAccounted ==
  ASSUME NEW s, NEW seed, NEW runtime, NEW maximum, ~runtime.test_release,
         NEW Entries, NEW journals, NEW made, NEW results, NEW asked, NEW seen, NEW case,
         \A i \in DOMAIN made :
           /\ journals[made[i].comparison] \in Seq(Entries)
           /\ JournalAccounts(journals[made[i].comparison])
           /\ Kept(seen[i], journals[made[i].comparison])
           /\ asked[i].pair.id
                = OpaqueId(s, seed, made[i].comparison, case[i], asked[i].repetition)
           /\ ResultAccepted(results[i], asked[i], runtime, maximum, seen[i])
           /\ made[i] = Trial(results[i], asked[i], made[i].comparison),
         \A i, j \in DOMAIN made :
           /\ made[i].comparison = made[j].comparison
           /\ case[i] = case[j] /\ asked[i].repetition = asked[j].repetition
           /\ asked[i].order = asked[j].order
           => i = j
  PROVE  TrialsAccount(journals, made)
<1>1. ASSUME NEW i \in DOMAIN made
      PROVE  /\ TrialAccounts(journals[made[i].comparison], made[i])
             /\ \E m \in DOMAIN journals[made[i].comparison] :
                  /\ journals[made[i].comparison][m].event = "reserve"
                  /\ journals[made[i].comparison][m].attempt = made[i].attempt
                  /\ journals[made[i].comparison][m].invocation = made[i].invocation
  <2> DEFINE c == made[i].comparison
             book == journals[c]
             t == Trial(results[i], asked[i], c)
  <2>1. /\ ResultAccepted(results[i], asked[i], runtime, maximum, seen[i])
        /\ Kept(seen[i], book) /\ made[i] = t
    OBVIOUS
  <2> HIDE DEF c, book
  <2>2. /\ TrialAccounts(book, t)
        /\ \E m \in DOMAIN book :
             /\ book[m].event = "reserve" /\ book[m].attempt = t.attempt
             /\ book[m].invocation = t.invocation
    BY <2>1, Spent
  <2> HIDE DEF t
  <2>. QED  BY <2>1, <2>2 DEF c, book
<1>2. ASSUME NEW i \in DOMAIN made, NEW j \in DOMAIN made,
             made[i].comparison = made[j].comparison,
             made[i].attempt = made[j].attempt
      PROVE  i = j
  <2> DEFINE book == journals[made[i].comparison]
  <2>1. PICK m \in DOMAIN book :
          /\ book[m].event = "reserve" /\ book[m].attempt = made[i].attempt
          /\ book[m].invocation = made[i].invocation
    BY <1>1
  <2>2. PICK n \in DOMAIN book :
          /\ book[n].event = "reserve" /\ book[n].attempt = made[j].attempt
          /\ book[n].invocation = made[j].invocation
    BY <1>1, <1>2
  <2>3. book \in Seq(Entries) /\ JournalAccounts(book)
    OBVIOUS
  <2>4. book[m].attempt = book[n].attempt
    BY <1>2, <2>1, <2>2
  <2> HIDE DEF book
  <2>5. m = n
    BY <2>1, <2>2, <2>3, <2>4, ReservedOnce
  <2>6. made[i].invocation = made[j].invocation
    BY <2>1, <2>2, <2>5
  <2>7. made[i].invocation = <<asked[i].pair.id, asked[i].repetition, asked[i].order>>
        /\ made[j].invocation = <<asked[j].pair.id, asked[j].repetition, asked[j].order>>
    BY DEF Trial, InvocationId
  <2>8. asked[i].pair.id = asked[j].pair.id /\ asked[i].repetition = asked[j].repetition
        /\ asked[i].order = asked[j].order
    <3> DEFINE a == asked[i].pair.id
               b == asked[j].pair.id
    <3>1. <<a, asked[i].repetition, asked[i].order>> = <<b, asked[j].repetition, asked[j].order>>
      BY <2>6, <2>7, Zenon
    <3> HIDE DEF a, b
    <3>2. a = b /\ asked[i].repetition = asked[j].repetition /\ asked[i].order = asked[j].order
      BY <3>1
    <3>. QED  BY <3>2 DEF a, b
  <2>9. asked[i].pair.id.case = case[i] /\ asked[j].pair.id.case = case[j]
    <3>1. /\ asked[i].pair.id
               = OpaqueId(s, seed, made[i].comparison, case[i], asked[i].repetition)
          /\ asked[j].pair.id
               = OpaqueId(s, seed, made[j].comparison, case[j], asked[j].repetition)
      OBVIOUS
    <3>2. /\ OpaqueId(s, seed, made[i].comparison, case[i], asked[i].repetition).case = case[i]
          /\ OpaqueId(s, seed, made[j].comparison, case[j], asked[j].repetition).case = case[j]
      BY DEF OpaqueId
    <3>. QED  BY <3>1, <3>2, Zenon
  <2>10. case[i] = case[j]
    BY <2>8, <2>9
  <2>. QED  BY <1>2, <2>8, <2>10
<1>. QED  BY <1>1, <1>2 DEF TrialsAccount

\* A pair of accepted answers that agree is decided by the outcome the results
\* carry, whichever of the two is asked for it.
THEOREM ResultsDecide ==
  ASSUME NEW q, NEW runtime, NEW maximum, NEW book, NEW seen, NEW results,
         q["AB"].order = "AB", q["BA"].order = "BA",
         ResultAccepted(results["AB"], q["AB"], runtime, maximum, book),
         ResultAccepted(results["BA"], q["BA"], runtime, maximum, seen),
         results["AB"].decision = results["BA"].decision
  PROVE  /\ results["AB"].outcome = results["BA"].outcome
         /\ Judged([o \in Orders |-> results[o].response])
              = Verdict(MapOutcome(results["AB"].outcome), "canonical_comparator")
<1> DEFINE answers == [o \in Orders |-> results[o].response]
<1>1. \A o \in Orders : answers[o] \in Answers /\ answers[o] # NoAnswer
  BY VerdictAssumption DEF Orders, ResultAccepted, DecisionAgrees
<1>2. /\ results["AB"].decision = Normalized(answers["AB"], "AB")
      /\ results["BA"].decision = Normalized(answers["BA"], "BA")
      /\ results["AB"].outcome = Outcome(results["AB"].decision)
      /\ results["BA"].outcome = Outcome(results["BA"].decision)
  BY DEF Orders, ResultAccepted, DecisionAgrees
<1>3. Agree(answers)
  BY <1>2 DEF Agree
<1>. QED  BY <1>1, <1>2, <1>3 DEF Judged

----------------------------------------------------------------------------
(* The calibration of the judge, and its certification.                    *)

\* A pair that is decided was decided the same in every trial.
LEMMA DecidedAlike ==
  ASSUME NEW corpus, NEW evidence, NEW p \in DOMAIN corpus,
         ObservedInTrials(corpus, evidence, p) # Undecided,
         NEW n \in TrialRepetitions(corpus, p), NEW order \in Orders
  PROVE  Decided(evidence, p, n, order) = ObservedInTrials(corpus, evidence, p)
<1>1. ObservedInTrials(corpus, evidence, p) = PerRepetition(evidence, p, 0)
  BY DEF ObservedInTrials
<1>2. PerRepetition(evidence, p, n) = PerRepetition(evidence, p, 0)
  BY DEF ObservedInTrials
<1>3. /\ Decided(evidence, p, n, "AB") = Decided(evidence, p, n, "BA")
      /\ PerRepetition(evidence, p, n) = Decided(evidence, p, n, "AB")
  BY <1>1, <1>2 DEF PerRepetition
<1>. QED  BY <1>1, <1>2, <1>3 DEF Orders

LEMMA KeyParts ==
  ASSUME NEW corpus, NEW key \in TrialKeys(corpus)
  PROVE  /\ key = <<key[1], key[2], key[3]>>
         /\ key[1] \in DOMAIN corpus /\ key[3] \in Orders
         /\ key[2] \in TrialRepetitions(corpus, key[1])
  BY DEF TrialKeys, TrialRepetitions

\* The judge of a calibration that passed was right about every critical pair,
\* in every repetition and in both orders: the status of each requirement of
\* both candidates, and the outcome (the critical gates of evaluate_evidence).
THEOREM CriticalJudgedRight ==
  ASSUME NEW bundle, NEW sources, NEW external, NEW evidence,
         CalibrationPassed(bundle, sources, external, evidence),
         {"outcomes", "admissibility"} \subseteq bundle.release.flags,
         NEW key \in TrialKeys(bundle.corpus),
         bundle.corpus[key[1]].gold # None, Critical(bundle.corpus[key[1]])
  PROVE  LET d == Normalized(evidence.trials[key].answer, key[3])
             gold == bundle.corpus[key[1]].gold
         IN d.checks = gold.checks /\ Outcome(d) = Outcome(gold)
<1> DEFINE corpus == bundle.corpus
           p == key[1]
<1>1. /\ p \in DOMAIN corpus /\ key[3] \in Orders /\ key[2] \in TrialRepetitions(corpus, p)
      /\ key = <<p, key[2], key[3]>>
  BY KeyParts
<1>2. p \in Scored(corpus)
  BY <1>1 DEF Scored
<1>3. AdmissibilityExact(corpus, evidence, p)
  BY <1>2 DEF CalibrationPassed, CalibrationGates
<1>4. OutcomeRight(corpus, evidence, p)
  BY <1>2 DEF CalibrationPassed, CalibrationGates
<1>5. Decided(evidence, p, key[2], key[3]) = ObservedInTrials(corpus, evidence, p)
  BY <1>1, <1>3, DecidedAlike DEF AdmissibilityExact
<1>6. Decided(evidence, p, key[2], key[3]) = Normalized(evidence.trials[key].answer, key[3])
  BY <1>1 DEF Decided
<1>7. /\ ObservedInTrials(corpus, evidence, p).checks = corpus[p].gold.checks
      /\ Outcome(ObservedInTrials(corpus, evidence, p)) = Outcome(corpus[p].gold)
  BY <1>3, <1>4 DEF AdmissibilityExact, OutcomeRight, ObservedOutcome
<1>. QED  BY <1>5, <1>6, <1>7

\* A decision that stays the same when the sides are exchanged has no winner.
LEMMA SameBothWays ==
  ASSUME NEW a, Swap(a) = a
  PROVE  Outcome(a) \notin Sides
<1>1. Opposite("A") = "B" /\ Opposite("B") = "A"
  BY DEF Opposite, Sides
<1>2. a.checks["A"] = a.checks["B"]
  <2>1. a.checks = [s \in Sides |-> a.checks[Opposite(s)]]
    BY DEF Swap
  <2>. QED  BY <1>1, <2>1 DEF Sides
<1>3. CASE a.criteria = NotApplicable
  <2>1. ~(Eligible(a.checks["A"]) /\ Ineligible(a.checks["A"]))
    BY DEF Eligible, Ineligible
  <2>. QED  BY <1>2, <1>3, <2>1 DEF Outcome, Sides
<1>4. CASE a.criteria # NotApplicable
  <2>1. a.criteria = [c \in Criteria |-> SwapWinner(a.criteria[c])]
    BY <1>4 DEF Swap
  <2>2. \A s \in Sides : ~WinsSome(s, a)
    <3> SUFFICES ASSUME NEW s \in Sides, NEW c \in Criteria, a.criteria[c] = s
                 PROVE  FALSE
      BY DEF WinsSome
    <3>1. a.criteria[c] = SwapWinner(a.criteria[c])
      BY <2>1
    <3>. QED  BY <1>1, <3>1 DEF SwapWinner, Sides
  <2>. QED  BY <1>4, <2>2 DEF Outcome, Sides
<1>. QED  BY <1>3, <1>4

\* A judge that looks at the position of the candidates, and not at what they
\* are, does not pass: about a critical pair that one side wins, its answer to
\* AB is never its answer to BA.
THEOREM PositionNeverPasses ==
  ASSUME NEW bundle, NEW sources, NEW external, NEW evidence,
         CalibrationPassed(bundle, sources, external, evidence),
         "outcomes" \in bundle.release.flags,
         NEW p \in Scored(bundle.corpus), Critical(bundle.corpus[p]),
         Outcome(bundle.corpus[p].gold) \in Sides,
         NEW n \in TrialRepetitions(bundle.corpus, p)
  PROVE  evidence.trials[<<p, n, "AB">>].answer # evidence.trials[<<p, n, "BA">>].answer
<1> DEFINE corpus == bundle.corpus
           a == evidence.trials[<<p, n, "AB">>].answer
<1> SUFFICES ASSUME evidence.trials[<<p, n, "BA">>].answer = a
             PROVE  FALSE
  OBVIOUS
<1>1. OutcomeRight(corpus, evidence, p)
  BY DEF CalibrationPassed, CalibrationGates
<1>2. ObservedInTrials(corpus, evidence, p) # Undecided
  BY <1>1 DEF OutcomeRight, ObservedOutcome, Sides
<1>3. p \in DOMAIN corpus
  BY DEF Scored
<1>4. /\ Decided(evidence, p, n, "AB") = ObservedInTrials(corpus, evidence, p)
      /\ Decided(evidence, p, n, "BA") = ObservedInTrials(corpus, evidence, p)
  BY <1>2, <1>3, DecidedAlike DEF Orders
<1>5. a = ObservedInTrials(corpus, evidence, p) /\ Swap(a) = a
  BY <1>4 DEF Decided, Normalized
<1>6. Outcome(a) \in Sides
  BY <1>1, <1>2, <1>5 DEF OutcomeRight, ObservedOutcome
<1>. QED  BY <1>5, <1>6, SameBothWays

----------------------------------------------------------------------------
(* The corpus.                                                             *)

\* The pairs the resolved labels count for side s of criterion c are pairs
\* between two eligible candidates that s wins by c, resolved by the authority
\* against the first reviewer's and another's label, with a basis for c.
Earns(corpus, p, c, s) ==
  LET pair == corpus[p]
  IN /\ Resolved(pair) /\ ByAuthority(pair.gold)
     /\ \A reviewer \in {pair.reviewer_b.reviewer, pair.re_review.reviewer} :
          reviewer # pair.reviewer_a.reviewer
     /\ \A side \in Sides : Eligible(pair.gold.checks[side])
     /\ pair.gold.criteria[c] = s /\ c \notin Unbased(pair)

LEMMA WinsAreEarned ==
  ASSUME NEW corpus, ValidCorpus(corpus), NEW c \in Criteria, NEW s \in Sides,
         NEW p \in WonBy(corpus, c, s)
  PROVE  Earns(corpus, p, c, s)
<1> DEFINE pair == corpus[p]
<1>1. /\ p \in DOMAIN corpus /\ pair.resolution # None
      /\ pair.resolution.criteria # NotApplicable /\ pair.resolution.criteria[c] = s
  BY DEF WonBy, Labelled
<1>2. Adjudicated(pair)
  BY <1>1 DEF ValidCorpus, ValidPair
<1>3. Resolved(pair)
  BY <1>1, <1>2 DEF Adjudicated, Resolved
<1>4. /\ ScoringLabel(pair, pair.gold) /\ ByAuthority(pair.gold)
      /\ pair.gold.criteria = pair.resolution.criteria
  BY <1>2, <1>3 DEF Adjudicated, SameSemantics
<1>5. \A label \in {pair.reviewer_b, pair.re_review} :
        label.reviewer # pair.reviewer_a.reviewer
  BY <1>2, <1>3 DEF Adjudicated, Resolved
<1>6. \A side \in Sides : Eligible(pair.gold.checks[side])
  BY <1>1, <1>4 DEF ScoringLabel, WellFormed
<1>7. c \notin Unbased(pair)
  BY <1>1, <1>4 DEF ScoringLabel, Sides
<1>. QED  BY <1>1, <1>3, <1>4, <1>5, <1>6, <1>7 DEF Earns

\* A criterion that may decide in production was decided by the corpus: for
\* both sides, or often enough for the one it was decided for (criterion_support
\* and the support a valid release declares).
THEOREM DecisiveIsEarned ==
  ASSUME CorpusAssumption,
         NEW bundle, NEW sources, NEW external, ValidRelease(bundle, sources, external),
         ValidCorpus(bundle.corpus), IsFiniteSet(DOMAIN bundle.corpus),
         NEW c \in Criteria, bundle.release.support[c].decisive
  PROVE  \/ \A s \in Sides : \E p \in DOMAIN bundle.corpus : Earns(bundle.corpus, p, c, s)
         \/ \E s \in Sides : \E P \in SUBSET DOMAIN bundle.corpus :
              /\ Cardinality(P) >= CorpusPolicy.oneSided
              /\ \A p \in P : Earns(bundle.corpus, p, c, s)
<1> DEFINE corpus == bundle.corpus
           W(s) == WonBy(corpus, c, s)
<1>1. ProductionDecisive(corpus, c)
  BY DEF ValidRelease, CriterionSupport
<1>2. \A s \in Sides : W(s) \subseteq DOMAIN corpus /\ \A p \in W(s) : Earns(corpus, p, c, s)
  BY WinsAreEarned DEF WonBy, Labelled
<1>3. CASE Support(corpus, c) = "bidirectional"
  <2>1. \A s \in Sides : W(s) # {}
    BY <1>3 DEF Support
  <2>. QED  BY <1>2, <2>1
<1>4. CASE /\ Support(corpus, c) = "one-sided"
           /\ Cardinality(W("A")) + Cardinality(W("B")) >= CorpusPolicy.oneSided
  <2>1. \E s \in Sides : W(s) = {}
    BY <1>4 DEF Support
  <2>2. PICK s \in Sides : W(Opposite(s)) = {} /\ Opposite(s) \in Sides
    BY <2>1 DEF Opposite, Sides
  <2>3. Cardinality(W(Opposite(s))) = 0
    BY <2>2, FS_EmptySet
  <2>4. \A t \in Sides : Cardinality(W(t)) \in Nat
    BY <1>2, FS_Subset, FS_CardinalityType
  <2>5. CorpusPolicy.oneSided \in Nat
    BY DEF CorpusAssumption, ValidPolicy
  <2>6. \/ s = "A" /\ Opposite(s) = "B"
        \/ s = "B" /\ Opposite(s) = "A"
    BY DEF Opposite, Sides
  <2>7. Cardinality(W(s)) + Cardinality(W(Opposite(s))) >= CorpusPolicy.oneSided
    <3>. HIDE DEF W
    <3>1. Cardinality(W("A")) \in Nat /\ Cardinality(W("B")) \in Nat
      BY <2>4 DEF Sides
    <3>. QED  BY <1>4, <2>6, <3>1
  <2>8. Cardinality(W(s)) >= CorpusPolicy.oneSided
    BY <2>3, <2>4, <2>5, <2>7
  <2>. QED  BY <1>2, <2>8
<1>. QED  BY <1>1, <1>3, <1>4 DEF ProductionDecisive

----------------------------------------------------------------------------
(* Release and certification.                                              *)

\* A release that was locked is valid on the files and the sources it was
\* locked on, in every mode, as soon as the rubric lets those criteria decide
\* that the labels support (_release of lock_release.py, _validate_release).
THEOREM LockedIsValid ==
  ASSUME NEW inputs, NEW sources, NEW test, NEW judge, NEW args, NEW external,
         ValidRubric(inputs.rubric),
         \A c \in Criteria :
           inputs.rubric[c] # "tie-only" <=> ProductionDecisive(inputs.corpus, c),
         NEW bundle,
         bundle.corpus = inputs.corpus, bundle.rubric = inputs.rubric,
         bundle.artifacts = inputs.artifacts,
         bundle.release = LockedRelease(inputs, sources, test, judge, args)
  PROVE  ValidRelease(bundle, sources, external)
<1> DEFINE locked == bundle.release
<1>1. /\ locked.corpus = bundle.corpus /\ locked.rubric = bundle.rubric
      /\ locked.artifacts = bundle.artifacts /\ locked.sources = sources
  BY DEF LockedRelease
<1>2. ~locked.test => locked.judge = PinnedJudge /\ locked.args = PinnedArgs
  BY DEF LockedRelease
<1>3. /\ locked.limits = Limits /\ locked.calls = Cardinality(TrialKeys(bundle.corpus))
      /\ locked.support = CriterionSupport(bundle.corpus) /\ locked.flags = Flags
  BY DEF LockedRelease
<1>. QED  BY <1>1, <1>2, <1>3 DEF ValidRelease, ArtifactsLocked, SourcesLocked

\* What write_certification writes of evidence it accepts, _load_certification
\* loads, as long as nothing changed and the mode is the same.
THEOREM CertifiedLoads ==
  ASSUME NEW bundle, NEW sources, NEW external, NEW evidence,
         Certifiable(bundle, sources, external, evidence),
         Certification(bundle, external, evidence) # None
  PROVE  Loaded(bundle, sources, external, Certification(bundle, external, evidence), evidence)
<1> DEFINE certification == Certification(bundle, external, evidence)
<1>1. PICK r \in Runtimes(evidence) : Runtimes(evidence) = {r}
  BY DEF Certifiable
<1>2. /\ certification.release = bundle.release /\ certification.evidence = evidence
      /\ certification.result = <<bundle.release, evidence, external>>
      /\ certification.runtime = CHOOSE q \in Runtimes(evidence) : TRUE
  BY DEF Certification
<1>3. certification.runtime \in Runtimes(evidence)
  BY <1>1, <1>2
<1>4. Runtimes(evidence) = {certification.runtime}
  BY <1>1, <1>3
<1>. QED  BY <1>2, <1>4 DEF Loaded

\* A trial ran on the one runtime that a certification of its evidence names.
LEMMA OneRuntime ==
  ASSUME NEW bundle, NEW certification, NEW evidence,
         Runtimes(evidence) = {certification.runtime},
         NEW key \in DOMAIN evidence.trials,
         ValidTrial(bundle, key, evidence.trials[key])
  PROVE  LET trial == evidence.trials[key] IN
         /\ certification.runtime.models = trial.models
         /\ certification.runtime.executable = trial.executable
         /\ certification.runtime.systemd = trial.executor.systemd
         /\ trial.judge = bundle.release.judge
<1> DEFINE trial == evidence.trials[key]
           r == [models |-> trial.models, executable |-> trial.executable,
                 systemd |-> trial.executor.systemd]
<1>1. r \in Runtimes(evidence)
  BY DEF Runtimes, Trials
<1>2. certification.runtime = r
  BY <1>1
<1>3. /\ r.models = trial.models /\ r.executable = trial.executable
      /\ r.systemd = trial.executor.systemd
  OBVIOUS
<1>. QED  BY <1>2, <1>3 DEF ValidTrial

\* A call accepted under a live certification was made as each trial of the
\* calibration was: by the pinned judge, with the models, the executable and
\* the systemd of that trial; and its answer lets no criterion decide that the
\* corpus does not support or the pair has no basis for.
THEOREM CertifiedCallAsCalibrated ==
  ASSUME NEW profile, NEW entry, NEW test, NEW sources, NEW certification, NEW evidence,
         LiveCalibrated(profile, entry, test, sources, certification, evidence),
         NEW pair, NEW call,
         AcceptedCall(CertifiedBundle(profile, test).release, certification, pair, call),
         NEW key \in TrialKeys(profile.corpus)
  PROVE  LET trial == evidence.trials[key] IN
         /\ call.judge = PinnedJudge /\ trial.judge = PinnedJudge
         /\ call.models = trial.models /\ call.executable = trial.executable
         /\ call.systemd = trial.executor.systemd
         /\ call.answer.criteria # NotApplicable =>
              \A c \in Criteria : call.answer.criteria[c] # "tie" =>
                c \notin Unbased(pair) /\ ProductionDecisive(profile.corpus, c)
<1> DEFINE bundle == CertifiedBundle(profile, test)
           trial == evidence.trials[key]
<1>1. ~test /\ ~profile.production.test
  BY DEF LiveCalibrated, ProductionAuthority, ValidProfile
<1>2. bundle.corpus = profile.corpus /\ bundle.release = profile.production
  BY <1>1 DEF CertifiedBundle
<1>3. Loaded(bundle, sources, TRUE, certification, evidence)
  BY DEF LiveCalibrated
<1>4. ValidRelease(bundle, sources, TRUE)
  BY <1>3 DEF Loaded, Certifiable, CalibrationPassed, ValidEvidence
<1>5. bundle.release.judge = PinnedJudge
  BY <1>1, <1>2, <1>4 DEF ValidRelease
<1>6. \A c \in Criteria :
        bundle.release.support[c].decisive = ProductionDecisive(profile.corpus, c)
  BY <1>2, <1>4 DEF ValidRelease, CriterionSupport
<1>7. /\ certification.runtime.models = trial.models
      /\ certification.runtime.executable = trial.executable
      /\ certification.runtime.systemd = trial.executor.systemd
      /\ trial.judge = bundle.release.judge
  <2>1. key \in TrialKeys(bundle.corpus)
    BY <1>2 DEF TrialKeys
  <2>2. /\ ValidEvidence(bundle, sources, TRUE, evidence)
        /\ Runtimes(evidence) = {certification.runtime}
    BY <1>3 DEF Loaded, Certifiable, CalibrationPassed
  <2>3. key \in DOMAIN evidence.trials /\ ValidTrial(bundle, key, trial)
    BY <2>1, <2>2 DEF ValidEvidence
  <2>. HIDE DEF bundle
  <2>. QED  BY <2>2, <2>3, OneRuntime
<1>8. AcceptedCall(bundle.release, certification, pair, call)
  OBVIOUS
<1>9. /\ call.judge = PinnedJudge /\ trial.judge = PinnedJudge
      /\ call.models = trial.models /\ call.executable = trial.executable
      /\ call.systemd = trial.executor.systemd
  BY <1>5, <1>7, <1>8 DEF AcceptedCall
<1>10. call.answer.criteria # NotApplicable =>
         \A c \in Criteria : call.answer.criteria[c] # "tie" =>
           c \notin Unbased(pair) /\ ProductionDecisive(profile.corpus, c)
  BY <1>6, <1>8 DEF AcceptedCall
<1>. QED  BY <1>9, <1>10

----------------------------------------------------------------------------
(* A set of numbers has a least one, and a greatest one if it is bounded.  *)

LEMMA LeastExists ==
  ASSUME NEW S \in SUBSET Nat, S # {}
  PROVE  \E x \in S : \A y \in S : x <= y
<1> DEFINE R == OpToRel(<, Nat)
<1>1. IsWellFoundedOn(R, Nat)
  BY NatLessThanWellFounded
<1>2. PICK x \in S : \A y \in S : ~(<<y, x>> \in R)
  <2>. HIDE DEF R
  <2>. QED  BY <1>1, WFMin
<1>3. \A y \in S : ~(y < x)
  BY <1>2 DEF OpToRel
<1>. QED  BY <1>3

LEMMA MinIsLeast ==
  ASSUME NEW S \in SUBSET Nat, S # {}
  PROVE  Min(S) \in S /\ \A y \in S : Min(S) <= y
BY LeastExists DEF Min

LEMMA MaxIsGreatest ==
  ASSUME NEW n \in Nat, NEW S \in SUBSET (0..n), S # {}
  PROVE  Max(S) \in S /\ \A y \in S : Max(S) >= y
<1> DEFINE below == {n - x : x \in S}
<1>0. \A x \in S : x \in Nat /\ n - x \in Nat
  <2>1. \A x \in 0..n : x \in Nat /\ n - x \in Nat
    OBVIOUS
  <2>. QED  BY <2>1
<1>1. below \in SUBSET Nat /\ below # {}
  BY <1>0
<1>2. PICK b \in below : \A c \in below : b <= c
  <2>. HIDE DEF below
  <2>. QED  BY <1>1, LeastExists
<1>3. PICK x \in S : b = n - x
  BY <1>2
<1>4. \A y \in S : n - y \in below
  OBVIOUS
<1>5. \A y \in S : x >= y
  <2>1. SUFFICES ASSUME NEW y \in S PROVE x >= y
    OBVIOUS
  <2>2. n - x <= n - y
    BY <1>2, <1>3, <1>4
  <2>3. x \in Nat /\ y \in Nat
    BY <1>0
  <2>. QED  BY <2>2, <2>3
<1>. QED  BY <1>3, <1>5 DEF Max

----------------------------------------------------------------------------
(* Sums of money, as numbers of dollars.                                   *)

Dollars(calls) == {d \in calls \X (1..per_call) : d[2] <= d[1].cost}

LEMMA DollarsFinite ==
  ASSUME NEW calls, IsFiniteSet(calls)
  PROVE  /\ IsFiniteSet(Dollars(calls)) /\ Cost(calls) = Cardinality(Dollars(calls))
         /\ Cost(calls) \in Nat
<1>1. IsFiniteSet(1..per_call)
  BY FS_Interval, CollectorAssumption
<1>2. IsFiniteSet(calls \X (1..per_call))
  BY <1>1, FS_Product
<1>3. IsFiniteSet(Dollars(calls))
  BY <1>2, FS_Subset DEF Dollars
<1>4. Cost(calls) = Cardinality(Dollars(calls))
  BY DEF Cost, Dollars
<1>. QED  BY <1>3, <1>4, FS_CardinalityType

LEMMA CostGrows ==
  ASSUME NEW calls, IsFiniteSet(calls), NEW some, some \subseteq calls
  PROVE  IsFiniteSet(some) /\ Cost(some) <= Cost(calls)
<1>1. IsFiniteSet(some)
  BY FS_Subset
<1>2. Dollars(some) \subseteq Dollars(calls)
  BY DEF Dollars
<1>. QED  BY <1>1, <1>2, DollarsFinite, FS_Subset

LEMMA CostOfNone == Cost({}) = 0
<1>1. Dollars({}) = {}
  BY DEF Dollars
<1>. QED  BY <1>1, DollarsFinite, FS_EmptySet

LEMMA UpToFinite ==
  ASSUME NEW n \in Nat
  PROVE  IsFiniteSet(1..n) /\ Cardinality(1..n) = n
BY FS_Interval

\* One more trial adds at most its cost.
LEMMA CostAdds ==
  ASSUME NEW calls, IsFiniteSet(calls), NEW t, t.cost \in Nat
  PROVE  /\ IsFiniteSet(calls \cup {t})
         /\ Cost(calls \cup {t}) <= Cost(calls) + t.cost
<1> DEFINE its == {t} \X (1..t.cost)
<1>1. IsFiniteSet({t}) /\ Cardinality({t}) = 1
  BY FS_Singleton
<1>2. IsFiniteSet(1..t.cost) /\ Cardinality(1..t.cost) = t.cost
  BY UpToFinite
<1>3. IsFiniteSet(its) /\ Cardinality(its) = 1 * t.cost
  BY <1>1, <1>2, FS_Product
<1>4. IsFiniteSet(calls \cup {t})
  BY FS_AddElement
<1>5. Dollars(calls \cup {t}) \subseteq Dollars(calls) \cup its
  BY DEF Dollars
<1>6. IsFiniteSet(Dollars(calls)) /\ Cost(calls) = Cardinality(Dollars(calls))
  BY DollarsFinite
<1>. HIDE DEF its
<1>7. /\ IsFiniteSet(Dollars(calls) \cup its)
      /\ Cardinality(Dollars(calls) \cup its)
           = Cardinality(Dollars(calls)) + Cardinality(its) - Cardinality(Dollars(calls) \cap its)
  BY <1>3, <1>6, FS_Union
<1>8. IsFiniteSet(Dollars(calls) \cap its) /\ Cardinality(Dollars(calls) \cap its) \in Nat
  <2>1. (Dollars(calls) \cap its) \subseteq its
    OBVIOUS
  <2>. QED  BY <2>1, <1>3, FS_Subset, FS_CardinalityType
<1>9. Cost(calls \cup {t}) <= Cardinality(Dollars(calls) \cup its)
  <2>1. Cardinality(Dollars(calls \cup {t})) <= Cardinality(Dollars(calls) \cup its)
    BY <1>5, <1>7, FS_Subset
  <2>. QED  BY <1>4, <2>1, DollarsFinite
<1>10. Cost(calls \cup {t}) \in Nat /\ Cost(calls) \in Nat
  BY <1>4, DollarsFinite
<1>. QED  BY <1>3, <1>4, <1>6, <1>7, <1>8, <1>9, <1>10

Entries == [ev : {"reserve", "reconcile", "forfeit"}, id : AttemptIds, usd : Usd]

LEMMA ClosesAreEntries ==
  ASSUME NEW j \in Seq(Entries), NEW id, NEW evs
  PROVE  Of(j, id, evs) \subseteq Entries
BY DEF Of

LEMMA ChargeCovers ==
  ASSUME NEW j \in Seq(Entries), NEW id, NEW usd \in Nat,
         IF Closes(j, id) = {}
           THEN \E r \in Of(j, id, {"reserve"}) : r.usd >= usd
           ELSE \E r \in Closes(j, id) : r.usd >= usd
  PROVE  ChargeOf(j, id) \in Nat /\ ChargeOf(j, id) >= usd
<1> DEFINE lines == IF Closes(j, id) # {} THEN Closes(j, id) ELSE Of(j, id, {"reserve"})
           amounts == {r.usd : r \in lines}
<1>1. PICK r \in lines : r.usd >= usd
  OBVIOUS
<1>2. lines \subseteq Entries
  BY ClosesAreEntries DEF Closes
<1>3. amounts \in SUBSET (0..per_call) /\ amounts # {}
  BY <1>1, <1>2 DEF Entries, Usd
<1>4. r.usd \in amounts
  BY <1>1
<1>5. lines # {} /\ ChargeOf(j, id) = Max(amounts)
  <2>1. ChargeOf(j, id) = IF lines = {} THEN 0 ELSE Max(amounts)
    BY DEF ChargeOf
  <2>. QED  BY <2>1, <1>1
<1>6. Max(amounts) \in amounts /\ \A y \in amounts : Max(amounts) >= y
  <2>. HIDE DEF amounts
  <2>. QED  BY <1>3, MaxIsGreatest, CollectorAssumption
<1>7. Max(amounts) \in 0..per_call /\ r.usd \in 0..per_call
  <2>. HIDE DEF amounts
  <2>. QED  BY <1>3, <1>4, <1>6
<1>. HIDE DEF amounts
<1>. QED  BY <1>1, <1>4, <1>5, <1>6, <1>7, CollectorAssumption

\* The trial's own records: its reservation in full, and nothing below its cost.
AccountedFor(j, t) ==
  /\ \E r \in Of(j, t.id, {"reserve"}) : r.usd = per_call
  /\ \A r \in Closes(j, t.id) : r.usd >= t.cost

\* The trials of the checkpoint that was brought along.
Brought == {t \in paid : t.id \in Keys}

OnePerKey(calls) == \A t, u \in calls : t.key = u.key => t = u

Appending == {"restoreReserve", "restoreClose", "reserve", "reconcile", "forfeit"}

CollectorTypes ==
  /\ journal \in Seq(Entries)
  /\ checkpoint \subseteq PaidTrials /\ paid \subseteq PaidTrials
  /\ pc \in [Collectors -> Pcs]
  /\ step \in [Collectors -> {"none", "inspect", "write", "attest"}]
  /\ pending \in [Collectors -> Entries \cup {NoRecord}]
  /\ trials \in [Collectors -> SUBSET PaidTrials]
  /\ todo \in [Collectors -> SUBSET PaidTrials]
  /\ job \in [Collectors -> PaidTrials \cup {NoTrial}]
  /\ spent \in [Collectors -> 0..run_max_usd]
  /\ identity \in [Collectors -> Nat \cup {NoFile}]
  /\ snapshot \in [Collectors -> SUBSET PaidTrials]
  /\ starts \in Nat /\ shared \in BOOLEAN /\ partial \in BOOLEAN

\* What collector k has before it fits where it stands.
Standing(k) ==
  /\ (step[k] # "none") = (pc[k] \in Appending)
  /\ step[k] = "attest" => \E n \in 1..Len(journal) : journal[n] = pending[k]
  /\ identity[k] \in 0..Len(journal) \cup {NoFile}
  /\ pc[k] \in {"restoreReserve", "reserve"}
       => pending[k] = [ev |-> "reserve", id |-> job[k].id, usd |-> per_call]
  /\ pc[k] \in {"restoreClose", "reconcile"}
       => pending[k] = [ev |-> "reconcile", id |-> job[k].id, usd |-> job[k].cost]
  /\ pc[k] = "forfeit"
       => pending[k] = [ev |-> "forfeit", id |-> job[k].id, usd |-> per_call]
  /\ pc[k] \in {"restoreReserve", "restoreClose"}
       => job[k] \in todo[k] /\ spent[k] + job[k].cost <= run_max_usd
  /\ pc[k] \in {"reserve", "call", "reconcile"} => spent[k] + per_call <= run_max_usd

\* Its evidence is calls that were made, all it found among them, one a key.
Holding(k) ==
  /\ todo[k] \subseteq trials[k] /\ trials[k] \subseteq paid /\ OnePerKey(trials[k])
  /\ pc[k] # "off" => Brought \subseteq trials[k]
  /\ todo[k] \subseteq Brought
  /\ pc[k] \notin {"restore", "restoreReserve", "restoreClose"} => todo[k] = {}

\* The trial it works on is one it misses, under an id of its own.
Working(k) ==
  /\ pc[k] \in {"reserve", "call", "reconcile", "forfeit", "validate"}
       => job[k] \in PaidTrials /\ job[k].id \notin Keys /\ job[k].key \in Missing(k)
  /\ pc[k] \in {"reserve", "call"}
       => /\ \A t \in paid : t.id # job[k].id
          /\ Closes(journal, job[k].id) = {}
  /\ pc[k] = "call" => \E r \in Of(journal, job[k].id, {"reserve"}) : r.usd = per_call
  /\ pc[k] \in {"reconcile", "validate"} => job[k] \in paid

\* What it read before it evaluates accounts for all that was paid by then.
Evaluating(k) ==
  /\ pc[k] = "evaluate"
       => \A t \in snapshot[k] : t.id \in Keys \/ AccountedFor(CopiedRecords(k), t)
  /\ pc[k] \in {"evaluate", "publish"}
       => trials[k] \subseteq snapshot[k] /\ snapshot[k] \subseteq paid /\ Missing(k) = {}
  /\ pc[k] = "publish" => Cost(snapshot[k]) <= spent[k]

Own(k) == Standing(k) /\ Holding(k) /\ Working(k) /\ Evaluating(k)

\* At work on a trial under an id that is not in the checkpoint it began with.
Calling == {"reserve", "call", "reconcile", "forfeit"}

\* No two calls share an id, and the journal accounts for all that are new.
Calls ==
  /\ \A t, u \in paid : t.id = u.id => t = u
  /\ Brought \subseteq checkpoint /\ checkpoint \subseteq paid /\ OnePerKey(checkpoint)
  /\ \A t \in paid : t.id \in Keys \/ AccountedFor(journal, t)
  /\ \A k, l \in Collectors :
       k # l /\ pc[k] \in Calling /\ pc[l] \in Calling => job[k].id # job[l].id

\* While no two have run at once: its evidence is the checkpoint, but for the
\* trial it is about to add, and that is all a start has paid for.
AloneFor(k) ==
  /\ pc[k] \notin {"off", "sync", "checkpoint"} => trials[k] = checkpoint
  /\ pc[k] \in {"sync", "checkpoint"}
       => trials[k] = checkpoint \cup {job[k]} /\ job[k] \notin checkpoint
  /\ pc[k] \notin {"off", "reconcile", "forfeit", "validate", "sync", "checkpoint"}
       => Cardinality(paid) + 1 <= Cardinality(checkpoint) + starts

Alone ==
  /\ \A k, l \in Collectors : pc[k] # "off" /\ pc[l] # "off" => k = l
  /\ \A k \in Collectors : AloneFor(k)

\* What the append it waits for, or the forfeit after it, will charge.
Uncharged(k) ==
  IF pc[k] = "reconcile" THEN job[k].cost ELSE IF pc[k] = "forfeit" THEN per_call ELSE 0

\* And while none ended before it had restored: the journal, or what is spent
\* and still to be restored, accounts for all that was paid.
RestoringFor(k) ==
  pc[k] \notin {"off", "ledger"} =>
    /\ \A t \in Brought : Bound(journal, t) \/ t \in todo[k]
    /\ Cost(paid \ todo[k]) <= spent[k] + Uncharged(k)

Restoring ==
  /\ \/ journal = <<>>
     \/ \A t \in Brought : Bound(journal, t) \/ \E k \in Collectors : t \in todo[k]
  /\ \A k \in Collectors : RestoringFor(k)

CollectorInv ==
  /\ CollectorTypes
  /\ \A k \in Collectors : Own(k)
  /\ Calls
  /\ EvidenceCoversSpend
  /\ shared \/ Alone
  /\ shared \/ partial \/ Restoring
  /\ CeilingHoldsAlone
  /\ PaidIsKept

----------------------------------------------------------------------------
(* The journal grows: what it says of a trial stays said.                  *)

LEMMA OfAppend ==
  ASSUME NEW j \in Seq(Entries), NEW r \in Entries, NEW id, NEW evs
  PROVE  /\ Append(j, r) \in Seq(Entries)
         /\ \A x : x \in Of(Append(j, r), id, evs)
              <=> x \in Of(j, id, evs) \/ (x = r /\ r.id = id /\ r.ev \in evs)
<1>1. /\ Len(Append(j, r)) = Len(j) + 1 /\ Append(j, r)[Len(j) + 1] = r
      /\ \A n \in 1..Len(j) : Append(j, r)[n] = j[n]
      /\ Append(j, r) \in Seq(Entries)
  OBVIOUS
<1>2. Len(j) \in Nat
  OBVIOUS
<1>3. \A n \in 1..Len(j) : n \in 1..(Len(j) + 1)
  BY <1>2
<1>4. \A n \in 1..(Len(j) + 1) : n \in 1..Len(j) \/ n = Len(j) + 1
  BY <1>2
<1>5. Len(j) + 1 \in 1..(Len(j) + 1)
  BY <1>2
<1>. QED  BY <1>1, <1>3, <1>4, <1>5 DEF Of

LEMMA AccountStays ==
  ASSUME NEW j \in Seq(Entries), NEW r \in Entries, NEW t, AccountedFor(j, t),
         r.id = t.id /\ r.ev \in {"reconcile", "forfeit"} => r.usd >= t.cost
  PROVE  AccountedFor(Append(j, r), t)
BY OfAppend DEF AccountedFor, Closes

LEMMA BoundStays ==
  ASSUME NEW j \in Seq(Entries), NEW r \in Entries, NEW t, Bound(j, t)
  PROVE  Bound(Append(j, r), t)
BY OfAppend DEF Bound

LEMMA OfEmpty ==
  ASSUME NEW id, NEW evs
  PROVE  Of(<<>>, id, evs) = {}
BY DEF Of

LEMMA OfNth ==
  ASSUME NEW j \in Seq(Entries), NEW n \in 1..Len(j), NEW evs, j[n].ev \in evs
  PROVE  j[n] \in Of(j, j[n].id, evs)
BY DEF Of

\* Calls that share no id are as many as there are ids, at most.
LEMMA CallsAreFinite ==
  ASSUME NEW calls \in SUBSET PaidTrials, \A t, u \in calls : t.id = u.id => t = u
  PROVE  IsFiniteSet(calls)
<1> DEFINE ids == [t \in calls |-> t.id]
<1>1. IsFiniteSet(AttemptIds)
  <2>1. N * (MaxStarts + 1) \in Int
    BY CollectorAssumption
  <2>. QED  BY <2>1, FS_Interval DEF AttemptIds
<1>2. ids \in Injection(calls, AttemptIds)
  BY DEF Injection, IsInjective, PaidTrials
<1>. QED  BY <1>1, <1>2, FS_Injection

\* A journal that accounts for every one of some calls charges what they cost.
LEMMA AccountedIsCharged ==
  ASSUME NEW j \in Seq(Entries), NEW calls \in SUBSET PaidTrials,
         \A t, u \in calls : t.id = u.id => t = u,
         \A t \in calls : Bound(j, t) \/ AccountedFor(j, t)
  PROVE  IsFiniteSet(calls) /\ Cost(calls) <= Charged(j)
<1> DEFINE charges == {d \in AttemptIds \X (1..per_call) : d[2] <= ChargeOf(j, d[1])}
           its == [d \in Dollars(calls) |-> <<d[1].id, d[2]>>]
<1>1. IsFiniteSet(AttemptIds) /\ IsFiniteSet(1..per_call)
  <2>1. N * (MaxStarts + 1) \in Int
    BY CollectorAssumption
  <2>. QED  BY <2>1, FS_Interval, CollectorAssumption DEF AttemptIds
<1>2. IsFiniteSet(calls)
  BY CallsAreFinite
<1>3. IsFiniteSet(charges) /\ Charged(j) = Cardinality(charges)
  <2>1. IsFiniteSet(AttemptIds \X (1..per_call))
    BY <1>1, FS_Product
  <2>. QED  BY <2>1, FS_Subset DEF Charged
<1>4. \A t \in calls : ChargeOf(j, t.id) \in Nat /\ ChargeOf(j, t.id) >= t.cost
  <2>1. SUFFICES ASSUME NEW t \in calls
                 PROVE  ChargeOf(j, t.id) \in Nat /\ ChargeOf(j, t.id) >= t.cost
    OBVIOUS
  <2>2. t.cost \in Nat /\ t.cost <= per_call
    BY CollectorAssumption DEF PaidTrials, Usd
  <2>3. Closes(j, t.id) # {} => \E r \in Closes(j, t.id) : r.usd >= t.cost
    <3>1. CASE AccountedFor(j, t)
      BY <3>1 DEF AccountedFor
    <3>2. CASE Bound(j, t)
      <4>1. PICK r \in Of(j, t.id, {"reconcile"}) : r.usd = t.cost
        BY <3>2 DEF Bound
      <4>2. r \in Closes(j, t.id)
        BY DEF Closes, Of
      <4>. QED  BY <4>1, <4>2, <2>2
    <3>. QED  BY <3>1, <3>2
  <2>4. Closes(j, t.id) = {} => \E r \in Of(j, t.id, {"reserve"}) : r.usd >= t.cost
    <3>1. Bound(j, t) => Closes(j, t.id) # {}
      BY DEF Bound, Closes, Of
    <3>2. AccountedFor(j, t) => \E r \in Of(j, t.id, {"reserve"}) : r.usd >= t.cost
      BY <2>2, CollectorAssumption DEF AccountedFor
    <3>. QED  BY <3>1, <3>2
  <2>. QED  BY <2>2, <2>3, <2>4, ChargeCovers
<1>5. its \in Injection(Dollars(calls), charges)
  <2>1. \A d \in Dollars(calls) : <<d[1].id, d[2]>> \in charges
    <3>1. SUFFICES ASSUME NEW d \in Dollars(calls)
                   PROVE  <<d[1].id, d[2]>> \in charges
      OBVIOUS
    <3>2. /\ d[1] \in calls /\ d[1].id \in AttemptIds /\ d[2] \in 1..per_call
          /\ d[2] <= d[1].cost /\ d[1].cost \in Nat /\ d[2] \in Nat
      BY CollectorAssumption DEF Dollars, PaidTrials, Usd
    <3>3. d[2] <= ChargeOf(j, d[1].id)
      BY <3>2, <1>4
    <3>. QED  BY <3>2, <3>3
  <2>2. \A d, e \in Dollars(calls) : its[d] = its[e] => d = e
    BY DEF Dollars
  <2>. HIDE DEF charges
  <2>. QED  BY <2>1, <2>2 DEF Injection, IsInjective
<1>6. Cardinality(Dollars(calls)) <= Cardinality(charges)
  <2>. HIDE DEF its, charges
  <2>. QED  BY <1>3, <1>5, FS_Injection
<1>. HIDE DEF charges
<1>. QED  BY <1>2, <1>3, <1>6, DollarsFinite

LEMMA ChargedIsNatural ==
  ASSUME NEW j
  PROVE  Charged(j) \in Nat
<1>1. IsFiniteSet(AttemptIds) /\ IsFiniteSet(1..per_call)
  <2>1. N * (MaxStarts + 1) \in Int
    BY CollectorAssumption
  <2>. QED  BY <2>1, FS_Interval, CollectorAssumption DEF AttemptIds
<1>2. IsFiniteSet(AttemptIds \X (1..per_call))
  BY <1>1, FS_Product
<1>. QED  BY <1>2, FS_Subset, FS_CardinalityType DEF Charged

\* The amounts that occur are amounts.
LEMMA Ranges ==
  /\ N \in Nat /\ per_call \in Nat /\ per_call # 0 /\ run_max_usd \in Nat /\ MaxStarts \in Nat
  /\ per_call \in Usd /\ 0 \in Usd /\ Usd \subseteq Nat
  /\ \A c \in Usd : c <= per_call
  /\ Keys \subseteq AttemptIds /\ AttemptIds \subseteq Nat /\ 0 \notin AttemptIds
<1>1. /\ N \in Nat /\ per_call \in Nat /\ per_call # 0 /\ run_max_usd \in Nat
      /\ MaxStarts \in Nat
  BY CollectorAssumption
<1>2. per_call \in Usd /\ 0 \in Usd /\ Usd \subseteq Nat /\ \A c \in Usd : c <= per_call
  BY <1>1 DEF Usd
<1>3. N * (MaxStarts + 1) \in Nat /\ N <= N * (MaxStarts + 1)
  <2>1. N * (MaxStarts + 1) = N * MaxStarts + N
    BY <1>1
  <2>2. N * MaxStarts \in Nat
    BY <1>1
  <2>. QED  BY <1>1, <2>1, <2>2
<1>4. Keys \subseteq AttemptIds /\ AttemptIds \subseteq Nat /\ 0 \notin AttemptIds
  BY <1>1, <1>3 DEF Keys, AttemptIds
<1>. QED  BY <1>1, <1>2, <1>4

----------------------------------------------------------------------------
(* The collectors that do not move.                                        *)

Stays(l) ==
  /\ pc'[l] = pc[l] /\ step'[l] = step[l] /\ pending'[l] = pending[l]
  /\ trials'[l] = trials[l] /\ todo'[l] = todo[l] /\ job'[l] = job[l]
  /\ spent'[l] = spent[l] /\ identity'[l] = identity[l] /\ snapshot'[l] = snapshot[l]

LEMMA StaysWhileQuiet ==
  ASSUME NEW l \in Collectors, Own(l), Stays(l), journal' = journal, paid' = paid
  PROVE  Own(l)'
<1>1. Standing(l)'
  BY DEF Own, Stays, Standing
<1>2. Holding(l)'
  BY DEF Own, Stays, Holding, Brought
<1>3. Working(l)'
  BY DEF Own, Stays, Working, Missing
<1>4. Evaluating(l)'
  <2>1. CopiedRecords(l)' = CopiedRecords(l)
    BY DEF CopiedRecords, Stays
  <2>. QED  BY <2>1 DEF Own, Stays, Evaluating, Missing
<1>. QED  BY <1>1, <1>2, <1>3, <1>4 DEF Own

LEMMA CopyStays ==
  ASSUME NEW j \in Seq(Entries), NEW r \in Entries, NEW n \in 0..Len(j)
  PROVE  SubSeq(Append(j, r), 1, n) = SubSeq(j, 1, n)
OBVIOUS

\* A record that is written does not undo what a collector has, its own
\* append included.
LEMMA KeptWhileWritten ==
  ASSUME NEW l \in Collectors, Own(l), paid' = paid,
         pc'[l] = pc[l], trials'[l] = trials[l], todo'[l] = todo[l], job'[l] = job[l],
         spent'[l] = spent[l], identity'[l] = identity[l], snapshot'[l] = snapshot[l],
         journal \in Seq(Entries), NEW r \in Entries, journal' = Append(journal, r),
         pc[l] \in {"reserve", "call"} /\ r.ev \in {"reconcile", "forfeit"}
           => r.id # job[l].id
  PROVE  Holding(l)' /\ Working(l)' /\ Evaluating(l)'
<1>1. Holding(l)'
  BY DEF Own, Holding, Brought
<1>2. Working(l)'
  <2>1. pc'[l] \in {"reserve", "call"} => Closes(journal', job'[l].id) = {}
    BY OfAppend DEF Own, Working, Closes
  <2>2. pc'[l] = "call" => \E x \in Of(journal', job'[l].id, {"reserve"}) : x.usd = per_call
    BY OfAppend DEF Own, Working
  <2>. QED  BY <2>1, <2>2 DEF Own, Working, Missing
<1>3. Evaluating(l)'
  <2>1. CopiedRecords(l)' = CopiedRecords(l)
    BY CopyStays DEF CopiedRecords, Own, Standing
  <2>. QED  BY <2>1 DEF Own, Evaluating, Missing
<1>. QED  BY <1>1, <1>2, <1>3

LEMMA StaysWhileWritten ==
  ASSUME NEW l \in Collectors, Own(l), Stays(l), paid' = paid,
         journal \in Seq(Entries), NEW r \in Entries, journal' = Append(journal, r),
         pc[l] \in {"reserve", "call"} /\ r.ev \in {"reconcile", "forfeit"}
           => r.id # job[l].id
  PROVE  Own(l)'
<1>. /\ Len(journal) \in Nat /\ Len(journal') = Len(journal) + 1
     /\ \A n \in 1..Len(journal) : n \in 1..Len(journal') /\ journal'[n] = journal[n]
  OBVIOUS
<1>1. Standing(l)'
  <2>1. identity'[l] \in 0..Len(journal') \cup {NoFile}
    BY DEF Own, Stays, Standing
  <2>2. step'[l] = "attest" => \E n \in 1..Len(journal') : journal'[n] = pending'[l]
    BY DEF Own, Stays, Standing
  <2>. QED  BY <2>1, <2>2 DEF Own, Stays, Standing
<1>. QED  BY <1>1, KeptWhileWritten DEF Own, Stays

LEMMA StaysWhilePaid ==
  ASSUME NEW l \in Collectors, Own(l), Stays(l), journal' = journal,
         NEW t \in PaidTrials, paid' = paid \cup {t}, t.id \notin Keys,
         pc[l] \in {"reserve", "call"} => t.id # job[l].id
  PROVE  Own(l)'
<1>1. Standing(l)'
  BY DEF Own, Stays, Standing
<1>2. Brought' = Brought
  BY DEF Brought
<1>3. Holding(l)'
  BY <1>2 DEF Own, Stays, Holding
<1>4. Working(l)'
  <2>1. pc'[l] \in {"reserve", "call"} => \A u \in paid' : u.id # job'[l].id
    BY DEF Own, Stays, Working
  <2>. QED  BY <2>1 DEF Own, Stays, Working, Missing
<1>5. Evaluating(l)'
  <2>1. CopiedRecords(l)' = CopiedRecords(l)
    BY DEF CopiedRecords, Stays
  <2>. QED  BY <2>1 DEF Own, Stays, Evaluating, Missing
<1>. QED  BY <1>1, <1>3, <1>4, <1>5 DEF Own

\* A step that leaves the files and what was paid alone, of a collector that
\* had started, keeps what it keeps of its own.
LEMMA QuietStep ==
  ASSUME CollectorInv, NEW k \in Collectors, pc[k] # "off",
         \A l \in Collectors \ {k} : Stays(l),
         UNCHANGED <<journal, checkpoint, paid, accepted, starts, shared>>,
         CollectorTypes', Own(k)', partial => partial',
         pc'[k] \in Calling
           => \/ pc[k] \in Calling /\ job'[k].id = job[k].id
              \/ \A l \in Collectors : job[l].id # job'[k].id,
         ~shared => AloneFor(k)',
         ~shared /\ ~partial'
           => RestoringFor(k)' /\ \A t \in todo[k] : t \in todo'[k] \/ Bound(journal, t)
  PROVE  CollectorInv'
<1>1. \A l \in Collectors : Own(l)'
  BY StaysWhileQuiet DEF CollectorInv
<1>2. Calls'
  <2>1. Brought' = Brought
    BY DEF Brought
  <2>2. \A l, m \in Collectors :
          l # m /\ pc'[l] \in Calling /\ pc'[m] \in Calling => job'[l].id # job'[m].id
    BY DEF CollectorInv, Calls, Stays
  <2>. QED  BY <2>1, <2>2 DEF CollectorInv, Calls, OnePerKey, AccountedFor, Closes, Of
<1>3. EvidenceCoversSpend'
  BY DEF CollectorInv, EvidenceCoversSpend
<1>4. shared' \/ Alone'
  <2>1. SUFFICES ASSUME ~shared PROVE Alone'
    OBVIOUS
  <2>2. Alone
    BY <2>1 DEF CollectorInv
  <2>3. \A l \in Collectors : AloneFor(l)'
    BY <2>1, <2>2 DEF Alone, AloneFor, Stays
  <2>4. \A l, m \in Collectors : pc'[l] # "off" /\ pc'[m] # "off" => l = m
    BY <2>2 DEF Alone, Stays
  <2>. QED  BY <2>3, <2>4 DEF Alone
<1>5. shared' \/ partial' \/ Restoring'
  <2>1. SUFFICES ASSUME ~shared, ~partial' PROVE Restoring'
    OBVIOUS
  <2>2. Restoring
    BY <2>1 DEF CollectorInv
  <2>3. Brought' = Brought
    BY DEF Brought
  <2>4. \A l \in Collectors : RestoringFor(l)'
    <3>1. \A l \in Collectors \ {k} : RestoringFor(l)'
      BY <2>2, <2>3 DEF Restoring, RestoringFor, Stays, Uncharged
    <3>. QED  BY <2>1, <3>1
  <2>5. \/ journal' = <<>>
        \/ \A t \in Brought' : Bound(journal, t) \/ \E l \in Collectors : t \in todo'[l]
    BY <2>1, <2>2, <2>3 DEF Restoring, Stays
  <2>. QED  BY <2>4, <2>5 DEF Restoring
<1>6. CeilingHoldsAlone'
  BY DEF CollectorInv, CeilingHoldsAlone
<1>7. PaidIsKept'
  BY DEF CollectorInv, PaidIsKept
<1>. QED  BY <1>1, <1>2, <1>3, <1>4, <1>5, <1>6, <1>7 DEF CollectorInv

LEMMA PaidIsFinite ==
  ASSUME CollectorInv
  PROVE  IsFiniteSet(paid)
BY CallsAreFinite DEF CollectorInv, CollectorTypes, Calls

\* The trial restored next.
First(calls) == CHOOSE t \in calls : \A u \in calls : t.key <= u.key

LEMMA FirstExists ==
  ASSUME NEW calls \in SUBSET PaidTrials, calls # {}
  PROVE  First(calls) \in calls
<1> DEFINE keys == {t.key : t \in calls}
<1>1. keys \in SUBSET Nat /\ keys # {}
  BY DEF PaidTrials, Keys
<1>2. PICK x \in keys : \A y \in keys : x <= y
  <2>. HIDE DEF keys
  <2>. QED  BY <1>1, LeastExists
<1>3. \E t \in calls : \A u \in calls : t.key <= u.key
  BY <1>2
<1>. QED  BY <1>3 DEF First

LEMMA Amounts ==
  ASSUME CollectorTypes, NEW k \in Collectors
  PROVE  /\ spent[k] \in Nat /\ spent[k] <= run_max_usd
         /\ job[k].cost \in Nat /\ job[k].cost <= per_call
<1>1. spent[k] \in 0..run_max_usd
  BY DEF CollectorTypes
<1>2. job[k].cost \in Usd
  <2>1. \A t \in PaidTrials \cup {NoTrial} : t.cost \in Usd
    BY Ranges DEF PaidTrials, NoTrial
  <2>. QED  BY <2>1 DEF CollectorTypes
<1>3. run_max_usd \in Nat /\ per_call \in Nat
  BY Ranges
<1>. QED  BY <1>1, <1>2, <1>3 DEF Usd

----------------------------------------------------------------------------
(* Every step of a collector keeps the invariant.                          *)

\* An end leaves nothing behind but the files, and says what it left undone.
LEMMA EndsShape ==
  ASSUME CollectorInv, NEW k \in Collectors, Ends(k)
  PROVE  /\ \A l \in Collectors \ {k} : Stays(l)
         /\ pc'[k] = "off" /\ step'[k] = "none" /\ trials'[k] = {} /\ todo'[k] = {}
         /\ identity'[k] = NoFile /\ starts' = starts /\ shared' = shared
         /\ partial' = (partial \/ todo[k] # {})
         /\ pc' \in [Collectors -> Pcs]
         /\ step' \in [Collectors -> {"none", "inspect", "write", "attest"}]
         /\ pending' \in [Collectors -> Entries \cup {NoRecord}]
         /\ trials' \in [Collectors -> SUBSET PaidTrials]
         /\ todo' \in [Collectors -> SUBSET PaidTrials]
         /\ job' \in [Collectors -> PaidTrials \cup {NoTrial}]
         /\ spent' \in [Collectors -> 0..run_max_usd]
         /\ identity' \in [Collectors -> Nat \cup {NoFile}]
         /\ snapshot' \in [Collectors -> SUBSET PaidTrials]
         /\ partial' \in BOOLEAN
<1>. CollectorTypes
  BY DEF CollectorInv
<1>1. /\ \A l \in Collectors \ {k} : Stays(l)
      /\ pc'[k] = "off" /\ step'[k] = "none" /\ trials'[k] = {} /\ todo'[k] = {}
      /\ identity'[k] = NoFile /\ starts' = starts /\ shared' = shared
      /\ partial' = (partial \/ todo[k] # {}) /\ partial' \in BOOLEAN
  BY DEF CollectorTypes, Ends, Goto, Stays
<1>2. /\ pc' \in [Collectors -> Pcs]
      /\ step' \in [Collectors -> {"none", "inspect", "write", "attest"}]
      /\ pending' \in [Collectors -> Entries \cup {NoRecord}]
  BY DEF CollectorTypes, Ends, Goto, Pcs
<1>3. /\ trials' \in [Collectors -> SUBSET PaidTrials]
      /\ todo' \in [Collectors -> SUBSET PaidTrials]
      /\ snapshot' \in [Collectors -> SUBSET PaidTrials]
  BY DEF CollectorTypes, Ends
<1>4. /\ job' \in [Collectors -> PaidTrials \cup {NoTrial}]
      /\ spent' \in [Collectors -> 0..run_max_usd]
      /\ identity' \in [Collectors -> Nat \cup {NoFile}]
  BY Ranges DEF CollectorTypes, Ends
<1>. QED  BY <1>1, <1>2, <1>3, <1>4

LEMMA EndsOwn ==
  ASSUME NEW k \in Collectors, pc'[k] = "off", step'[k] = "none", trials'[k] = {},
         todo'[k] = {}, identity'[k] = NoFile
  PROVE  Own(k)'
BY DEF Own, Standing, Holding, Working, Evaluating, Appending, OnePerKey

LEMMA RaisesKeeps ==
  ASSUME CollectorInv, NEW k \in Collectors, pc[k] # "off", Raises(k)
  PROVE  CollectorInv'
<1>1. Ends(k) /\ UNCHANGED <<journal, checkpoint, paid, accepted>>
  BY DEF Raises, files
<1>2. CollectorTypes'
  BY <1>1, EndsShape DEF CollectorInv, CollectorTypes
<1>3. Own(k)'
  BY <1>1, EndsShape, EndsOwn
<1>4. pc'[k] \notin Calling /\ AloneFor(k)' /\ RestoringFor(k)'
  BY <1>1, EndsShape DEF Calling, AloneFor, RestoringFor
<1>5. (partial => partial') /\ (~partial' => todo[k] = {})
  BY <1>1, EndsShape
<1>6. \A l \in Collectors \ {k} : Stays(l)
  BY <1>1, EndsShape
<1>7. UNCHANGED <<journal, checkpoint, paid, accepted, starts, shared>>
  BY <1>1, EndsShape
<1>. QED  BY <1>2, <1>3, <1>4, <1>5, <1>6, <1>7, QuietStep

LEMMA InspectKeeps ==
  ASSUME CollectorInv, NEW k \in Collectors, Inspect(k)
  PROVE  CollectorInv'
<1>. CollectorTypes /\ Own(k)
  BY DEF CollectorInv
<1>g. /\ step[k] = "inspect" /\ pc[k] # "off"
  BY DEF Inspect, Own, Standing, Appending
<1>u. /\ step' = [step EXCEPT ![k] = "write"]
      /\ UNCHANGED <<pc, pending, trials, todo, job, spent, identity, snapshot>>
  BY <1>g DEF Inspect, files, append, memory, history
<1>3. /\ step[k] = "inspect" /\ pc[k] # "off" /\ pc'[k] = pc[k] /\ step'[k] = "write"
      /\ pending'[k] = pending[k] /\ trials'[k] = trials[k] /\ todo'[k] = todo[k]
      /\ job'[k] = job[k] /\ spent'[k] = spent[k] /\ identity'[k] = identity[k]
      /\ snapshot'[k] = snapshot[k]
  BY <1>g, <1>u DEF CollectorTypes
<1>4. UNCHANGED <<journal, checkpoint, paid, accepted, starts, shared, partial>>
  BY DEF Inspect, files, append, memory, history
<1>5. \A l \in Collectors \ {k} : Stays(l)
  BY <1>u DEF CollectorTypes, Stays
<1>6. CollectorTypes'
  <2>1. "write" \in {"none", "inspect", "write", "attest"}
    OBVIOUS
  <2>. QED  BY <2>1, <1>u, <1>4 DEF CollectorTypes
<1>7. Standing(k)'
  BY <1>3, <1>4 DEF Own, Standing, Appending
<1>8. Holding(k)'
  BY <1>3, <1>4 DEF Own, Holding, Brought
<1>9. Working(k)'
  BY <1>3, <1>4 DEF Own, Working, Missing
<1>10. Evaluating(k)'
  BY <1>3, <1>4 DEF Own, Evaluating, Missing, CopiedRecords
<1>11. pc'[k] \in Calling
         => \/ pc[k] \in Calling /\ job'[k].id = job[k].id
            \/ \A l \in Collectors : job[l].id # job'[k].id
  BY <1>3 DEF Calling
<1>12. ~shared => AloneFor(k)'
  BY <1>3, <1>4 DEF CollectorInv, Alone, AloneFor
<1>13. ~shared /\ ~partial'
         => RestoringFor(k)' /\ \A t \in todo[k] : t \in todo'[k] \/ Bound(journal, t)
  BY <1>3, <1>4 DEF CollectorInv, Restoring, RestoringFor, Uncharged, Brought
<1>. QED
  BY <1>3, <1>4, <1>5, <1>6, <1>7, <1>8, <1>9, <1>10, <1>11, <1>12, <1>13, QuietStep DEF Own

LEMMA RestoreReservedKeeps ==
  ASSUME CollectorInv, NEW k \in Collectors, RestoreReserved(k)
  PROVE  CollectorInv'
<1>. CollectorTypes /\ Own(k)
  BY DEF CollectorInv
<1>g. /\ step[k] = "attest" /\ pc[k] = "restoreReserve"
  BY DEF RestoreReserved, Begin, Goto, files, append, memory, history
<1>u. /\ pc' = [pc EXCEPT ![k] = "restoreClose"] /\ step' = [step EXCEPT ![k] = "inspect"]
      /\ pending' = [pending EXCEPT ![k] = [ev |-> "reconcile", id |-> job[k].id, usd |-> job[k].cost]]
      /\ identity' = [identity EXCEPT ![k] = Len(journal)]
      /\ UNCHANGED <<trials, todo, job, spent, snapshot>>
  BY <1>g DEF RestoreReserved, Begin, Goto, files, append, memory, history
<1>3. /\ step[k] = "attest" /\ pc[k] = "restoreReserve" /\ pc'[k] = "restoreClose"
      /\ step'[k] = "inspect"
      /\ pending'[k] = [ev |-> "reconcile", id |-> job[k].id, usd |-> job[k].cost]
      /\ trials'[k] = trials[k] /\ todo'[k] = todo[k] /\ job'[k] = job[k]
      /\ spent'[k] = spent[k] /\ identity'[k] = Len(journal) /\ snapshot'[k] = snapshot[k]
  BY <1>g, <1>u DEF CollectorTypes
<1>4. UNCHANGED <<journal, checkpoint, paid, accepted, starts, shared, partial>>
  BY DEF RestoreReserved, Begin, Goto, files, append, memory, history
<1>5. \A l \in Collectors \ {k} : Stays(l)
  BY <1>u DEF CollectorTypes, Stays
<1>a. job[k] \in PaidTrials
  BY <1>3 DEF CollectorTypes, Own, Standing
<1>6. CollectorTypes'
  <2>1. "restoreClose" \in Pcs
    BY DEF Pcs
  <2>2. "inspect" \in {"none", "inspect", "write", "attest"}
    OBVIOUS
  <2>3. [ev |-> "reconcile", id |-> job[k].id, usd |-> job[k].cost] \in Entries \cup {NoRecord}
    BY <1>a DEF PaidTrials, Entries
  <2>4. Len(journal) \in Nat \cup {NoFile}
    BY <1>3, Ranges, CollectorAssumption DEF CollectorTypes
  <2>. QED  BY <2>1, <2>2, <2>3, <2>4, <1>u, <1>4 DEF CollectorTypes
<1>7. Standing(k)'
  BY <1>3, <1>4 DEF Own, Standing, Appending
<1>8. Holding(k)'
  BY <1>3, <1>4 DEF Own, Holding, Brought
<1>9. Working(k)'
  BY <1>3, <1>4 DEF Own, Working, Missing
<1>10. Evaluating(k)'
  BY <1>3, <1>4 DEF Own, Evaluating, Missing, CopiedRecords
<1>11. pc'[k] \in Calling
         => \/ pc[k] \in Calling /\ job'[k].id = job[k].id
            \/ \A l \in Collectors : job[l].id # job'[k].id
  BY <1>3 DEF Calling
<1>12. ~shared => AloneFor(k)'
  BY <1>3, <1>4 DEF CollectorInv, Alone, AloneFor
<1>13. ~shared /\ ~partial'
         => RestoringFor(k)' /\ \A t \in todo[k] : t \in todo'[k] \/ Bound(journal, t)
  BY <1>3, <1>4 DEF CollectorInv, Restoring, RestoringFor, Uncharged, Brought
<1>. QED
  BY <1>3, <1>4, <1>5, <1>6, <1>7, <1>8, <1>9, <1>10, <1>11, <1>12, <1>13, QuietStep DEF Own

LEMMA ReservedKeeps ==
  ASSUME CollectorInv, NEW k \in Collectors, Reserved(k)
  PROVE  CollectorInv'
<1>. CollectorTypes /\ Own(k)
  BY DEF CollectorInv
<1>g. /\ step[k] = "attest" /\ pc[k] = "reserve"
  BY DEF Reserved, Appended, Goto, files, append, memory, history
<1>u. /\ pc' = [pc EXCEPT ![k] = "call"] /\ step' = [step EXCEPT ![k] = "none"]
      /\ pending' = [pending EXCEPT ![k] = NoRecord]
      /\ identity' = [identity EXCEPT ![k] = Len(journal)]
      /\ UNCHANGED <<trials, todo, job, spent, snapshot>>
  BY <1>g DEF Reserved, Appended, Goto, files, append, memory, history
<1>3. /\ step[k] = "attest" /\ pc[k] = "reserve" /\ pc'[k] = "call" /\ step'[k] = "none"
      /\ pending'[k] = NoRecord /\ trials'[k] = trials[k] /\ todo'[k] = todo[k]
      /\ job'[k] = job[k] /\ spent'[k] = spent[k] /\ identity'[k] = Len(journal)
      /\ snapshot'[k] = snapshot[k]
  BY <1>g, <1>u DEF CollectorTypes
<1>4. UNCHANGED <<journal, checkpoint, paid, accepted, starts, shared, partial>>
  BY DEF Reserved, Appended, Goto, files, append, memory, history
<1>5. \A l \in Collectors \ {k} : Stays(l)
  BY <1>u DEF CollectorTypes, Stays
<1>6. CollectorTypes'
  <2>1. "call" \in Pcs
    BY DEF Pcs
  <2>2. "none" \in {"none", "inspect", "write", "attest"}
    OBVIOUS
  <2>3. NoRecord \in Entries \cup {NoRecord}
    OBVIOUS
  <2>4. Len(journal) \in Nat \cup {NoFile}
    BY <1>3, Ranges, CollectorAssumption DEF CollectorTypes
  <2>. QED  BY <2>1, <2>2, <2>3, <2>4, <1>u, <1>4 DEF CollectorTypes
<1>7. Standing(k)'
  BY <1>3, <1>4 DEF Own, Standing, Appending
<1>8. Holding(k)'
  BY <1>3, <1>4 DEF Own, Holding, Brought
<1>9. Working(k)'
  <2>1. PICK n \in 1..Len(journal) : journal[n] = pending[k]
    BY <1>3 DEF Own, Standing
  <2>2. pending[k] = [ev |-> "reserve", id |-> job[k].id, usd |-> per_call]
    BY <1>3 DEF Own, Standing
  <2>3. pending[k] \in Of(journal, job[k].id, {"reserve"})
    BY <2>1, <2>2 DEF Of
  <2>. QED  BY <1>3, <1>4, <2>2, <2>3 DEF Own, Working, Missing
<1>10. Evaluating(k)'
  BY <1>3, <1>4 DEF Own, Evaluating, Missing, CopiedRecords
<1>11. pc'[k] \in Calling
         => \/ pc[k] \in Calling /\ job'[k].id = job[k].id
            \/ \A l \in Collectors : job[l].id # job'[k].id
  BY <1>3 DEF Calling
<1>12. ~shared => AloneFor(k)'
  BY <1>3, <1>4 DEF CollectorInv, Alone, AloneFor
<1>13. ~shared /\ ~partial'
         => RestoringFor(k)' /\ \A t \in todo[k] : t \in todo'[k] \/ Bound(journal, t)
  BY <1>3, <1>4 DEF CollectorInv, Restoring, RestoringFor, Uncharged, Brought
<1>. QED
  BY <1>3, <1>4, <1>5, <1>6, <1>7, <1>8, <1>9, <1>10, <1>11, <1>12, <1>13, QuietStep DEF Own

LEMMA ReconciledKeeps ==
  ASSUME CollectorInv, NEW k \in Collectors, Reconciled(k)
  PROVE  CollectorInv'
<1>. CollectorTypes /\ Own(k)
  BY DEF CollectorInv
<1>g. /\ step[k] = "attest" /\ pc[k] = "reconcile" /\ job[k] \in PaidTrials
  BY DEF Own, Working, Reconciled, Appended
<1>u. /\ pc' = [pc EXCEPT ![k] = "validate"] /\ step' = [step EXCEPT ![k] = "none"]
      /\ pending' = [pending EXCEPT ![k] = NoRecord]
      /\ spent' = [spent EXCEPT ![k] = spent[k] + job[k].cost]
      /\ identity' = [identity EXCEPT ![k] = Len(journal)]
      /\ UNCHANGED <<trials, todo, job, snapshot>>
  BY <1>g DEF Reconciled, Appended, Goto, files, append, memory, history
<1>3. /\ step[k] = "attest" /\ pc[k] = "reconcile" /\ job[k] \in PaidTrials
      /\ pc'[k] = "validate" /\ step'[k] = "none" /\ pending'[k] = NoRecord
      /\ trials'[k] = trials[k] /\ todo'[k] = todo[k] /\ job'[k] = job[k]
      /\ spent'[k] = spent[k] + job[k].cost /\ identity'[k] = Len(journal)
      /\ snapshot'[k] = snapshot[k]
  BY <1>g, <1>u DEF CollectorTypes
<1>4. UNCHANGED <<journal, checkpoint, paid, accepted, starts, shared, partial>>
  BY DEF Reconciled, Appended, Goto, files, append, memory, history
<1>5. \A l \in Collectors \ {k} : Stays(l)
  BY <1>u DEF CollectorTypes, Stays
<1>6. CollectorTypes'
  <2>1. "validate" \in Pcs
    BY DEF Pcs
  <2>2. "none" \in {"none", "inspect", "write", "attest"}
    OBVIOUS
  <2>3. NoRecord \in Entries \cup {NoRecord}
    OBVIOUS
  <2>4. spent[k] + job[k].cost \in 0..run_max_usd
    BY <1>3, Amounts, Ranges DEF Own, Standing
  <2>5. Len(journal) \in Nat \cup {NoFile}
    BY <1>3, Ranges, CollectorAssumption DEF CollectorTypes
  <2>. QED  BY <2>1, <2>2, <2>3, <2>4, <2>5, <1>u, <1>4 DEF CollectorTypes
<1>7. Standing(k)'
  BY <1>3, <1>4 DEF Own, Standing, Appending
<1>8. Holding(k)'
  BY <1>3, <1>4 DEF Own, Holding, Brought
<1>9. Working(k)'
  BY <1>3, <1>4 DEF Own, Working, Missing
<1>10. Evaluating(k)'
  BY <1>3, <1>4 DEF Own, Evaluating, Missing, CopiedRecords
<1>11. pc'[k] \in Calling
         => \/ pc[k] \in Calling /\ job'[k].id = job[k].id
            \/ \A l \in Collectors : job[l].id # job'[k].id
  BY <1>3 DEF Calling
<1>12. ~shared => AloneFor(k)'
  BY <1>3, <1>4 DEF CollectorInv, Alone, AloneFor
<1>13. ~shared /\ ~partial'
         => RestoringFor(k)' /\ \A t \in todo[k] : t \in todo'[k] \/ Bound(journal, t)
  <2>1. SUFFICES ASSUME ~shared, ~partial
                 PROVE  RestoringFor(k)'
    BY <1>3, <1>4
  <2>2. Cost(paid \ todo[k]) <= spent[k] + job[k].cost
    BY <1>3, <2>1 DEF CollectorInv, Restoring, RestoringFor, Uncharged
  <2>3. spent[k] + job[k].cost + 0 = spent[k] + job[k].cost
    BY Amounts
  <2>4. \A t \in Brought : Bound(journal, t) \/ t \in todo[k]
    BY <1>3, <2>1 DEF CollectorInv, Restoring, RestoringFor
  <2>5. Brought' = Brought /\ Uncharged(k)' = 0
    BY <1>3, <1>4 DEF Brought, Uncharged
  <2>. QED  BY <1>3, <1>4, <2>2, <2>3, <2>4, <2>5 DEF RestoringFor
<1>. QED
  BY <1>3, <1>4, <1>5, <1>6, <1>7, <1>8, <1>9, <1>10, <1>11, <1>12, <1>13, QuietStep DEF Own

LEMMA SyncKeeps ==
  ASSUME CollectorInv, NEW k \in Collectors, Sync(k)
  PROVE  CollectorInv'
<1>. CollectorTypes /\ Own(k)
  BY DEF CollectorInv
<1>1. CASE Raises(k)
  BY <1>1, RaisesKeeps DEF Sync, Reads, Goto, files, append, memory, history
<1>2. SUFFICES ASSUME ~Raises(k) PROVE CollectorInv'
  BY <1>1
<1>g. /\ pc[k] = "sync"
  BY <1>2 DEF Sync, Reads, Goto, files, append, memory, history
<1>u. /\ pc' = [pc EXCEPT ![k] = "checkpoint"]
      /\ identity' = [identity EXCEPT ![k] = (IF journal = <<>> THEN NoFile ELSE Len(journal))]
      /\ UNCHANGED <<step, pending, trials, todo, job, spent, snapshot>>
  BY <1>2, <1>g DEF Sync, Reads, Goto, files, append, memory, history
<1>3. /\ pc[k] = "sync" /\ pc'[k] = "checkpoint" /\ step'[k] = step[k]
      /\ pending'[k] = pending[k] /\ trials'[k] = trials[k] /\ todo'[k] = todo[k]
      /\ job'[k] = job[k] /\ spent'[k] = spent[k]
      /\ identity'[k] = (IF journal = <<>> THEN NoFile ELSE Len(journal))
      /\ snapshot'[k] = snapshot[k]
  BY <1>g, <1>u DEF CollectorTypes
<1>4. UNCHANGED <<journal, checkpoint, paid, accepted, starts, shared, partial>>
  BY <1>2 DEF Sync, Reads, Goto, files, append, memory, history
<1>5. \A l \in Collectors \ {k} : Stays(l)
  BY <1>u DEF CollectorTypes, Stays
<1>6. CollectorTypes'
  <2>1. "checkpoint" \in Pcs
    BY DEF Pcs
  <2>2. (IF journal = <<>> THEN NoFile ELSE Len(journal)) \in Nat \cup {NoFile}
    BY <1>3, Ranges, CollectorAssumption DEF CollectorTypes
  <2>. QED  BY <2>1, <2>2, <1>u, <1>4 DEF CollectorTypes
<1>7. Standing(k)'
  BY <1>3, <1>4 DEF CollectorTypes, Own, Standing, Appending
<1>8. Holding(k)'
  BY <1>3, <1>4 DEF Own, Holding, Brought
<1>9. Working(k)'
  BY <1>3, <1>4 DEF Own, Working, Missing
<1>10. Evaluating(k)'
  BY <1>3, <1>4 DEF Own, Evaluating, Missing, CopiedRecords
<1>11. pc'[k] \in Calling
         => \/ pc[k] \in Calling /\ job'[k].id = job[k].id
            \/ \A l \in Collectors : job[l].id # job'[k].id
  BY <1>3 DEF Calling
<1>12. ~shared => AloneFor(k)'
  BY <1>3, <1>4 DEF CollectorInv, Alone, AloneFor
<1>13. ~shared /\ ~partial'
         => RestoringFor(k)' /\ \A t \in todo[k] : t \in todo'[k] \/ Bound(journal, t)
  BY <1>3, <1>4 DEF CollectorInv, Restoring, RestoringFor, Uncharged, Brought
<1>. QED
  BY <1>3, <1>4, <1>5, <1>6, <1>7, <1>8, <1>9, <1>10, <1>11, <1>12, <1>13, QuietStep DEF Own

LEMMA EvaluateKeeps ==
  ASSUME CollectorInv, NEW k \in Collectors, Evaluate(k)
  PROVE  CollectorInv'
<1>. CollectorTypes /\ Own(k)
  BY DEF CollectorInv
<1>1. CASE Raises(k)
  BY <1>1, RaisesKeeps DEF Evaluate, Goto, files, append, memory, history
<1>2. SUFFICES ASSUME ~Raises(k) PROVE CollectorInv'
  BY <1>1
<1>g. /\ pc[k] = "evaluate"
  BY <1>2 DEF Evaluate, Goto, files, append, memory, history
<1>u. /\ pc' = [pc EXCEPT ![k] = "publish"]
      /\ UNCHANGED <<step, pending, trials, todo, job, spent, identity, snapshot>>
  BY <1>2, <1>g DEF Evaluate, Goto, files, append, memory, history
<1>3. /\ pc[k] = "evaluate" /\ pc'[k] = "publish" /\ step'[k] = step[k]
      /\ pending'[k] = pending[k] /\ trials'[k] = trials[k] /\ todo'[k] = todo[k]
      /\ job'[k] = job[k] /\ spent'[k] = spent[k] /\ identity'[k] = identity[k]
      /\ snapshot'[k] = snapshot[k]
  BY <1>g, <1>u DEF CollectorTypes
<1>4. UNCHANGED <<journal, checkpoint, paid, accepted, starts, shared, partial>>
  BY <1>2 DEF Evaluate, Goto, files, append, memory, history
<1>5. \A l \in Collectors \ {k} : Stays(l)
  BY <1>u DEF CollectorTypes, Stays
<1>a. Admissible(k)
  BY <1>2 DEF Evaluate
<1>6. CollectorTypes'
  <2>1. "publish" \in Pcs
    BY DEF Pcs
  <2>. QED  BY <2>1, <1>u, <1>4 DEF CollectorTypes
<1>7. Standing(k)'
  BY <1>3, <1>4 DEF Own, Standing, Appending
<1>8. Holding(k)'
  BY <1>3, <1>4 DEF Own, Holding, Brought
<1>9. Working(k)'
  BY <1>3, <1>4 DEF Own, Working, Missing
<1>10. Evaluating(k)'
  <2>1. \A t \in snapshot[k] : t.id \in Keys \/ AccountedFor(CopiedRecords(k), t)
    BY <1>3 DEF Own, Evaluating
  <2>2. /\ trials[k] \subseteq snapshot[k] /\ snapshot[k] \subseteq paid
        /\ Brought \subseteq trials[k]
    BY <1>3 DEF Own, Evaluating, Holding
  <2>3. \A t \in snapshot[k] : Bound(CopiedRecords(k), t) \/ AccountedFor(CopiedRecords(k), t)
    BY <1>a, <2>1, <2>2 DEF Admissible, Brought
  <2>4. \A t, u \in snapshot[k] : t.id = u.id => t = u
    BY <2>2 DEF CollectorInv, Calls
  <2>5. CopiedRecords(k) \in Seq(Entries)
    BY DEF CopiedRecords, CollectorTypes, Own, Standing
  <2>6. Cost(snapshot[k]) <= spent[k]
    BY <1>a, <2>3, <2>4, <2>5, AccountedIsCharged DEF Admissible, CollectorTypes
  <2>. QED  BY <1>3, <1>4, <2>6 DEF Own, Evaluating, Missing
<1>11. pc'[k] \in Calling
         => \/ pc[k] \in Calling /\ job'[k].id = job[k].id
            \/ \A l \in Collectors : job[l].id # job'[k].id
  BY <1>3 DEF Calling
<1>12. ~shared => AloneFor(k)'
  BY <1>3, <1>4 DEF CollectorInv, Alone, AloneFor
<1>13. ~shared /\ ~partial'
         => RestoringFor(k)' /\ \A t \in todo[k] : t \in todo'[k] \/ Bound(journal, t)
  BY <1>3, <1>4 DEF CollectorInv, Restoring, RestoringFor, Uncharged, Brought
<1>. QED
  BY <1>3, <1>4, <1>5, <1>6, <1>7, <1>8, <1>9, <1>10, <1>11, <1>12, <1>13, QuietStep DEF Own

LEMMA LastSyncKeeps ==
  ASSUME CollectorInv, NEW k \in Collectors, LastSync(k)
  PROVE  CollectorInv'
<1>. CollectorTypes /\ Own(k)
  BY DEF CollectorInv
<1>1. CASE Raises(k)
  BY <1>1, RaisesKeeps DEF LastSync, Reads, Goto, files, append, memory, history
<1>2. SUFFICES ASSUME ~Raises(k) PROVE CollectorInv'
  BY <1>1
<1>g. /\ pc[k] = "restore" /\ todo[k] = {} /\ Missing(k) = {}
  BY <1>2 DEF LastSync, Reads, Goto, files, append, memory, history
<1>u. /\ pc' = [pc EXCEPT ![k] = "evaluate"]
      /\ identity' = [identity EXCEPT ![k] = (IF journal = <<>> THEN NoFile ELSE Len(journal))]
      /\ snapshot' = [snapshot EXCEPT ![k] = paid]
      /\ UNCHANGED <<step, pending, trials, todo, job, spent>>
  BY <1>2, <1>g DEF LastSync, Reads, Goto, files, append, memory, history
<1>3. /\ pc[k] = "restore" /\ todo[k] = {} /\ Missing(k) = {} /\ pc'[k] = "evaluate"
      /\ step'[k] = step[k] /\ pending'[k] = pending[k] /\ trials'[k] = trials[k]
      /\ todo'[k] = todo[k] /\ job'[k] = job[k] /\ spent'[k] = spent[k]
      /\ identity'[k] = (IF journal = <<>> THEN NoFile ELSE Len(journal)) /\ snapshot'[k] = paid
  BY <1>g, <1>u DEF CollectorTypes
<1>4. UNCHANGED <<journal, checkpoint, paid, accepted, starts, shared, partial>>
  BY <1>2 DEF LastSync, Reads, Goto, files, append, memory, history
<1>5. \A l \in Collectors \ {k} : Stays(l)
  BY <1>u DEF CollectorTypes, Stays
<1>6. CollectorTypes'
  <2>1. "evaluate" \in Pcs
    BY DEF Pcs
  <2>2. (IF journal = <<>> THEN NoFile ELSE Len(journal)) \in Nat \cup {NoFile}
    BY <1>3, Ranges, CollectorAssumption DEF CollectorTypes
  <2>3. paid \in SUBSET PaidTrials
    BY <1>3, Ranges, CollectorAssumption DEF CollectorTypes
  <2>. QED  BY <2>1, <2>2, <2>3, <1>u, <1>4 DEF CollectorTypes
<1>7. Standing(k)'
  BY <1>3, <1>4 DEF CollectorTypes, Own, Standing, Appending
<1>8. Holding(k)'
  BY <1>3, <1>4 DEF Own, Holding, Brought
<1>9. Working(k)'
  BY <1>3, <1>4 DEF Own, Working, Missing
<1>10. Evaluating(k)'
  <2>1. CopiedRecords(k)' = journal
    <3>1. SubSeq(journal, 1, Len(journal)) = journal /\ Len(journal) # NoFile
      BY CollectorAssumption DEF CollectorTypes
    <3>2. CopiedRecords(k)'
            = IF identity'[k] = NoFile THEN <<>> ELSE SubSeq(journal, 1, identity'[k])
      BY <1>4 DEF CopiedRecords
    <3>3. CASE journal = <<>>
      BY <1>3, <3>2, <3>3
    <3>4. CASE journal # <<>>
      BY <1>3, <3>1, <3>2, <3>4
    <3>. QED  BY <3>3, <3>4
  <2>2. \A t \in paid : t.id \in Keys \/ AccountedFor(journal, t)
    BY DEF CollectorInv, Calls
  <2>3. trials[k] \subseteq paid
    BY DEF Own, Holding
  <2>4. Missing(k)' = Missing(k)
    BY <1>3 DEF Missing
  <2>. QED  BY <1>3, <1>4, <2>1, <2>2, <2>3, <2>4 DEF Evaluating
<1>11. pc'[k] \in Calling
         => \/ pc[k] \in Calling /\ job'[k].id = job[k].id
            \/ \A l \in Collectors : job[l].id # job'[k].id
  BY <1>3 DEF Calling
<1>12. ~shared => AloneFor(k)'
  BY <1>3, <1>4 DEF CollectorInv, Alone, AloneFor
<1>13. ~shared /\ ~partial'
         => RestoringFor(k)' /\ \A t \in todo[k] : t \in todo'[k] \/ Bound(journal, t)
  BY <1>3, <1>4 DEF CollectorInv, Restoring, RestoringFor, Uncharged, Brought
<1>. QED
  BY <1>3, <1>4, <1>5, <1>6, <1>7, <1>8, <1>9, <1>10, <1>11, <1>12, <1>13, QuietStep DEF Own

LEMMA ValidateKeeps ==
  ASSUME CollectorInv, NEW k \in Collectors, Validate(k)
  PROVE  CollectorInv'
<1>. CollectorTypes /\ Own(k)
  BY DEF CollectorInv
<1>1. CASE Raises(k)
  BY <1>1, RaisesKeeps DEF Validate, Goto, files, append, memory, history
<1>2. SUFFICES ASSUME ~Raises(k) PROVE CollectorInv'
  BY <1>1
<1>g. /\ pc[k] = "validate" /\ job[k] \in PaidTrials /\ job[k] \in paid
  BY <1>2 DEF Own, Working, Validate
<1>u. /\ pc' = [pc EXCEPT ![k] = "sync"]
      /\ trials' = [trials EXCEPT ![k] = trials[k] \cup {job[k]}]
      /\ UNCHANGED <<step, pending, todo, job, spent, identity, snapshot>>
  BY <1>2, <1>g DEF Validate, Goto, files, append, memory, history
<1>3. /\ pc[k] = "validate" /\ job[k] \in PaidTrials /\ job[k] \in paid /\ pc'[k] = "sync"
      /\ step'[k] = step[k] /\ pending'[k] = pending[k] /\ trials'[k] = trials[k] \cup {job[k]}
      /\ todo'[k] = todo[k] /\ job'[k] = job[k] /\ spent'[k] = spent[k]
      /\ identity'[k] = identity[k] /\ snapshot'[k] = snapshot[k]
  BY <1>g, <1>u DEF CollectorTypes
<1>4. UNCHANGED <<journal, checkpoint, paid, accepted, starts, shared, partial>>
  BY <1>2 DEF Validate, Goto, files, append, memory, history
<1>5. \A l \in Collectors \ {k} : Stays(l)
  BY <1>u DEF CollectorTypes, Stays
<1>6. CollectorTypes'
  <2>1. "sync" \in Pcs
    BY DEF Pcs
  <2>2. trials[k] \cup {job[k]} \in SUBSET PaidTrials
    BY <1>3, Ranges, CollectorAssumption DEF CollectorTypes
  <2>. QED  BY <2>1, <2>2, <1>u, <1>4 DEF CollectorTypes
<1>7. Standing(k)'
  BY <1>3, <1>4 DEF CollectorTypes, Own, Standing, Appending
<1>8. Holding(k)'
  <2>1. job[k].key \in Missing(k)
    BY <1>3 DEF Own, Working
  <2>2. OnePerKey(trials[k] \cup {job[k]})
    BY <2>1 DEF Own, Holding, OnePerKey, Missing
  <2>. QED  BY <1>3, <1>4, <2>2 DEF Own, Holding, Brought
<1>9. Working(k)'
  BY <1>3, <1>4 DEF Own, Working, Missing
<1>10. Evaluating(k)'
  BY <1>3, <1>4 DEF Own, Evaluating, Missing, CopiedRecords
<1>11. pc'[k] \in Calling
         => \/ pc[k] \in Calling /\ job'[k].id = job[k].id
            \/ \A l \in Collectors : job[l].id # job'[k].id
  BY <1>3 DEF Calling
<1>12. ~shared => AloneFor(k)'
  <2>1. SUFFICES ASSUME ~shared PROVE AloneFor(k)'
    OBVIOUS
  <2>2. trials[k] = checkpoint
    BY <1>3, <2>1 DEF CollectorInv, Alone, AloneFor
  <2>3. job[k] \notin trials[k]
    BY <1>3 DEF Own, Working, Missing
  <2>. QED  BY <1>3, <1>4, <2>2, <2>3 DEF AloneFor
<1>13. ~shared /\ ~partial'
         => RestoringFor(k)' /\ \A t \in todo[k] : t \in todo'[k] \/ Bound(journal, t)
  BY <1>3, <1>4 DEF CollectorInv, Restoring, RestoringFor, Uncharged, Brought
<1>. QED
  BY <1>3, <1>4, <1>5, <1>6, <1>7, <1>8, <1>9, <1>10, <1>11, <1>12, <1>13, QuietStep DEF Own

LEMMA ReserveKeeps ==
  ASSUME CollectorInv, NEW k \in Collectors, Reserve(k)
  PROVE  CollectorInv'
<1>. CollectorTypes /\ Own(k)
  BY DEF CollectorInv
<1>1. CASE Raises(k)
  BY <1>1, RaisesKeeps DEF Reserve, Begin, Goto, files, append, memory, history
<1>2. SUFFICES ASSUME ~Raises(k) PROVE CollectorInv'
  BY <1>1
<1>g. /\ pc[k] = "restore" /\ todo[k] = {} /\ Missing(k) # {} /\ Unused # {}
  BY <1>2 DEF Reserve, Begin, Goto, files, append, memory, history
<1>u. /\ pc' = [pc EXCEPT ![k] = "reserve"] /\ step' = [step EXCEPT ![k] = "inspect"]
      /\ pending' = [pending EXCEPT ![k] = [ev |-> "reserve", id |-> FreshId, usd |-> per_call]]
      /\ job' = [job EXCEPT ![k] = [key |-> Min(Missing(k)), id |-> FreshId, cost |-> 0]]
      /\ UNCHANGED <<trials, todo, spent, identity, snapshot>>
  BY <1>2, <1>g DEF Reserve, Begin, Goto, files, append, memory, history
<1>3. /\ pc[k] = "restore" /\ todo[k] = {} /\ Missing(k) # {} /\ Unused # {}
      /\ pc'[k] = "reserve" /\ step'[k] = "inspect"
      /\ pending'[k] = [ev |-> "reserve", id |-> FreshId, usd |-> per_call]
      /\ trials'[k] = trials[k] /\ todo'[k] = todo[k]
      /\ job'[k] = [key |-> Min(Missing(k)), id |-> FreshId, cost |-> 0] /\ spent'[k] = spent[k]
      /\ identity'[k] = identity[k] /\ snapshot'[k] = snapshot[k]
  BY <1>g, <1>u DEF CollectorTypes
<1>4. UNCHANGED <<journal, checkpoint, paid, accepted, starts, shared, partial>>
  BY <1>2 DEF Reserve, Begin, Goto, files, append, memory, history
<1>5. \A l \in Collectors \ {k} : Stays(l)
  BY <1>u DEF CollectorTypes, Stays
<1>a. FreshId \in Unused
  BY <1>3 DEF FreshId
<1>b. Min(Missing(k)) \in Missing(k)
  BY <1>3, MinIsLeast DEF Missing, Keys
<1>c. spent[k] + per_call <= run_max_usd
  BY <1>2, Ranges DEF Reserve, CollectorTypes
<1>d. FreshId \in AttemptIds /\ FreshId \notin Keys /\ job'[k] \in PaidTrials
  BY <1>3, <1>a, <1>b, Ranges DEF Unused, Missing, PaidTrials
<1>6. CollectorTypes'
  <2>1. "reserve" \in Pcs
    BY DEF Pcs
  <2>2. "inspect" \in {"none", "inspect", "write", "attest"}
    OBVIOUS
  <2>3. [ev |-> "reserve", id |-> FreshId, usd |-> per_call] \in Entries \cup {NoRecord}
    BY <1>d, Ranges DEF Entries
  <2>4. [key |-> Min(Missing(k)), id |-> FreshId, cost |-> 0] \in PaidTrials \cup {NoTrial}
    BY <1>3, <1>d
  <2>. QED  BY <2>1, <2>2, <2>3, <2>4, <1>u, <1>4 DEF CollectorTypes
<1>7. Standing(k)'
  BY <1>3, <1>4, <1>c DEF CollectorTypes, Own, Standing, Appending
<1>8. Holding(k)'
  BY <1>3, <1>4 DEF Own, Holding, Brought
<1>9. Working(k)'
  <2>1. Closes(journal, FreshId) = {}
    BY <1>a DEF Unused, Closes, Of
  <2>2. \A t \in paid : t.id # FreshId
    BY <1>a DEF Unused
  <2>3. Missing(k)' = Missing(k)
    BY <1>3 DEF Missing
  <2>. QED  BY <1>3, <1>4, <1>b, <1>d, <2>1, <2>2, <2>3 DEF Working
<1>10. Evaluating(k)'
  BY <1>3, <1>4 DEF Own, Evaluating, Missing, CopiedRecords
<1>11. pc'[k] \in Calling
         => \/ pc[k] \in Calling /\ job'[k].id = job[k].id
            \/ \A l \in Collectors : job[l].id # job'[k].id
  BY <1>3, <1>a DEF Unused
<1>12. ~shared => AloneFor(k)'
  BY <1>3, <1>4 DEF CollectorInv, Alone, AloneFor
<1>13. ~shared /\ ~partial'
         => RestoringFor(k)' /\ \A t \in todo[k] : t \in todo'[k] \/ Bound(journal, t)
  BY <1>3, <1>4 DEF CollectorInv, Restoring, RestoringFor, Uncharged, Brought
<1>. QED
  BY <1>3, <1>4, <1>5, <1>6, <1>7, <1>8, <1>9, <1>10, <1>11, <1>12, <1>13, QuietStep DEF Own

LEMMA RestoredKeeps ==
  ASSUME CollectorInv, NEW k \in Collectors, Restored(k)
  PROVE  CollectorInv'
<1>. CollectorTypes /\ Own(k)
  BY DEF CollectorInv
<1>g. /\ step[k] = "attest" /\ pc[k] = "restoreClose" /\ job[k] \in todo[k]
      /\ job[k] \in PaidTrials
  <2>1. step[k] = "attest" /\ pc[k] = "restoreClose"
    BY DEF Restored, Appended
  <2>. QED  BY <2>1 DEF Own, Standing, CollectorTypes, Holding
<1>u. /\ pc' = [pc EXCEPT ![k] = "restore"] /\ step' = [step EXCEPT ![k] = "none"]
      /\ pending' = [pending EXCEPT ![k] = NoRecord]
      /\ todo' = [todo EXCEPT ![k] = todo[k] \ {job[k]}] /\ job' = [job EXCEPT ![k] = NoTrial]
      /\ spent' = [spent EXCEPT ![k] = spent[k] + job[k].cost]
      /\ identity' = [identity EXCEPT ![k] = Len(journal)] /\ UNCHANGED <<trials, snapshot>>
  BY <1>g DEF Restored, Appended, Goto, files, append, memory, history
<1>3. /\ step[k] = "attest" /\ pc[k] = "restoreClose" /\ job[k] \in todo[k]
      /\ job[k] \in PaidTrials /\ pc'[k] = "restore" /\ step'[k] = "none"
      /\ pending'[k] = NoRecord /\ trials'[k] = trials[k] /\ todo'[k] = todo[k] \ {job[k]}
      /\ job'[k] = NoTrial /\ spent'[k] = spent[k] + job[k].cost /\ identity'[k] = Len(journal)
      /\ snapshot'[k] = snapshot[k]
  BY <1>g, <1>u DEF CollectorTypes
<1>4. UNCHANGED <<journal, checkpoint, paid, accepted, starts, shared, partial>>
  BY DEF Restored, Appended, Goto, files, append, memory, history
<1>5. \A l \in Collectors \ {k} : Stays(l)
  BY <1>u DEF CollectorTypes, Stays
<1>a. Bound(journal, job[k])
  <2>1. PICK n \in 1..Len(journal) : journal[n] = pending[k]
    BY <1>3 DEF Own, Standing
  <2>2. pending[k] = [ev |-> "reconcile", id |-> job[k].id, usd |-> job[k].cost]
    BY <1>3 DEF Own, Standing
  <2>3. pending[k] \in Of(journal, job[k].id, {"reconcile"})
    BY <2>1, <2>2 DEF Of
  <2>. QED  BY <2>2, <2>3 DEF Bound
<1>6. CollectorTypes'
  <2>1. "restore" \in Pcs
    BY DEF Pcs
  <2>2. "none" \in {"none", "inspect", "write", "attest"}
    OBVIOUS
  <2>3. NoRecord \in Entries \cup {NoRecord}
    OBVIOUS
  <2>4. todo[k] \ {job[k]} \in SUBSET PaidTrials
    BY <1>3, Ranges, CollectorAssumption DEF CollectorTypes
  <2>5. NoTrial \in PaidTrials \cup {NoTrial}
    OBVIOUS
  <2>6. spent[k] + job[k].cost \in 0..run_max_usd
    BY <1>3, Amounts, Ranges DEF Own, Standing
  <2>7. Len(journal) \in Nat \cup {NoFile}
    BY <1>3, Ranges, CollectorAssumption DEF CollectorTypes
  <2>. QED  BY <2>1, <2>2, <2>3, <2>4, <2>5, <2>6, <2>7, <1>u, <1>4 DEF CollectorTypes
<1>7. Standing(k)'
  BY <1>3, <1>4 DEF Own, Standing, Appending
<1>8. Holding(k)'
  <2>1. Brought' = Brought
    BY <1>4 DEF Brought
  <2>. QED  BY <1>3, <1>4, <2>1 DEF Own, Holding
<1>9. Working(k)'
  BY <1>3, <1>4 DEF Own, Working, Missing
<1>10. Evaluating(k)'
  BY <1>3, <1>4 DEF Own, Evaluating, Missing, CopiedRecords
<1>11. pc'[k] \in Calling
         => \/ pc[k] \in Calling /\ job'[k].id = job[k].id
            \/ \A l \in Collectors : job[l].id # job'[k].id
  BY <1>3 DEF Calling
<1>12. ~shared => AloneFor(k)'
  BY <1>3, <1>4 DEF CollectorInv, Alone, AloneFor
<1>13. ~shared /\ ~partial'
         => RestoringFor(k)' /\ \A t \in todo[k] : t \in todo'[k] \/ Bound(journal, t)
  <2>1. SUFFICES ASSUME ~shared, ~partial
                 PROVE  /\ RestoringFor(k)'
                        /\ \A t \in todo[k] : t \in todo'[k] \/ Bound(journal, t)
    BY <1>4
  <2>2. Cost(paid \ todo[k]) <= spent[k]
    <3>1. Uncharged(k) = 0 /\ spent[k] + 0 = spent[k]
      BY <1>3, Amounts DEF Uncharged
    <3>. QED  BY <1>3, <2>1, <3>1 DEF CollectorInv, Restoring, RestoringFor
  <2>3. IsFiniteSet(paid) /\ IsFiniteSet(paid \ todo[k]) /\ Cost(paid \ todo[k]) \in Nat
    BY PaidIsFinite, CostGrows, DollarsFinite
  <2>4. job[k].cost \in Nat
    BY <1>3, Ranges DEF PaidTrials
  <2>5. /\ IsFiniteSet((paid \ todo[k]) \cup {job[k]})
        /\ Cost((paid \ todo[k]) \cup {job[k]}) <= Cost(paid \ todo[k]) + job[k].cost
    BY <2>3, <2>4, CostAdds
  <2>6. (paid \ (todo[k] \ {job[k]})) \subseteq (paid \ todo[k]) \cup {job[k]}
    OBVIOUS
  <2>7. /\ Cost(paid \ (todo[k] \ {job[k]})) <= Cost((paid \ todo[k]) \cup {job[k]})
        /\ Cost(paid \ (todo[k] \ {job[k]})) \in Nat
        /\ Cost((paid \ todo[k]) \cup {job[k]}) \in Nat
    BY <2>5, <2>6, CostGrows, DollarsFinite
  <2>8. spent[k] \in Nat
    BY Ranges DEF CollectorTypes
  <2>9. Cost(paid \ (todo[k] \ {job[k]})) <= spent[k] + job[k].cost + 0
    BY <2>2, <2>3, <2>4, <2>5, <2>7, <2>8
  <2>10. \A t \in Brought : Bound(journal, t) \/ t \in todo'[k]
    BY <1>3, <1>a, <2>1 DEF CollectorInv, Restoring, RestoringFor
  <2>11. Brought' = Brought /\ Uncharged(k)' = 0
    BY <1>3, <1>4 DEF Brought, Uncharged
  <2>. QED  BY <1>3, <1>4, <1>a, <2>9, <2>10, <2>11 DEF RestoringFor
<1>. QED
  BY <1>3, <1>4, <1>5, <1>6, <1>7, <1>8, <1>9, <1>10, <1>11, <1>12, <1>13, QuietStep DEF Own

LEMMA RestoreKeeps ==
  ASSUME CollectorInv, NEW k \in Collectors, Restore(k)
  PROVE  CollectorInv'
<1>. CollectorTypes /\ Own(k)
  BY DEF CollectorInv
<1>1. CASE Raises(k)
  BY <1>1, RaisesKeeps DEF Restore, Begin, Goto, files, append, memory, history
<1>2. SUFFICES ASSUME ~Raises(k) PROVE CollectorInv'
  BY <1>1
<1>g. /\ pc[k] = "restore" /\ todo[k] # {}
  BY <1>2 DEF Restore, Begin, Goto, files, append, memory, history
<1>u. /\ pc' = [pc EXCEPT ![k] = "restoreReserve"] /\ step' = [step EXCEPT ![k] = "inspect"]
      /\ pending' = [pending EXCEPT ![k] = [ev |-> "reserve", id |-> First(todo[k]).id, usd |-> per_call]]
      /\ job' = [job EXCEPT ![k] = First(todo[k])]
      /\ UNCHANGED <<trials, todo, spent, identity, snapshot>>
  BY <1>2, <1>g DEF First, Restore, Begin, Goto, files, append, memory, history
<1>3. /\ pc[k] = "restore" /\ todo[k] # {} /\ pc'[k] = "restoreReserve" /\ step'[k] = "inspect"
      /\ pending'[k] = [ev |-> "reserve", id |-> First(todo[k]).id, usd |-> per_call]
      /\ trials'[k] = trials[k] /\ todo'[k] = todo[k] /\ job'[k] = First(todo[k])
      /\ spent'[k] = spent[k] /\ identity'[k] = identity[k] /\ snapshot'[k] = snapshot[k]
  BY <1>g, <1>u DEF CollectorTypes
<1>4. UNCHANGED <<journal, checkpoint, paid, accepted, starts, shared, partial>>
  BY <1>2 DEF Restore, Begin, Goto, files, append, memory, history
<1>5. \A l \in Collectors \ {k} : Stays(l)
  BY <1>u DEF CollectorTypes, Stays
<1>a. First(todo[k]) \in todo[k] /\ First(todo[k]) \in PaidTrials
  BY <1>3, FirstExists DEF CollectorTypes
<1>b. spent[k] + First(todo[k]).cost <= run_max_usd
  <2>1. ~(spent[k] + First(todo[k]).cost > run_max_usd)
    BY <1>2 DEF Restore, First
  <2>2. spent[k] \in Nat /\ First(todo[k]).cost \in Nat
    BY <1>a, Amounts, Ranges DEF PaidTrials
  <2>. QED  BY <2>1, <2>2, Ranges
<1>6. CollectorTypes'
  <2>1. "restoreReserve" \in Pcs
    BY DEF Pcs
  <2>2. "inspect" \in {"none", "inspect", "write", "attest"}
    OBVIOUS
  <2>3. [ev |-> "reserve", id |-> First(todo[k]).id, usd |-> per_call] \in Entries \cup {NoRecord}
    BY <1>a, Ranges DEF Entries, PaidTrials
  <2>4. First(todo[k]) \in PaidTrials \cup {NoTrial}
    BY <1>a
  <2>. QED  BY <2>1, <2>2, <2>3, <2>4, <1>u, <1>4 DEF CollectorTypes
<1>7. Standing(k)'
  BY <1>3, <1>4, <1>a, <1>b DEF CollectorTypes, Own, Standing, Appending
<1>8. Holding(k)'
  <2>1. Brought' = Brought
    BY <1>4 DEF Brought
  <2>. QED  BY <1>3, <1>4, <2>1 DEF Own, Holding
<1>9. Working(k)'
  BY <1>3, <1>4 DEF Own, Working, Missing
<1>10. Evaluating(k)'
  BY <1>3, <1>4 DEF Own, Evaluating, Missing, CopiedRecords
<1>11. pc'[k] \in Calling
         => \/ pc[k] \in Calling /\ job'[k].id = job[k].id
            \/ \A l \in Collectors : job[l].id # job'[k].id
  BY <1>3 DEF Calling
<1>12. ~shared => AloneFor(k)'
  BY <1>3, <1>4 DEF CollectorInv, Alone, AloneFor
<1>13. ~shared /\ ~partial'
         => RestoringFor(k)' /\ \A t \in todo[k] : t \in todo'[k] \/ Bound(journal, t)
  BY <1>3, <1>4 DEF CollectorInv, Restoring, RestoringFor, Uncharged, Brought
<1>. QED
  BY <1>3, <1>4, <1>5, <1>6, <1>7, <1>8, <1>9, <1>10, <1>11, <1>12, <1>13, QuietStep DEF Own

LEMMA OpenLedgerKeeps ==
  ASSUME CollectorInv, NEW k \in Collectors, OpenLedger(k)
  PROVE  CollectorInv'
<1>. CollectorTypes /\ Own(k)
  BY DEF CollectorInv
<1>1. CASE Raises(k)
  BY <1>1, RaisesKeeps DEF OpenLedger, Goto, files, append, memory, history
<1>2. SUFFICES ASSUME ~Raises(k) PROVE CollectorInv'
  BY <1>1
<1>g. /\ pc[k] = "ledger" /\ todo[k] = {} /\ Charged(journal) <= run_max_usd
  <2>1. Charged(journal) <= run_max_usd
    BY <1>2, ChargedIsNatural, Ranges DEF OpenLedger
  <2>2. pc[k] = "ledger" /\ todo[k] = {}
    BY <1>2 DEF OpenLedger, Own, Holding
  <2>. QED  BY <2>1, <2>2
<1>u. /\ pc' = [pc EXCEPT ![k] = "restore"]
      /\ todo' = [todo EXCEPT ![k] = (IF journal = <<>> THEN trials[k] ELSE {})]
      /\ spent' = [spent EXCEPT ![k] = Charged(journal)]
      /\ identity' = [identity EXCEPT ![k] = (IF journal = <<>> THEN NoFile ELSE Len(journal))]
      /\ UNCHANGED <<step, pending, trials, job, snapshot>>
  BY <1>2, <1>g DEF OpenLedger, Goto, files, append, memory, history
<1>3. /\ pc[k] = "ledger" /\ todo[k] = {} /\ Charged(journal) <= run_max_usd
      /\ pc'[k] = "restore" /\ step'[k] = step[k] /\ pending'[k] = pending[k]
      /\ trials'[k] = trials[k] /\ todo'[k] = (IF journal = <<>> THEN trials[k] ELSE {})
      /\ job'[k] = job[k] /\ spent'[k] = Charged(journal)
      /\ identity'[k] = (IF journal = <<>> THEN NoFile ELSE Len(journal))
      /\ snapshot'[k] = snapshot[k]
  BY <1>g, <1>u DEF CollectorTypes
<1>4. UNCHANGED <<journal, checkpoint, paid, accepted, starts, shared, partial>>
  BY <1>2 DEF OpenLedger, Goto, files, append, memory, history
<1>5. \A l \in Collectors \ {k} : Stays(l)
  BY <1>u DEF CollectorTypes, Stays
<1>a. journal = <<>> => paid \subseteq Brought
  BY OfEmpty DEF CollectorInv, Calls, Brought, AccountedFor
<1>6. CollectorTypes'
  <2>1. "restore" \in Pcs
    BY DEF Pcs
  <2>2. (IF journal = <<>> THEN trials[k] ELSE {}) \in SUBSET PaidTrials
    BY <1>3, Ranges, CollectorAssumption DEF CollectorTypes
  <2>3. Charged(journal) \in 0..run_max_usd
    BY <1>3, ChargedIsNatural, Ranges
  <2>4. (IF journal = <<>> THEN NoFile ELSE Len(journal)) \in Nat \cup {NoFile}
    BY <1>3, Ranges, CollectorAssumption DEF CollectorTypes
  <2>. QED  BY <2>1, <2>2, <2>3, <2>4, <1>u, <1>4 DEF CollectorTypes
<1>7. Standing(k)'
  BY <1>3, <1>4 DEF CollectorTypes, Own, Standing, Appending
<1>8. Holding(k)'
  <2>1. Brought' = Brought
    BY <1>4 DEF Brought
  <2>2. trials[k] \subseteq paid
    BY DEF Own, Holding
  <2>. QED  BY <1>3, <1>4, <1>a, <2>1, <2>2 DEF Own, Holding
<1>9. Working(k)'
  BY <1>3, <1>4 DEF Own, Working, Missing
<1>10. Evaluating(k)'
  BY <1>3, <1>4 DEF Own, Evaluating, Missing, CopiedRecords
<1>11. pc'[k] \in Calling
         => \/ pc[k] \in Calling /\ job'[k].id = job[k].id
            \/ \A l \in Collectors : job[l].id # job'[k].id
  BY <1>3 DEF Calling
<1>12. ~shared => AloneFor(k)'
  BY <1>3, <1>4 DEF CollectorInv, Alone, AloneFor
<1>13. ~shared /\ ~partial'
         => RestoringFor(k)' /\ \A t \in todo[k] : t \in todo'[k] \/ Bound(journal, t)
  <2>1. SUFFICES ASSUME ~shared, ~partial
                 PROVE  RestoringFor(k)'
    BY <1>3, <1>4
  <2>2. Restoring /\ \A l \in Collectors : todo[l] = {}
    <3>1. Restoring /\ Alone
      BY <2>1 DEF CollectorInv
    <3>2. \A l \in Collectors : l # k => pc[l] = "off"
      BY <1>3, <3>1 DEF Alone
    <3>. QED  BY <1>3, <3>1, <3>2 DEF CollectorInv, Own, Holding
  <2>3. \A t \in Brought : Bound(journal, t) \/ t \in todo'[k]
    <3>1. CASE journal = <<>>
      BY <1>3, <3>1 DEF Own, Holding
    <3>2. CASE journal # <<>>
      BY <2>2, <3>2 DEF Restoring
    <3>. QED  BY <3>1, <3>2
  <2>4. \A t \in paid \ todo'[k] : Bound(journal, t) \/ AccountedFor(journal, t)
    BY <2>3 DEF CollectorInv, Calls, Brought
  <2>5. \A t, u \in paid \ todo'[k] : t.id = u.id => t = u
    BY DEF CollectorInv, Calls
  <2>6. (paid \ todo'[k]) \in SUBSET PaidTrials
    BY DEF CollectorTypes
  <2>7. Cost(paid \ todo'[k]) <= Charged(journal)
    BY <2>4, <2>5, <2>6, AccountedIsCharged DEF CollectorTypes
  <2>8. Charged(journal) + 0 = Charged(journal)
    BY ChargedIsNatural
  <2>9. Brought' = Brought /\ Uncharged(k)' = 0
    BY <1>3, <1>4 DEF Brought, Uncharged
  <2>. QED  BY <1>3, <1>4, <2>3, <2>7, <2>8, <2>9 DEF RestoringFor
<1>. QED
  BY <1>3, <1>4, <1>5, <1>6, <1>7, <1>8, <1>9, <1>10, <1>11, <1>12, <1>13, QuietStep DEF Own

LEMMA AppendRaisesKeeps ==
  ASSUME CollectorInv, NEW k \in Collectors, AppendRaises(k)
  PROVE  CollectorInv'
<1>. CollectorTypes /\ Own(k)
  BY DEF CollectorInv
<1>1. CASE Raises(k)
  <2>1. pc[k] # "off"
    BY DEF AppendRaises, Own, Standing, Appending
  <2>. QED  BY <1>1, <2>1, RaisesKeeps
<1>2. SUFFICES ASSUME ~Raises(k) PROVE CollectorInv'
  BY <1>1
<1>g. /\ step[k] \in {"inspect", "attest"} /\ pc[k] = "reconcile" /\ job[k] \in PaidTrials
  <2>1. pc[k] = "reconcile" /\ step[k] \in {"inspect", "attest"}
    BY <1>2 DEF AppendRaises
  <2>. QED  BY <2>1 DEF Own, Working
<1>u. /\ pc' = [pc EXCEPT ![k] = "forfeit"] /\ step' = [step EXCEPT ![k] = "inspect"]
      /\ pending' = [pending EXCEPT ![k] = [ev |-> "forfeit", id |-> job[k].id, usd |-> per_call]]
      /\ UNCHANGED <<trials, todo, job, spent, identity, snapshot>>
  <2>1. pending[k].id = job[k].id
    BY <1>g DEF Own, Standing
  <2>. QED  BY <1>2, <1>g, <2>1 DEF AppendRaises, Begin, Goto, files, append, memory, history
<1>3. /\ step[k] \in {"inspect", "attest"} /\ pc[k] = "reconcile" /\ job[k] \in PaidTrials
      /\ pc'[k] = "forfeit" /\ step'[k] = "inspect"
      /\ pending'[k] = [ev |-> "forfeit", id |-> job[k].id, usd |-> per_call]
      /\ trials'[k] = trials[k] /\ todo'[k] = todo[k] /\ job'[k] = job[k]
      /\ spent'[k] = spent[k] /\ identity'[k] = identity[k] /\ snapshot'[k] = snapshot[k]
  BY <1>g, <1>u DEF CollectorTypes
<1>4. UNCHANGED <<journal, checkpoint, paid, accepted, starts, shared, partial>>
  BY <1>2 DEF AppendRaises, Begin, Goto, files, append, memory, history
<1>5. \A l \in Collectors \ {k} : Stays(l)
  BY <1>u DEF CollectorTypes, Stays
<1>6. CollectorTypes'
  <2>1. "forfeit" \in Pcs
    BY DEF Pcs
  <2>2. "inspect" \in {"none", "inspect", "write", "attest"}
    OBVIOUS
  <2>3. [ev |-> "forfeit", id |-> job[k].id, usd |-> per_call] \in Entries \cup {NoRecord}
    BY <1>3, Ranges DEF Entries, PaidTrials
  <2>. QED  BY <2>1, <2>2, <2>3, <1>u, <1>4 DEF CollectorTypes
<1>7. Standing(k)'
  BY <1>3, <1>4 DEF CollectorTypes, Own, Standing, Appending
<1>8. Holding(k)'
  BY <1>3, <1>4 DEF Own, Holding, Brought
<1>9. Working(k)'
  BY <1>3, <1>4 DEF Own, Working, Missing
<1>10. Evaluating(k)'
  BY <1>3, <1>4 DEF Own, Evaluating, Missing, CopiedRecords
<1>11. pc'[k] \in Calling
         => \/ pc[k] \in Calling /\ job'[k].id = job[k].id
            \/ \A l \in Collectors : job[l].id # job'[k].id
  BY <1>3 DEF Calling
<1>12. ~shared => AloneFor(k)'
  BY <1>3, <1>4 DEF CollectorInv, Alone, AloneFor
<1>13. ~shared /\ ~partial'
         => RestoringFor(k)' /\ \A t \in todo[k] : t \in todo'[k] \/ Bound(journal, t)
  <2>1. SUFFICES ASSUME ~shared, ~partial
                 PROVE  RestoringFor(k)'
    BY <1>3, <1>4
  <2>2. Cost(paid \ todo[k]) <= spent[k] + job[k].cost
    BY <1>3, <2>1 DEF CollectorInv, Restoring, RestoringFor, Uncharged
  <2>3. /\ job[k].cost \in Nat /\ job[k].cost <= per_call /\ per_call \in Nat
        /\ spent[k] \in Nat
    BY Amounts, Ranges
  <2>4. Cost(paid \ todo[k]) \in Nat
    BY PaidIsFinite, CostGrows, DollarsFinite
  <2>5. \A t \in Brought : Bound(journal, t) \/ t \in todo[k]
    BY <1>3, <2>1 DEF CollectorInv, Restoring, RestoringFor
  <2>6. Brought' = Brought /\ Uncharged(k)' = per_call
    BY <1>3, <1>4 DEF Brought, Uncharged
  <2>7. Cost(paid \ todo[k]) <= spent[k] + per_call
    BY <2>2, <2>3, <2>4
  <2>. QED  BY <1>3, <1>4, <2>5, <2>6, <2>7 DEF RestoringFor
<1>. QED
  BY <1>3, <1>4, <1>5, <1>6, <1>7, <1>8, <1>9, <1>10, <1>11, <1>12, <1>13, QuietStep DEF Own

LEMMA WriteKeeps ==
  ASSUME CollectorInv, NEW k \in Collectors, Write(k)
  PROVE  CollectorInv'
<1>. CollectorTypes /\ Own(k) /\ Calls
  BY DEF CollectorInv
<1>1. /\ step[k] = "write" /\ pc[k] \in Appending
      /\ journal' = Append(journal, pending[k]) /\ step' = [step EXCEPT ![k] = "attest"]
      /\ UNCHANGED <<checkpoint, pc, pending, trials, todo, job, spent, identity,
                     snapshot, paid, accepted, starts, shared, partial>>
  BY DEF Write, Own, Standing, memory, history
<1>2. pending[k] \in Entries /\ pending[k].id = job[k].id
  <2>1. job[k] \in PaidTrials
    BY <1>1 DEF Own, Standing, Working, Appending, CollectorTypes
  <2>. QED  BY <1>1, <2>1, Ranges DEF Own, Standing, Appending, Entries, PaidTrials
<1>3. pending[k].ev \in {"reconcile", "forfeit"} => pc[k] \in {"restoreClose", "reconcile", "forfeit"}
  BY <1>1 DEF Own, Standing, Appending
<1>4. pc[k] = "restoreClose" => pending[k].id \in Keys
  BY <1>2 DEF Own, Standing, Holding, Brought
<1>5. \A t \in paid :
        t.id \notin Keys /\ pending[k].id = t.id /\ pending[k].ev \in {"reconcile", "forfeit"}
        => pending[k].usd >= t.cost
  <2>1. SUFFICES ASSUME NEW t \in paid, t.id \notin Keys, pending[k].id = t.id,
                        pc[k] \in {"reconcile", "forfeit"}
                 PROVE  pending[k].usd >= t.cost
    BY <1>3, <1>4
  <2>2. t.cost \in Nat /\ t.cost <= per_call
    BY Ranges DEF CollectorTypes, PaidTrials
  <2>3. CASE pc[k] = "reconcile"
    <3>1. job[k] \in paid /\ pending[k].usd = job[k].cost
      BY <2>3 DEF Own, Standing, Working
    <3>2. job[k] = t
      BY <1>2, <2>1, <3>1 DEF Calls
    <3>. QED  BY <2>2, <3>1, <3>2
  <2>4. CASE pc[k] = "forfeit"
    BY <2>2, <2>4, Ranges DEF Own, Standing
  <2>. QED  BY <2>1, <2>3, <2>4
<1>6. \A l \in Collectors :
        pc[l] \in {"reserve", "call"} /\ pending[k].ev \in {"reconcile", "forfeit"}
        => pending[k].id # job[l].id
  <2>1. SUFFICES ASSUME NEW l \in Collectors, pc[l] \in {"reserve", "call"},
                        pc[k] \in {"restoreClose", "reconcile", "forfeit"}
                 PROVE  pending[k].id # job[l].id
    BY <1>3
  <2>2. job[l].id \notin Keys
    BY <2>1 DEF CollectorInv, Own, Working
  <2>3. CASE pc[k] = "restoreClose"
    BY <1>4, <2>2, <2>3
  <2>4. CASE pc[k] \in {"reconcile", "forfeit"}
    BY <1>2, <2>1, <2>4 DEF Calls, Calling
  <2>. QED  BY <2>1, <2>3, <2>4
<1>7. CollectorTypes'
  BY <1>1, <1>2, OfAppend DEF CollectorTypes
<1>8. \A l \in Collectors : Own(l)'
  <2>1. SUFFICES ASSUME NEW l \in Collectors PROVE Own(l)'
    OBVIOUS
  <2>2. Own(l) /\ journal \in Seq(Entries)
    BY DEF CollectorInv, CollectorTypes
  <2>3. CASE l # k
    <3>1. Stays(l)
      BY <1>1, <2>3 DEF Stays, CollectorTypes
    <3>. QED  BY <1>1, <1>2, <1>6, <2>2, <3>1, StaysWhileWritten
  <2>4. CASE l = k
    <3>1. Holding(k)' /\ Working(k)' /\ Evaluating(k)'
      BY <1>1, <1>2, <1>6, <2>2, KeptWhileWritten
    <3>2. /\ Len(journal) \in Nat /\ Len(journal') = Len(journal) + 1
          /\ journal'[Len(journal')] = pending[k] /\ Len(journal') \in 1..Len(journal')
      BY <1>1, <1>2 DEF CollectorTypes
    <3>3. step'[k] = "attest"
      BY <1>1 DEF CollectorTypes
    <3>4. identity'[k] \in 0..Len(journal') \cup {NoFile}
      BY <1>1, <3>2 DEF Own, Standing
    <3>5. \E n \in 1..Len(journal') : journal'[n] = pending'[k]
      BY <1>1, <3>2
    <3>6. Standing(k)'
      BY <1>1, <3>3, <3>4, <3>5 DEF Own, Standing
    <3>. QED  BY <2>4, <3>1, <3>6 DEF Own
  <2>. QED  BY <2>3, <2>4
<1>9. Brought' = Brought
  BY <1>1 DEF Brought
<1>10. Calls'
  <2>1. \A t \in paid : t.id \in Keys \/ AccountedFor(journal', t)
    BY <1>1, <1>2, <1>5, AccountStays DEF Calls, CollectorTypes
  <2>. QED  BY <1>1, <1>9, <2>1 DEF Calls, OnePerKey
<1>11. EvidenceCoversSpend'
  BY <1>1 DEF CollectorInv, EvidenceCoversSpend
<1>12. shared' \/ Alone'
  BY <1>1 DEF CollectorInv, Alone, AloneFor
<1>13. shared' \/ partial' \/ Restoring'
  <2>1. SUFFICES ASSUME ~shared, ~partial PROVE Restoring'
    BY <1>1
  <2>2. \A l \in Collectors : RestoringFor(l)
    BY <2>1 DEF CollectorInv, Restoring
  <2>3. \A t \in Brought : Bound(journal, t) => Bound(journal', t)
    BY <1>1, <1>2, BoundStays DEF CollectorTypes
  <2>4. \A l \in Collectors : RestoringFor(l)'
    BY <1>1, <1>9, <2>2, <2>3 DEF RestoringFor, Uncharged
  <2>5. \A t \in Brought : Bound(journal', t) \/ \E l \in Collectors : t \in todo'[l]
    BY <1>1, <2>2, <2>3 DEF RestoringFor, Appending
  <2>. QED  BY <1>9, <2>4, <2>5 DEF Restoring
<1>14. CeilingHoldsAlone' /\ PaidIsKept'
  BY <1>1 DEF CollectorInv, CeilingHoldsAlone, PaidIsKept
<1>. QED  BY <1>7, <1>8, <1>10, <1>11, <1>12, <1>13, <1>14 DEF CollectorInv

LEMMA CallKeeps ==
  ASSUME CollectorInv, NEW k \in Collectors, NEW answered \in BOOLEAN, Call(k, answered)
  PROVE  CollectorInv'
<1>. CollectorTypes /\ Own(k) /\ Calls
  BY DEF CollectorInv
<1>1. PICK cost \in Usd :
        LET t == [job[k] EXCEPT !.cost = cost]
        IN /\ paid' = paid \cup {t}
           /\ job' = [job EXCEPT ![k] = IF answered THEN t ELSE job[k]]
           /\ IF answered
                THEN Begin(k, "reconcile", [ev |-> "reconcile", id |-> t.id, usd |-> cost])
                ELSE Begin(k, "forfeit", [ev |-> "forfeit", id |-> t.id, usd |-> per_call])
  BY DEF Call
<1> DEFINE t == [job[k] EXCEPT !.cost = cost]
<1>2. /\ pc[k] = "call"
      /\ UNCHANGED <<journal, checkpoint, trials, todo, spent, identity, snapshot, accepted,
                     starts, shared, partial>>
  BY DEF Call, files
<1>3. /\ job[k] \in PaidTrials /\ job[k].id \notin Keys /\ job[k].key \in Missing(k)
      /\ \A u \in paid : u.id # job[k].id
      /\ Closes(journal, job[k].id) = {} /\ todo[k] = {}
      /\ \E r \in Of(journal, job[k].id, {"reserve"}) : r.usd = per_call
      /\ spent[k] + per_call <= run_max_usd
  BY <1>2 DEF Own, Standing, Holding, Working
<1>4. /\ t \in PaidTrials /\ t.id = job[k].id /\ t.key = job[k].key /\ t.cost = cost
  BY <1>3 DEF PaidTrials
<1>5. cost \in Nat /\ cost <= per_call
  BY Ranges
<1>. HIDE DEF t
<1>6. paid' = paid \cup {t} /\ t \notin paid
  BY <1>1, <1>3, <1>4 DEF t
<1>7. /\ pc' = [pc EXCEPT ![k] = IF answered THEN "reconcile" ELSE "forfeit"]
      /\ step' = [step EXCEPT ![k] = "inspect"]
      /\ job' = [job EXCEPT ![k] = IF answered THEN t ELSE job[k]]
      /\ pending' = [pending EXCEPT ![k] =
           IF answered THEN [ev |-> "reconcile", id |-> t.id, usd |-> cost]
           ELSE [ev |-> "forfeit", id |-> t.id, usd |-> per_call]]
  BY <1>1 DEF t, Begin, Goto
<1>8. \A l \in Collectors \ {k} : Stays(l)
  BY <1>2, <1>7 DEF Stays, CollectorTypes
<1>9. Brought' = Brought
  BY <1>3, <1>4, <1>6 DEF Brought
<1>10. /\ pc'[k] = (IF answered THEN "reconcile" ELSE "forfeit") /\ step'[k] = "inspect"
       /\ job'[k] = (IF answered THEN t ELSE job[k])
       /\ pending'[k] = IF answered THEN [ev |-> "reconcile", id |-> t.id, usd |-> cost]
                        ELSE [ev |-> "forfeit", id |-> t.id, usd |-> per_call]
  BY <1>7 DEF CollectorTypes
<1>11. CollectorTypes'
  <2>1. (IF answered THEN [ev |-> "reconcile", id |-> t.id, usd |-> cost]
         ELSE [ev |-> "forfeit", id |-> t.id, usd |-> per_call]) \in Entries
    BY <1>4, Ranges DEF Entries, PaidTrials
  <2>2. pc' \in [Collectors -> Pcs]
    BY <1>7 DEF CollectorTypes, Pcs
  <2>. QED  BY <1>2, <1>3, <1>4, <1>6, <1>7, <2>1, <2>2 DEF CollectorTypes
<1>12. Own(k)'
  <2>1. Standing(k)'
    BY <1>2, <1>3, <1>4, <1>10 DEF Own, Standing, Appending
  <2>2. Holding(k)'
    BY <1>2, <1>3, <1>6, <1>9 DEF Own, Holding
  <2>3. Working(k)'
    <3>1. Missing(k)' = Missing(k)
      BY <1>2 DEF Missing
    <3>. QED  BY <1>3, <1>4, <1>6, <1>10, <3>1 DEF Working
  <2>4. Evaluating(k)'
    BY <1>10 DEF Evaluating
  <2>. QED  BY <2>1, <2>2, <2>3, <2>4 DEF Own
<1>13. \A l \in Collectors : Own(l)'
  <2>1. SUFFICES ASSUME NEW l \in Collectors, l # k PROVE Own(l)'
    BY <1>12
  <2>2. pc[l] \in {"reserve", "call"} => t.id # job[l].id
    BY <1>2, <1>4, <2>1 DEF Calls, Calling
  <2>3. Own(l) /\ Stays(l)
    BY <1>8, <2>1 DEF CollectorInv
  <2>. QED  BY <1>2, <1>3, <1>4, <1>6, <2>2, <2>3, StaysWhilePaid
<1>14. Calls'
  <2>1. \A u, v \in paid' : u.id = v.id => u = v
    BY <1>3, <1>4, <1>6 DEF Calls
  <2>2. AccountedFor(journal, t)
    BY <1>3, <1>4 DEF AccountedFor
  <2>3. \A u \in paid' : u.id \in Keys \/ AccountedFor(journal', u)
    BY <1>2, <1>6, <2>2 DEF Calls
  <2>4. \A l, m \in Collectors :
          l # m /\ pc'[l] \in Calling /\ pc'[m] \in Calling => job'[l].id # job'[m].id
    <3>1. \A l \in Collectors :
            (pc'[l] \in Calling => pc[l] \in Calling) /\ job'[l].id = job[l].id
      BY <1>2, <1>4, <1>8, <1>10 DEF Calling, Stays
    <3>. QED  BY <3>1 DEF Calls
  <2>. QED  BY <1>2, <1>6, <1>9, <2>1, <2>3, <2>4 DEF Calls, OnePerKey
<1>15. EvidenceCoversSpend'
  BY <1>2 DEF CollectorInv, EvidenceCoversSpend
<1>16. /\ IsFiniteSet(paid) /\ Cardinality(paid') = Cardinality(paid) + 1
       /\ Cost(paid) \in Nat /\ Cost(paid') \in Nat /\ Cost(paid') <= Cost(paid) + cost
  <2>1. IsFiniteSet(paid)
    BY PaidIsFinite
  <2>2. IsFiniteSet(paid') /\ Cardinality(paid') = Cardinality(paid) + 1
    BY <1>6, <2>1, FS_AddElement
  <2>3. Cost(paid') <= Cost(paid) + cost
    BY <1>4, <1>5, <1>6, <2>1, CostAdds
  <2>. QED  BY <2>1, <2>2, <2>3, DollarsFinite
<1>17. ~shared => \A l \in Collectors : l # k => pc[l] = "off" /\ pc'[l] = "off"
  BY <1>2, <1>8 DEF CollectorInv, Alone, Stays
<1>18. shared' \/ Alone'
  <2>1. SUFFICES ASSUME ~shared PROVE Alone'
    BY <1>2
  <2>2. AloneFor(k)'
    BY <1>2, <1>10, <2>1 DEF CollectorInv, Alone, AloneFor
  <2>3. \A l \in Collectors : AloneFor(l)'
    BY <1>17, <2>1, <2>2 DEF AloneFor
  <2>. QED  BY <1>17, <2>1, <2>3 DEF Alone
<1>19. ~shared /\ ~partial => Cost(paid) <= spent[k] /\ RestoringFor(k)
  <2>1. SUFFICES ASSUME ~shared, ~partial
                 PROVE  Cost(paid) <= spent[k] /\ RestoringFor(k)
    OBVIOUS
  <2>2. RestoringFor(k)
    BY <2>1 DEF CollectorInv, Restoring
  <2>3. paid \ todo[k] = paid /\ Uncharged(k) = 0 /\ spent[k] + 0 = spent[k]
    BY <1>2, <1>3, Amounts DEF Uncharged
  <2>. QED  BY <1>2, <2>2, <2>3 DEF RestoringFor
<1>20. shared' \/ partial' \/ Restoring'
  <2>1. SUFFICES ASSUME ~shared, ~partial PROVE Restoring'
    BY <1>2
  <2>2. paid' \ todo'[k] = paid'
    BY <1>2, <1>3
  <2>3. Cost(paid') <= spent[k] + Uncharged(k)'
    <3>1. Uncharged(k)' = (IF answered THEN cost ELSE per_call)
      BY <1>4, <1>10 DEF Uncharged
    <3>. QED  BY <1>5, <1>16, <1>19, <2>1, <3>1, Amounts, Ranges
  <2>4. \A u \in Brought : Bound(journal, u) \/ u \in todo[k]
    BY <1>2, <1>19, <2>1 DEF RestoringFor
  <2>5. RestoringFor(k)'
    BY <1>2, <1>9, <2>2, <2>3, <2>4 DEF RestoringFor
  <2>6. \A l \in Collectors : RestoringFor(l)'
    BY <1>17, <2>1, <2>5 DEF RestoringFor
  <2>. QED  BY <1>2, <1>9, <2>4, <2>6 DEF Restoring
<1>21. CeilingHoldsAlone'
  <2>1. SUFFICES ASSUME ~shared, ~partial PROVE Cost(paid') <= run_max_usd
    BY <1>2 DEF CeilingHoldsAlone
  <2>. QED  BY <1>3, <1>5, <1>16, <1>19, <2>1, Amounts, Ranges
<1>22. PaidIsKept'
  <2>1. SUFFICES ASSUME ~shared
                 PROVE  Cardinality(paid') <= Cardinality(checkpoint) + starts
    BY <1>2 DEF PaidIsKept
  <2>2. Cardinality(paid) + 1 <= Cardinality(checkpoint) + starts
    BY <1>2, <2>1 DEF CollectorInv, Alone, AloneFor
  <2>. QED  BY <1>16, <2>2
<1>. QED  BY <1>11, <1>13, <1>14, <1>15, <1>18, <1>20, <1>21, <1>22 DEF CollectorInv

LEMMA WriteCheckpointKeeps ==
  ASSUME CollectorInv, NEW k \in Collectors, WriteCheckpoint(k)
  PROVE  CollectorInv'
<1>. CollectorTypes /\ Own(k) /\ Calls
  BY DEF CollectorInv
<1>1. /\ pc[k] = "checkpoint" /\ checkpoint' = trials[k]
      /\ pc' = [pc EXCEPT ![k] = "restore"] /\ job' = [job EXCEPT ![k] = NoTrial]
      /\ UNCHANGED <<journal, step, pending, trials, todo, spent, identity, snapshot, paid,
                     accepted, starts, shared, partial>>
  BY DEF WriteCheckpoint, Goto, append, history
<1>2. pc'[k] = "restore" /\ \A l \in Collectors \ {k} : Stays(l)
  BY <1>1 DEF CollectorTypes, Stays
<1>3. CollectorTypes'
  BY <1>1 DEF CollectorTypes, Pcs
<1>4. Brought' = Brought
  BY <1>1 DEF Brought
<1>5. Own(k)'
  <2>1. Standing(k)'
    BY <1>1, <1>2 DEF Own, Standing, Appending
  <2>2. Holding(k)'
    BY <1>1, <1>2, <1>4 DEF Own, Holding
  <2>3. Working(k)' /\ Evaluating(k)'
    BY <1>2 DEF Working, Evaluating
  <2>. QED  BY <2>1, <2>2, <2>3 DEF Own
<1>6. \A l \in Collectors : Own(l)'
  BY <1>1, <1>2, <1>5, StaysWhileQuiet DEF CollectorInv
<1>7. Calls'
  <2>1. Brought \subseteq trials[k] /\ trials[k] \subseteq paid /\ OnePerKey(trials[k])
    BY <1>1 DEF Own, Holding
  <2>2. \A l, m \in Collectors :
          l # m /\ pc'[l] \in Calling /\ pc'[m] \in Calling => job'[l].id # job'[m].id
    BY <1>2 DEF Calls, Calling, Stays
  <2>. QED  BY <1>1, <1>4, <2>1, <2>2 DEF Calls, OnePerKey
<1>8. EvidenceCoversSpend'
  BY <1>1 DEF CollectorInv, EvidenceCoversSpend
<1>9. ~shared => Cardinality(paid) + 1 <= Cardinality(checkpoint') + starts
  <2>1. SUFFICES ASSUME ~shared
                 PROVE  Cardinality(paid) + 1 <= Cardinality(trials[k]) + starts
    BY <1>1
  <2>2. trials[k] = checkpoint \cup {job[k]} /\ job[k] \notin checkpoint
    BY <1>1, <2>1 DEF CollectorInv, Alone, AloneFor
  <2>3. IsFiniteSet(paid) /\ IsFiniteSet(checkpoint)
    BY PaidIsFinite, FS_Subset DEF Calls
  <2>4. Cardinality(trials[k]) = Cardinality(checkpoint) + 1
    BY <2>2, <2>3, FS_AddElement
  <2>5. Cardinality(paid) \in Nat /\ Cardinality(checkpoint) \in Nat
    BY <2>3, FS_CardinalityType
  <2>6. Cardinality(paid) <= Cardinality(checkpoint) + starts
    BY <2>1 DEF CollectorInv, PaidIsKept
  <2>. QED  BY <2>4, <2>5, <2>6 DEF CollectorTypes
<1>10. shared' \/ Alone'
  <2>1. SUFFICES ASSUME ~shared PROVE Alone'
    BY <1>1
  <2>2. \A l \in Collectors : l # k => pc'[l] = "off"
    BY <1>1, <1>2, <2>1 DEF CollectorInv, Alone, Stays
  <2>3. AloneFor(k)'
    BY <1>1, <1>2, <1>9, <2>1 DEF AloneFor
  <2>4. \A l \in Collectors : AloneFor(l)'
    BY <2>2, <2>3 DEF AloneFor
  <2>. QED  BY <2>2, <2>4 DEF Alone
<1>11. shared' \/ partial' \/ Restoring'
  <2>1. SUFFICES ASSUME ~shared, ~partial PROVE Restoring'
    BY <1>1
  <2>2. Restoring
    BY <2>1 DEF CollectorInv
  <2>3. \A l \in Collectors : RestoringFor(l)'
    BY <1>1, <1>2, <1>4, <2>2 DEF Restoring, RestoringFor, Uncharged, Stays
  <2>. QED  BY <1>1, <1>4, <2>2, <2>3 DEF Restoring
<1>12. CeilingHoldsAlone'
  BY <1>1 DEF CollectorInv, CeilingHoldsAlone
<1>13. PaidIsKept'
  <2>1. SUFFICES ASSUME ~shared
                 PROVE  Cardinality(paid) <= Cardinality(checkpoint') + starts
    BY <1>1 DEF PaidIsKept
  <2>2. IsFiniteSet(paid) /\ IsFiniteSet(checkpoint')
    BY <1>1, PaidIsFinite, FS_Subset DEF Own, Holding
  <2>3. Cardinality(paid) \in Nat /\ Cardinality(checkpoint') \in Nat
    BY <2>2, FS_CardinalityType
  <2>. QED  BY <1>9, <2>1, <2>3 DEF CollectorTypes
<1>. QED  BY <1>3, <1>6, <1>7, <1>8, <1>10, <1>11, <1>12, <1>13 DEF CollectorInv

LEMMA PublishKeeps ==
  ASSUME CollectorInv, NEW k \in Collectors, Publish(k)
  PROVE  CollectorInv'
<1>. CollectorTypes /\ Own(k) /\ Calls
  BY DEF CollectorInv
<1>1. /\ pc[k] = "publish" /\ Ends(k) /\ checkpoint' = trials[k]
      /\ accepted' = accepted \cup
           (IF spent[k] <= run_max_usd
              THEN {[trials |-> trials[k], charged |-> spent[k], paid |-> snapshot[k]]}
              ELSE {})
      /\ UNCHANGED <<journal, paid>>
  BY DEF Publish
<1>2. /\ \A l \in Collectors \ {k} : Stays(l)
      /\ pc'[k] = "off" /\ starts' = starts /\ shared' = shared
      /\ partial' = partial /\ Own(k)' /\ todo[k] = {}
  <2>1. todo[k] = {}
    BY <1>1 DEF Own, Holding
  <2>. QED  BY <1>1, <2>1, EndsShape, EndsOwn DEF CollectorTypes
<1>3. CollectorTypes'
  BY <1>1, EndsShape DEF CollectorTypes
<1>4. \A l \in Collectors : Own(l)'
  BY <1>1, <1>2, StaysWhileQuiet DEF CollectorInv
<1>5. Brought' = Brought
  BY <1>1 DEF Brought
<1>6. Calls'
  <2>1. Brought \subseteq trials[k] /\ trials[k] \subseteq paid /\ OnePerKey(trials[k])
    BY <1>1 DEF Own, Holding
  <2>2. \A l, m \in Collectors :
          l # m /\ pc'[l] \in Calling /\ pc'[m] \in Calling => job'[l].id # job'[m].id
    BY <1>2 DEF Calls, Calling, Stays
  <2>. QED  BY <1>1, <1>5, <2>1, <2>2 DEF Calls, OnePerKey
<1>7. EvidenceCoversSpend'
  <2>1. Cost(snapshot[k]) <= spent[k] /\ spent[k] <= run_max_usd
    BY <1>1, Amounts DEF Own, Evaluating
  <2>2. trials[k] \subseteq snapshot[k] /\ Missing(k) = {}
    BY <1>1 DEF Own, Evaluating
  <2>3. {t.key : t \in trials[k]} = Keys
    BY <2>2 DEF Missing, CollectorTypes, PaidTrials
  <2>4. SUFFICES ASSUME NEW e \in accepted'
                 PROVE  /\ Cost(e.paid) <= e.charged /\ e.charged <= run_max_usd
                        /\ e.trials \subseteq e.paid
                        /\ {t.key : t \in e.trials} = Keys
    BY DEF EvidenceCoversSpend
  <2>5. CASE e \in accepted
    BY <2>5 DEF CollectorInv, EvidenceCoversSpend
  <2>6. CASE e = [trials |-> trials[k], charged |-> spent[k], paid |-> snapshot[k]]
    <3>1. e.trials = trials[k] /\ e.charged = spent[k] /\ e.paid = snapshot[k]
      BY <2>6
    <3>. QED  BY <2>1, <2>2, <2>3, <3>1
  <2>. QED  BY <1>1, <2>4, <2>5, <2>6
<1>8. ~shared => checkpoint' = checkpoint /\ \A l \in Collectors : pc'[l] = "off"
  <2>1. SUFFICES ASSUME ~shared
                 PROVE  checkpoint' = checkpoint /\ \A l \in Collectors : pc'[l] = "off"
    OBVIOUS
  <2>2. Alone
    BY <2>1 DEF CollectorInv
  <2>3. trials[k] = checkpoint
    BY <1>1, <2>2 DEF Alone, AloneFor
  <2>4. \A l \in Collectors : pc'[l] = "off"
    BY <1>1, <1>2, <2>2 DEF Alone, Stays
  <2>. QED  BY <1>1, <2>3, <2>4
<1>9. shared' \/ Alone'
  BY <1>2, <1>8 DEF Alone, AloneFor
<1>10. shared' \/ partial' \/ Restoring'
  <2>1. SUFFICES ASSUME ~shared, ~partial PROVE Restoring'
    BY <1>2
  <2>2. Restoring /\ \A l \in Collectors : RestoringFor(l)'
    BY <1>8, <2>1 DEF CollectorInv, RestoringFor
  <2>3. \A t \in Brought : Bound(journal, t)
    BY <1>1, <1>2, <2>2 DEF Restoring, RestoringFor
  <2>. QED  BY <1>1, <1>5, <2>2, <2>3 DEF Restoring
<1>11. CeilingHoldsAlone'
  BY <1>1, <1>2 DEF CollectorInv, CeilingHoldsAlone
<1>12. PaidIsKept'
  BY <1>1, <1>2, <1>8 DEF CollectorInv, PaidIsKept
<1>. QED  BY <1>3, <1>4, <1>6, <1>7, <1>9, <1>10, <1>11, <1>12 DEF CollectorInv

LEMMA ResumeKeeps ==
  ASSUME CollectorInv, NEW k \in Collectors, Resume(k)
  PROVE  CollectorInv'
<1>. CollectorTypes /\ Own(k) /\ Calls
  BY DEF CollectorInv
<1>1. /\ pc[k] = "off" /\ starts' = starts + 1
      /\ shared' = (shared \/ \E other \in Collectors : pc[other] # "off")
      /\ trials' = [trials EXCEPT ![k] = checkpoint]
      /\ pc' = [pc EXCEPT ![k] = "ledger"]
      /\ UNCHANGED <<journal, checkpoint, step, pending, todo, job, spent, identity,
                     snapshot, paid, accepted, partial>>
  BY DEF Resume, Goto, files, append
<1>2. /\ pc'[k] = "ledger" /\ trials'[k] = checkpoint /\ todo[k] = {}
      /\ \A l \in Collectors \ {k} : Stays(l)
  BY <1>1 DEF CollectorTypes, Stays, Own, Holding
<1>3. CollectorTypes'
  <2>1. starts + 1 \in Nat /\ shared' \in BOOLEAN
    BY <1>1 DEF CollectorTypes
  <2>2. pc' \in [Collectors -> Pcs]
    BY <1>1 DEF CollectorTypes, Pcs
  <2>. QED  BY <1>1, <2>1, <2>2 DEF CollectorTypes
<1>4. Brought' = Brought
  BY <1>1 DEF Brought
<1>5. Own(k)'
  <2>1. Standing(k)'
    BY <1>1, <1>2 DEF Own, Standing, Appending
  <2>2. Holding(k)'
    BY <1>1, <1>2, <1>4 DEF Holding, Calls
  <2>3. Working(k)' /\ Evaluating(k)'
    BY <1>2 DEF Working, Evaluating
  <2>. QED  BY <2>1, <2>2, <2>3 DEF Own
<1>6. \A l \in Collectors : Own(l)'
  BY <1>1, <1>2, <1>5, StaysWhileQuiet DEF CollectorInv
<1>7. Calls'
  <2>1. \A l, m \in Collectors :
          l # m /\ pc'[l] \in Calling /\ pc'[m] \in Calling => job'[l].id # job'[m].id
    BY <1>2 DEF Calls, Calling, Stays
  <2>. QED  BY <1>1, <1>4, <2>1 DEF Calls, OnePerKey
<1>8. EvidenceCoversSpend'
  BY <1>1 DEF CollectorInv, EvidenceCoversSpend
<1>9. ~shared' => ~shared /\ \A l \in Collectors : l # k => pc'[l] = "off"
  BY <1>1, <1>2 DEF Stays
<1>10. /\ Cardinality(paid) \in Nat /\ Cardinality(checkpoint) \in Nat /\ starts \in Nat
  <2>1. IsFiniteSet(paid) /\ IsFiniteSet(checkpoint)
    BY PaidIsFinite, FS_Subset DEF Calls
  <2>. QED  BY <2>1, FS_CardinalityType DEF CollectorTypes
<1>11. shared' \/ Alone'
  <2>1. SUFFICES ASSUME ~shared' PROVE Alone'
    OBVIOUS
  <2>2. Cardinality(paid) <= Cardinality(checkpoint) + starts
    BY <1>9, <2>1 DEF CollectorInv, PaidIsKept
  <2>3. Cardinality(paid) + 1 <= Cardinality(checkpoint) + (starts + 1)
    BY <1>10, <2>2
  <2>4. AloneFor(k)'
    BY <1>1, <1>2, <2>3 DEF AloneFor
  <2>5. \A l \in Collectors : AloneFor(l)'
    BY <1>9, <2>1, <2>4 DEF AloneFor
  <2>. QED  BY <1>9, <2>1, <2>5 DEF Alone
<1>12. shared' \/ partial' \/ Restoring'
  <2>1. SUFFICES ASSUME ~shared', ~partial PROVE Restoring'
    BY <1>1
  <2>2. Restoring
    BY <1>9, <2>1 DEF CollectorInv
  <2>3. \A l \in Collectors : RestoringFor(l)'
    BY <1>2, <1>9, <2>1 DEF RestoringFor
  <2>. QED  BY <1>1, <1>4, <2>2, <2>3 DEF Restoring
<1>13. CeilingHoldsAlone'
  BY <1>1, <1>9 DEF CollectorInv, CeilingHoldsAlone
<1>14. PaidIsKept'
  <2>1. ~shared' => Cardinality(paid) <= Cardinality(checkpoint) + starts
    BY <1>9 DEF CollectorInv, PaidIsKept
  <2>. QED  BY <1>1, <1>10, <2>1 DEF PaidIsKept
<1>. QED  BY <1>3, <1>6, <1>7, <1>8, <1>11, <1>12, <1>13, <1>14 DEF CollectorInv

LEMMA CollectorInitial == Init => CollectorInv
<1>. SUFFICES ASSUME Init PROVE CollectorInv
  OBVIOUS
<1>1. PICK n \in 0..N : \E cost \in [1..n -> Usd] :
        checkpoint = {[key |-> key, id |-> key, cost |-> cost[key]] : key \in 1..n}
  BY DEF Init
<1>2. PICK cost \in [1..n -> Usd] :
        checkpoint = {[key |-> key, id |-> key, cost |-> cost[key]] : key \in 1..n}
  BY <1>1
<1>3. n \in Nat /\ n <= N /\ 1..n \subseteq Keys
  BY <1>1, Ranges DEF Keys
<1>4. /\ checkpoint \subseteq PaidTrials /\ \A t \in checkpoint : t.id = t.key /\ t.id \in Keys
      /\ \A t, u \in checkpoint : t.key = u.key => t = u
  <2>1. \A key \in 1..n : [key |-> key, id |-> key, cost |-> cost[key]] \in PaidTrials
    BY <1>3, Ranges DEF PaidTrials
  <2>. QED  BY <1>2, <1>3, <2>1
<1>5. /\ paid = checkpoint /\ journal = <<>> /\ Cost(checkpoint) <= run_max_usd
      /\ accepted = {} /\ starts = 0 /\ shared = FALSE /\ partial = FALSE
      /\ \A k \in Collectors :
           /\ pc[k] = "off" /\ step[k] = "none" /\ trials[k] = {} /\ todo[k] = {}
           /\ identity[k] = NoFile
  BY DEF Init
<1>6. CollectorTypes
  <2>1. /\ pc \in [Collectors -> Pcs]
        /\ step \in [Collectors -> {"none", "inspect", "write", "attest"}]
        /\ pending \in [Collectors -> Entries \cup {NoRecord}]
    BY DEF Init, Pcs
  <2>2. /\ trials \in [Collectors -> SUBSET PaidTrials]
        /\ todo \in [Collectors -> SUBSET PaidTrials]
        /\ snapshot \in [Collectors -> SUBSET PaidTrials]
    BY DEF Init
  <2>3. /\ job \in [Collectors -> PaidTrials \cup {NoTrial}]
        /\ spent \in [Collectors -> 0..run_max_usd]
        /\ identity \in [Collectors -> Nat \cup {NoFile}]
    BY Ranges DEF Init
  <2>4. journal \in Seq(Entries)
    BY <1>5
  <2>5. starts \in Nat /\ shared \in BOOLEAN /\ partial \in BOOLEAN
    BY <1>5
  <2>. QED  BY <1>4, <1>5, <2>1, <2>2, <2>3, <2>4, <2>5 DEF CollectorTypes
<1>7. \A k \in Collectors : Own(k)
  BY <1>5 DEF Own, Standing, Holding, Working, Evaluating, Appending, OnePerKey
<1>8. Calls
  BY <1>4, <1>5 DEF Calls, Calling, Brought, OnePerKey
<1>9. Alone /\ Restoring
  BY <1>5 DEF Alone, AloneFor, Restoring, RestoringFor
<1>10. EvidenceCoversSpend /\ CeilingHoldsAlone
  BY <1>5 DEF EvidenceCoversSpend, CeilingHoldsAlone
<1>11. PaidIsKept
  <2>1. IsFiniteSet(paid)
    BY <1>4, <1>5, CallsAreFinite
  <2>. QED  BY <1>5, <2>1, FS_CardinalityType DEF PaidIsKept
<1>. QED  BY <1>6, <1>7, <1>8, <1>9, <1>10, <1>11 DEF CollectorInv

LEMMA CollectorStep == CollectorInv /\ [Next]_vars => CollectorInv'
<1>. SUFFICES ASSUME CollectorInv, [Next]_vars PROVE CollectorInv'
  OBVIOUS
<1>1. ASSUME NEW k \in Collectors, Work(k)
      PROVE  CollectorInv'
  <2>1. CASE Resume(k)
    BY <2>1, ResumeKeeps
  <2>2. CASE OpenLedger(k)
    BY <2>2, OpenLedgerKeeps
  <2>3. CASE Restore(k)
    BY <2>3, RestoreKeeps
  <2>4. CASE RestoreReserved(k)
    BY <2>4, RestoreReservedKeeps
  <2>5. CASE Restored(k)
    BY <2>5, RestoredKeeps
  <2>6. CASE Reserve(k)
    BY <2>6, ReserveKeeps
  <2>7. CASE Reserved(k)
    BY <2>7, ReservedKeeps
  <2>8. CASE Reconciled(k)
    BY <2>8, ReconciledKeeps
  <2>9. CASE Forfeited(k)
    BY <2>9, RaisesKeeps DEF Forfeited
  <2>10. CASE Validate(k)
    BY <2>10, ValidateKeeps
  <2>11. CASE Sync(k)
    BY <2>11, SyncKeeps
  <2>12. CASE WriteCheckpoint(k)
    BY <2>12, WriteCheckpointKeeps
  <2>13. CASE LastSync(k)
    BY <2>13, LastSyncKeeps
  <2>14. CASE Evaluate(k)
    BY <2>14, EvaluateKeeps
  <2>15. CASE Publish(k)
    BY <2>15, PublishKeeps
  <2>16. CASE Inspect(k)
    BY <2>16, InspectKeeps
  <2>17. CASE Write(k)
    BY <2>17, WriteKeeps
  <2>18. CASE AppendRaises(k)
    BY <2>18, AppendRaisesKeeps
  <2>. QED  BY <1>1, <2>1, <2>2, <2>3, <2>4, <2>5, <2>6, <2>7, <2>8, <2>9, <2>10, <2>11,
               <2>12, <2>13, <2>14, <2>15, <2>16, <2>17, <2>18 DEF Work
<1>2. ASSUME NEW k \in Collectors, Die(k)
      PROVE  CollectorInv'
  BY <1>2, RaisesKeeps DEF Die
<1>3. ASSUME NEW k \in Collectors, NEW answered \in BOOLEAN, Call(k, answered)
      PROVE  CollectorInv'
  BY <1>3, CallKeeps
<1>4. CASE UNCHANGED vars
  <2>1. /\ UNCHANGED <<journal, checkpoint, pc, step, pending, trials, todo, job, spent>>
        /\ UNCHANGED <<identity, snapshot, paid, accepted, starts, shared, partial>>
    BY <1>4 DEF vars, files, append, memory, history
  <2>2. CollectorTypes'
    BY <2>1 DEF CollectorInv, CollectorTypes
  <2>3. \A k \in Collectors : Own(k)'
    BY <2>1, StaysWhileQuiet DEF CollectorInv, Stays
  <2>4. Brought' = Brought
    BY <2>1 DEF Brought
  <2>5. Calls'
    BY <2>1, <2>4 DEF CollectorInv, Calls, OnePerKey
  <2>6. (shared' \/ Alone') /\ (shared' \/ partial' \/ Restoring')
    BY <2>1, <2>4 DEF CollectorInv, Alone, AloneFor, Restoring, RestoringFor, Uncharged
  <2>7. EvidenceCoversSpend' /\ CeilingHoldsAlone' /\ PaidIsKept'
    BY <2>1 DEF CollectorInv, EvidenceCoversSpend, CeilingHoldsAlone, PaidIsKept
  <2>. QED  BY <2>2, <2>3, <2>5, <2>6, <2>7 DEF CollectorInv
<1>. QED  BY <1>1, <1>2, <1>3, <1>4 DEF Next

LEMMA CollectorInvariant == Spec => []CollectorInv
BY CollectorInitial, CollectorStep, PTL DEF Spec

\* The collector's variables are of their types, its evidence among what it
\* recovered or paid, and what it counted within the ceiling (collect).
THEOREM CollectorTypeCorrect == Spec => []TypeOK
<1>1. CollectorInv => TypeOK
  <2>1. SUFFICES ASSUME CollectorInv PROVE TypeOK
    OBVIOUS
  <2>2. \A k \in Collectors :
          /\ trials[k] \subseteq PaidTrials /\ todo[k] \subseteq trials[k]
          /\ identity[k] \in 0..Len(journal) \cup {NoFile}
          /\ spent[k] \in 0..run_max_usd
          /\ \A t, u \in trials[k] : t.key = u.key => t = u
    BY <2>1 DEF CollectorInv, CollectorTypes, Own, Holding, Standing, OnePerKey
  <2>3. \A k \in Collectors : (step[k] # "none") = (pc[k] \in Appending)
    BY <2>1 DEF CollectorInv, Own, Standing
  <2>4. /\ journal \in Seq(Entries)
        /\ checkpoint \subseteq PaidTrials /\ paid \subseteq PaidTrials
        /\ pc \in [Collectors -> Pcs]
        /\ step \in [Collectors -> {"none", "inspect", "write", "attest"}]
    BY <2>1 DEF CollectorInv, CollectorTypes
  <2>. QED  BY <2>2, <2>3, <2>4 DEF TypeOK, Entries, Appending
<1>. QED  BY <1>1, CollectorInvariant, PTL

\* Evidence that is accepted covers all that was paid when its journal was
\* read, within the ceiling, by calls that were made (evaluate_evidence).
THEOREM EvidenceAlwaysCovers == Spec => []EvidenceCoversSpend
<1>1. CollectorInv => EvidenceCoversSpend
  BY DEF CollectorInv
<1>. QED  BY <1>1, CollectorInvariant, PTL

\* Collectors that run one after the other pay within the ceiling, unless one
\* ended while it restored a lost journal (reserve, restore_reconciled).
THEOREM LoneCollectorKeepsCeiling == Spec => []CeilingHoldsAlone
<1>1. CollectorInv => CeilingHoldsAlone
  BY DEF CollectorInv
<1>. QED  BY <1>1, CollectorInvariant, PTL

\* And each start loses at most the trial it was at (collect, _resume_trials).
THEOREM LoneCollectorPaysOnce == Spec => []PaidIsKept
<1>1. CollectorInv => PaidIsKept
  BY DEF CollectorInv
<1>. QED  BY <1>1, CollectorInvariant, PTL
=============================================================================
