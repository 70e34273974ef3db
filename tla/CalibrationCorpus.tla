--------------------------- MODULE CalibrationCorpus ---------------------------
(***************************************************************************)
(* The corpus the comparator is calibrated on (validate_manifest,          *)
(* comparator_calibration/calibration.py): pairs of candidates that were   *)
(* labelled by several reviewers and resolved by one, and what the labels  *)
(* say about the criteria that may decide in production                    *)
(* (criterion_support).                                                    *)
(*                                                                         *)
(* Texts, paths and the contents of patches are not modelled.  Every pair  *)
(* has the same Requirements, and a label lists its violations in their    *)
(* order, so that the lists are sets.                                      *)
(***************************************************************************)
EXTENDS Integers, Sequences, FiniteSets, PairVerdict

CONSTANTS
  Performance,  \* the criterion that needs a performance basis: one or none
  Qualitative,  \* the criteria that need a qualitative basis
  Reviewers,
  Authority,    \* the reviewer who resolves
  Languages,
  Categories,
  CorpusPolicy,       \* the counts the semantic contract asks for
  None

Outcomes == Sides \cup {"tie", "tradeoff", "unqualified"}
BiasKinds == {"necessary", "harmful"}

ValidPolicy(policy) ==
  /\ policy.outcome \in Nat \ {0} /\ policy.pairs = policy.outcome * Cardinality(Outcomes)
  /\ policy.sentinels \in 0..policy.outcome
  /\ policy.languages \in [Languages -> Nat]
  /\ \A group \in policy.groups :
       group.languages \in SUBSET Languages \ {{}} /\ group.minimum \in Nat
  /\ policy.categories \in [Categories -> Nat]
  /\ policy.injections \in Nat
  /\ policy.kinds \subseteq BiasKinds /\ policy.bias \in [policy.kinds -> Nat]
  /\ policy.eachSide \in Nat \ {0} /\ policy.oneSided \in Nat \ {0}

CorpusAssumption ==
  /\ Performance \in SUBSET Criteria /\ Cardinality(Performance) <= 1
  /\ Qualitative \in SUBSET Criteria /\ Criteria # {}
  /\ Authority \in Reviewers
  /\ ValidPolicy(CorpusPolicy)

----------------------------------------------------------------------------
(* Labels.                                                                 *)

Quality(checks) ==
  IF Ineligible(checks) THEN "ineligible"
  ELSE IF Eligible(checks) THEN "eligible" ELSE "unknown"

Violations(checks) == {r \in Requirements : checks[r] = "violated"}

BothEligible(decision) == \A s \in Sides : decision[s] = "eligible"

\* derive_outcome, of a label: criteria of ineligible candidates are ignored.
LabelOutcome(label) ==
  IF BothEligible(label.decision)
    THEN IF \A s \in Sides : WinsSome(s, label) THEN "tradeoff"
         ELSE IF WinsSome("A", label) THEN "A"
         ELSE IF WinsSome("B", label) THEN "B" ELSE "tie"
  ELSE IF label.decision["A"] = "eligible" /\ label.decision["B"] = "ineligible" THEN "A"
  ELSE IF label.decision["B"] = "eligible" /\ label.decision["A"] = "ineligible" THEN "B"
  ELSE "unqualified"

\* A reviewer's label: decisions and violations, without the statuses of the
\* requirements.
HistoricalLabel(label) ==
  /\ \A s \in Sides : label.violations[s] # {} <=> label.decision[s] = "ineligible"
  /\ BothEligible(label.decision) => label.criteria # NotApplicable

\* Criteria the pair gives no basis for.
Unbased(pair) ==
  (IF pair.performance THEN {} ELSE Performance) \cup (Qualitative \ pair.bases)

\* The label answers are scored by has the statuses: it is an answer itself,
\* with no winner by a criterion the pair has no basis for.
ScoringLabel(pair, gold) ==
  /\ WellFormed(gold)
  /\ gold.criteria # NotApplicable =>
       \A c \in Unbased(pair) : gold.criteria[c] = "tie"

SameSemantics(label, gold) ==
  /\ \A s \in Sides : /\ label.decision[s] = Quality(gold.checks[s])
                      /\ label.violations[s] = Violations(gold.checks[s])
  /\ label.criteria = gold.criteria

----------------------------------------------------------------------------
(* The adjudication of a pair.                                             *)

Reviewed(pair) == None \notin {pair.reviewer_b, pair.re_review, pair.gold}
Resolved(pair) == Reviewed(pair) /\ pair.resolution # None

ByAuthority(label) == label.method = "root-resolution" /\ label.reviewer = Authority

Adjudicated(pair) ==
  /\ HistoricalLabel(pair.reviewer_a)
  /\ pair.resolution # None => Reviewed(pair)
  /\ Reviewed(pair) => \A label \in {pair.reviewer_b, pair.re_review} :
       HistoricalLabel(label) /\ label.reviewer # pair.reviewer_a.reviewer
  /\ Resolved(pair) =>
       /\ HistoricalLabel(pair.resolution) /\ ByAuthority(pair.resolution)
       /\ ScoringLabel(pair, pair.gold) /\ ByAuthority(pair.gold)
       /\ SameSemantics(pair.resolution, pair.gold)

----------------------------------------------------------------------------
(* One pair, and all of them.                                              *)

Injected(pair) == pair.injection # None

ValidPair(pair) ==
  /\ pair.language \in Languages
  /\ pair.repetitions = IF pair.sentinel THEN 3 ELSE 1
  /\ pair.categories # {} /\ pair.hard \subseteq Requirements
  /\ pair.performance \in BOOLEAN /\ pair.bases \subseteq Qualitative
  /\ pair.machine => pair.diff["A"] = pair.diff["B"]
  /\ pair.bias # None =>
       pair.bytes[pair.bias.longer] > pair.bytes[Opposite(pair.bias.longer)]
  /\ LabelOutcome(pair.reviewer_a) \notin Sides =>
       LabelOutcome(pair.reviewer_a) \in pair.categories
  /\ Adjudicated(pair)

\* Injections, in the order of the corpus, alternate sides and locations.
Alternating(corpus) ==
  LET probes == SelectSeq(corpus, Injected)
  IN \A n \in 1..Len(probes) - 1 :
       /\ probes[n].injection.side # probes[n + 1].injection.side
       /\ probes[n].injection.location # probes[n + 1].injection.location

Probed(corpus) ==
  LET biased(field, v) ==
        {p \in DOMAIN corpus : corpus[p].bias # None /\ corpus[p].bias[field] = v}
  IN /\ Cardinality({p \in DOMAIN corpus : Injected(corpus[p])}) >= CorpusPolicy.injections
     /\ \A kind \in CorpusPolicy.kinds : Cardinality(biased("kind", kind)) >= CorpusPolicy.bias[kind]
     /\ CorpusPolicy.kinds # {} => \A s \in Sides : biased("longer", s) # {}

Covered(corpus) ==
  /\ \A category \in Categories :
       Cardinality({p \in DOMAIN corpus : category \in corpus[p].categories})
         >= CorpusPolicy.categories[category]
  /\ \A language \in Languages :
       Cardinality({p \in DOMAIN corpus : corpus[p].language = language})
         >= CorpusPolicy.languages[language]
  /\ \A group \in CorpusPolicy.groups :
       Cardinality({p \in DOMAIN corpus : corpus[p].language \in group.languages})
         >= group.minimum

\* As many pairs, and as many sentinels, of every outcome.
Balanced(corpus, outcome) ==
  \A o \in Outcomes :
    LET pairs == {p \in DOMAIN corpus : outcome[p] = o}
    IN /\ Cardinality(pairs) = CorpusPolicy.outcome
       /\ Cardinality({p \in pairs : corpus[p].sentinel}) = CorpusPolicy.sentinels

CorpusComplete(corpus) == \A p \in DOMAIN corpus : Resolved(corpus[p])

ValidCorpus(corpus) ==
  /\ Len(corpus) = CorpusPolicy.pairs
  /\ \A p \in DOMAIN corpus : ValidPair(corpus[p])
  /\ Alternating(corpus) /\ Probed(corpus) /\ Covered(corpus)
  /\ Balanced(corpus, [p \in DOMAIN corpus |-> LabelOutcome(corpus[p].reviewer_a)])
  /\ CorpusComplete(corpus) =>
       Balanced(corpus, [p \in DOMAIN corpus |-> Outcome(corpus[p].gold)])

----------------------------------------------------------------------------
(* Which criteria the resolved labels support.                             *)

Labelled(corpus) ==
  {p \in DOMAIN corpus : /\ corpus[p].resolution # None
                         /\ corpus[p].resolution.criteria # NotApplicable}

WonBy(corpus, c, s) ==
  {p \in Labelled(corpus) : corpus[p].resolution.criteria[c] = s}

Support(corpus, c) ==
  LET sides == {s \in Sides : WonBy(corpus, c, s) # {}}
  IN IF sides = {} THEN "not-calibrated"
     ELSE IF sides = Sides THEN "bidirectional" ELSE "one-sided"

ProductionDecisive(corpus, c) ==
  \/ /\ Support(corpus, c) = "bidirectional"
     /\ \A s \in Sides : Cardinality(WonBy(corpus, c, s)) >= CorpusPolicy.eachSide
  \/ /\ Support(corpus, c) = "one-sided"
     /\ Cardinality(WonBy(corpus, c, "A")) + Cardinality(WonBy(corpus, c, "B"))
          >= CorpusPolicy.oneSided
=============================================================================
