---------------------------- MODULE MCCalibration ----------------------------
(* A calibration of five pairs, one of each outcome, and judges of it.       *)
LOCAL INSTANCE Integers
LOCAL INSTANCE Sequences
LOCAL INSTANCE FiniteSets

CONSTANTS NotApplicable, NoAnswer, NoLabel, Undecided

Judge == [primary |-> {"m"}, auxiliary |-> {}, version |-> 1]
Checkout == [f \in {"e", "f"} |-> 1]
\* The rates of lock_release, and none.
Fraction(n, d) == [num |-> n, den |-> d]
LockedRates ==
  [outcome |-> Fraction(4, 5), kappa |-> Fraction(4, 5), eligibility |-> Fraction(9, 10),
   status |-> Fraction(19, 20), violation |-> Fraction(19, 20), criterion |-> Fraction(4, 5)]
NoRates == [k \in DOMAIN LockedRates |-> Fraction(0, 1)]

Cal == INSTANCE Calibration WITH
  Requirements <- {"r"}, Criteria <- {"c", "d"}, Decisive <- {"c", "d"}, None <- NoLabel,
  Performance <- {"d"}, Qualitative <- {"c"}, Reviewers <- {"ann", "bob", "cy"},
  Authority <- "cy", Languages <- {"go"}, Categories <- {"tie", "tradeoff", "unqualified"},
  CorpusPolicy <- [outcome |-> 1, pairs |-> 5, sentinels |-> 0,
             languages |-> [l \in {"go"} |-> 2],
             groups |-> {[languages |-> {"go"}, minimum |-> 5]},
             categories |-> [k \in {"tie", "tradeoff", "unqualified"} |-> 1],
             injections |-> 0, kinds |-> {}, bias |-> <<>>, eachSide |-> 1, oneSided |-> 1],
  Artifacts <- {"schema"}, EvaluatorSources <- {"e"}, RuntimeSources <- {"f"},
  PinnedJudge <- Judge, PinnedArgs <- "args",
  Limits <- [timeout_seconds |-> 1, per_invocation_max_usd |-> 1, run_max_usd |-> 10],
  Controls <- {"isolated"}, MinimumRates <- LockedRates

Status(eligible) == IF eligible THEN "satisfied" ELSE "violated"

Gold(a, b, c, d) ==
  [checks |-> [s \in {"A", "B"} |-> [r \in {"r"} |-> Status(IF s = "A" THEN a ELSE b)]],
   criteria |-> IF a /\ b THEN [k \in {"c", "d"} |-> IF k = "c" THEN c ELSE d]
                ELSE NotApplicable,
   reviewer |-> "cy", method |-> "root-resolution"]

Label(gold, reviewer) ==
  [decision |-> [s \in {"A", "B"} |-> Cal!Quality(gold.checks[s])],
   violations |-> [s \in {"A", "B"} |-> Cal!Violations(gold.checks[s])],
   criteria |-> gold.criteria, reviewer |-> reviewer, method |-> gold.method]

Pair(n, gold, critical) ==
  [language |-> "go", categories |-> {Cal!Outcome(gold)}, critical |-> critical,
   sentinel |-> FALSE, repetitions |-> 1, hard |-> {}, performance |-> TRUE,
   bases |-> {"c"}, machine |-> FALSE, diff |-> [s \in {"A", "B"} |-> <<n, s>>],
   bytes |-> [s \in {"A", "B"} |-> 1], injection |-> NoLabel, bias |-> NoLabel,
   reviewer_a |-> Label(gold, "ann"), reviewer_b |-> Label(gold, "bob"),
   re_review |-> Label(gold, "bob"), resolution |-> Label(gold, "cy"), gold |-> gold]

Corpus ==
  <<Pair(1, Gold(TRUE, FALSE, "", ""), TRUE), Pair(2, Gold(TRUE, TRUE, "B", "tie"), FALSE),
    Pair(3, Gold(TRUE, TRUE, "tie", "tie"), FALSE),
    Pair(4, Gold(TRUE, TRUE, "A", "B"), TRUE), Pair(5, Gold(FALSE, FALSE, "", ""), FALSE)>>

Files == [corpus |-> Corpus, artifacts |-> "files",
          rubric |-> [k \in {"c", "d"} |-> IF k = "d" THEN "typed" ELSE "decisive"]]
Released(test) ==
  [corpus |-> Corpus, artifacts |-> Files.artifacts, rubric |-> Files.rubric,
   release |-> Cal!LockedRelease(Files, Checkout, test, Judge, "")]
Bundle == Released(FALSE)

Trial(key, answer) ==
  LET request == Cal!Request(Bundle, key)
  IN [invocation |-> Cal!TrialInvocation(Bundle.release, key), request |-> request,
      executable |-> "claude", command |-> Cal!Command(Bundle, "run"), judge |-> Judge,
      executor |-> [version |-> 1, executable |-> "claude", request |-> request,
                    controls |-> {"isolated"}, timeout |-> 1, place |-> "run", copy |-> "copy",
                    writable |-> {"run"}, bound |-> {"run"}, hidden |-> {"home"},
                    readable |-> {<<"copy", "run">>}, systemd |-> "255"],
      raw |-> [error |-> FALSE, models |-> {"m"}, cost |-> 1, answer |-> answer],
      models |-> {"m"}, cost |-> 1, answer |-> answer, attempt |-> key]

TrialKeys == Cal!TrialKeys(Corpus)

Evidence(answers) ==
  [release |-> Bundle.release,
   trials |-> [key \in TrialKeys |-> Trial(key, answers[key])],
   spend |-> [key \in TrialKeys |->
     [event |-> "reconcile", reserved |-> 1, charged |-> 1, request |-> Cal!Request(Bundle, key),
      invocation |-> Cal!TrialInvocation(Bundle.release, key)]],
   charged |-> Cardinality(TrialKeys)]

Answer(gold) == [checks |-> gold.checks, criteria |-> gold.criteria]

\* A judge that is right, one that looks at the position only, and one that
\* is right except for one pair, about which it says the same in both orders.
Right == [key \in TrialKeys |-> Cal!Normalized(Answer(Corpus[key[1]].gold), key[3])]
Positional == [key \in TrialKeys |-> Answer(Corpus[key[1]].gold)]
RightBut(p, answer) ==
  [key \in TrialKeys |-> IF key[1] = p THEN Cal!Normalized(answer, key[3]) ELSE Right[key]]

Passes(answers) == Cal!CalibrationPassed(Bundle, Checkout, TRUE, Evidence(answers))

\* The corpus is valid, its locked release too, and the judge that is right
\* passes; the one that looks at the position does not.
ASSUME Cal!CorpusAssumption /\ Cal!CalibrationAssumption
ASSUME Cal!ValidCorpus(Corpus)
ASSUME \A external, test \in BOOLEAN : Cal!ValidRelease(Released(test), Checkout, external)
ASSUME ~Cal!ValidRelease(Bundle, [Checkout EXCEPT !["f"] = 2], TRUE)
ASSUME Passes(Right) /\ ~Passes(Positional)

\* Without rates the judge has to have outcome and statuses of the critical
\* pairs right; with the rates of this release everything.
ASSUME LET release == [Bundle.release EXCEPT !.minimum = NoRates]
           lenient == [Bundle EXCEPT !.release = release]
           Says(p, answer) == Evidence(RightBut(p, answer))
       IN \A p \in DOMAIN Corpus : \A answer \in Cal!Answers :
            /\ Cal!CalibrationPassed(lenient, Checkout, TRUE, [Says(p, answer) EXCEPT !.release = release])
                 <=> (Corpus[p].critical =>
                        /\ Cal!Outcome(answer) = Cal!Outcome(Corpus[p].gold)
                        /\ answer.checks = Corpus[p].gold.checks)
            /\ Cal!CalibrationPassed(Bundle, Checkout, TRUE, Says(p, answer))
                 <=> answer = Answer(Corpus[p].gold)

\* The rates at 1 ask for complete agreement, at 0 for nothing.
ASSUME \A e, o \in [1..4 -> {"A", "B", "tie"}] :
  /\ Cal!BalancedAccuracy(1..4, e, o, [num |-> 1, den |-> 1]) <=> e = o
  /\ Cal!CohenKappa(1..4, e, o, [num |-> 1, den |-> 1]) <=> e = o
  /\ Cal!BalancedAccuracy(1..4, e, o, [num |-> 0, den |-> 1])

\* What is certified is loaded again, unless evidence, release or sources
\* are others than they were.
ASSUME LET certification == Cal!Certification(Bundle, TRUE, Evidence(Right))
           Loads(bundle, sources, external, evidence) ==
             Cal!Loaded(bundle, sources, external, certification, evidence)
       IN /\ Loads(Bundle, Checkout, TRUE, Evidence(Right))
          /\ ~Loads(Bundle, Checkout, TRUE, Evidence(RightBut(2, Right[<<3, 0, "AB">>])))
          /\ ~Loads(Bundle, Checkout, FALSE, Evidence(Right))
          /\ ~Loads(Released(TRUE), Checkout, TRUE, Evidence(Right))
          /\ ~Loads(Bundle, [Checkout EXCEPT !["f"] = 2], TRUE, Evidence(Right))
=============================================================================
