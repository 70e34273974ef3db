------------------------------ MODULE Calibration ------------------------------
(***************************************************************************)
(* Calibrating the comparator: the release that is locked (lock_release,   *)
(* _validate_release), the evidence of the judge's trials and the gates it *)
(* has to pass (evaluate_evidence, comparator_calibration/calibration.py), *)
(* the certification that is written of it and loaded again, and what a    *)
(* call under a certification must agree with (comparator_runtime.py).     *)
(*                                                                         *)
(* A bundle is the corpus, the rubric, the other artifacts and the         *)
(* release; sources are the files of the checkout.  A digest is what it is *)
(* a digest of.  Evidence is a function of the trials' keys: a key that is *)
(* missing, unknown or there twice is refused.  Of its spend records only  *)
(* what the replay makes of them is here (Collector), in evidence.spend.   *)
(***************************************************************************)
EXTENDS CalibrationCorpus, FiniteSetsExt

CONSTANTS
  Artifacts,         \* schemas, request template, profile descriptor, ...
  EvaluatorSources,  \* calibration.py, collect.py, certify.py
  RuntimeSources,    \* what the comparison runs on, the baseline authority too
  PinnedJudge,       \* the judge and the arguments of a production release
  PinnedArgs,
  Limits,            \* timeout_seconds, per_invocation_max_usd, run_max_usd
  Controls,          \* the isolation every call is made in
  MinimumRates,      \* the rates a release is locked with
  Undecided          \* no decision: the answers about a pair disagree

CalibrationAssumption ==
  /\ Undecided \notin
       [checks : [Sides -> [Requirements -> Statuses]],
        criteria : [Criteria -> Winners] \cup {NotApplicable}]
  /\ Limits.per_invocation_max_usd \in Nat /\ Limits.run_max_usd \in Nat

Flags == {"order", "sentinel", "outcomes", "admissibility", "length",
          "performance", "qualitative", "spend", "models", "executable"}
Policies == {"tie-only", "decisive", "typed"}

----------------------------------------------------------------------------
(* The release.                                                            *)

TrialKeys(corpus) ==
  {key \in (DOMAIN corpus) \X (0..2) \X Orders : key[2] < corpus[key[1]].repetitions}

CriterionSupport(corpus) ==
  [c \in Criteria |-> [status |-> Support(corpus, c),
                       decisive |-> ProductionDecisive(corpus, c)]]

\* lock_release.py: what a release is made of, whatever is in the files.
LockedRelease(files, sources, test, judge, args) ==
  [test |-> test, corpus |-> files.corpus, rubric |-> files.rubric,
   artifacts |-> files.artifacts, sources |-> sources,
   judge |-> IF test THEN judge ELSE PinnedJudge,
   args |-> IF test THEN args ELSE PinnedArgs,
   namespace |-> test,
   limits |-> Limits, calls |-> Cardinality(TrialKeys(files.corpus)),
   support |-> CriterionSupport(files.corpus),
   minimum |-> MinimumRates, flags |-> Flags]

\* A criterion decides by a typed basis exactly if it is the performance one.
ValidRubric(rubric) ==
  /\ rubric \in [Criteria -> Policies]
  /\ {c \in Criteria : rubric[c] = "typed"} = Performance

ArtifactsLocked(bundle) ==
  LET release == bundle.release
  IN /\ release.corpus = bundle.corpus /\ release.rubric = bundle.rubric
     /\ release.artifacts = bundle.artifacts

\* A profile outside of its checkout leaves the runtime's sources unchecked.
SourcesLocked(release, sources, external) ==
  /\ \A f \in EvaluatorSources : release.sources[f] = sources[f]
  /\ external => \A f \in RuntimeSources : release.sources[f] = sources[f]

ValidRelease(bundle, sources, external) ==
  LET release == bundle.release
  IN /\ ValidRubric(bundle.rubric)
     /\ ArtifactsLocked(bundle) /\ SourcesLocked(release, sources, external)
     /\ ~release.test => release.judge = PinnedJudge /\ release.args = PinnedArgs
     /\ release.limits = Limits /\ release.calls = Cardinality(TrialKeys(bundle.corpus))
     /\ release.support = CriterionSupport(bundle.corpus)
     /\ \A c \in Criteria :
          bundle.rubric[c] # "tie-only" <=> ProductionDecisive(bundle.corpus, c)
     /\ release.flags \subseteq Flags

----------------------------------------------------------------------------
(* A trial: one call of the judge about one pair, in one order.            *)

TrialInvocation(release, key) == <<release.namespace, release.corpus, key>>

Request(bundle, key) ==
  LET pair == bundle.corpus[key[1]]
      Shown(s) == IF key[3] = "AB" THEN pair.diff[s] ELSE pair.diff[Opposite(s)]
  IN [invocation |-> TrialInvocation(bundle.release, key), pair |-> key[1],
      diff |-> [s \in Sides |-> Shown(s)],
      rubric |-> bundle.rubric, artifacts |-> bundle.artifacts,
      judge |-> bundle.release.judge, limits |-> bundle.release.limits]

\* The command is the executable at the place the executor runs it from.
Command(bundle, place) == <<place, bundle.release.args, bundle.artifacts>>

\* The record of the sandbox the call was made in: each control in force and
\* no other, the runtime directory mounted once and the executable into it.
ValidExecutor(bundle, executor, trial) ==
  /\ executor.version = bundle.release.judge.version
  /\ executor.executable = trial.executable /\ executor.request = trial.request
  /\ executor.controls = Controls
  /\ executor.timeout = bundle.release.limits.timeout_seconds
  /\ executor.writable = {executor.place} /\ executor.bound = {executor.place}
  /\ executor.readable = {<<executor.copy, executor.place>>}
  /\ executor.hidden # {}

\* parse_raw_provider_response, of the envelope the provider returned.
Reported(trial) ==
  /\ ~trial.raw.error
  /\ trial.models = trial.raw.models /\ trial.models # {}
  /\ trial.cost = trial.raw.cost /\ trial.cost \in Nat
  /\ trial.answer = trial.raw.answer

\* An answer validate_response accepts; winners without a basis are counted.
Acceptable(answer) ==
  /\ answer \in [checks : [Sides -> [Requirements -> Statuses]],
                 criteria : [Criteria -> Winners] \cup {NotApplicable}]
  /\ WellFormed(answer)

ValidTrial(bundle, key, trial) ==
  /\ trial.invocation = TrialInvocation(bundle.release, key)
  /\ trial.request = Request(bundle, key)
  /\ ValidExecutor(bundle, trial.executor, trial)
  /\ trial.command = Command(bundle, trial.executor.place)
  /\ Reported(trial)
  /\ trial.judge = bundle.release.judge
  /\ Acceptable(trial.answer)

\* The call is in the spend journal as reconciled, at its cost.
BoundToSpend(spend, trial) ==
  /\ trial.attempt \in DOMAIN spend
  /\ spend[trial.attempt].event = "reconcile"
  /\ spend[trial.attempt].charged = trial.cost
  /\ spend[trial.attempt].request = trial.request
  /\ spend[trial.attempt].invocation = trial.invocation

Charge(attempt) ==
  IF attempt.event = "reserve" THEN attempt.reserved ELSE attempt.charged

\* Everything that makes evaluate_evidence raise instead of scoring.
ValidEvidence(bundle, sources, external, evidence) ==
  LET trials == evidence.trials
  IN /\ ValidRelease(bundle, sources, external)
     /\ ValidCorpus(bundle.corpus)
     /\ evidence.release = bundle.release
     /\ DOMAIN trials = TrialKeys(bundle.corpus)
     /\ \A key \in DOMAIN trials : /\ ValidTrial(bundle, key, trials[key])
                                   /\ BoundToSpend(evidence.spend, trials[key])
     /\ \A k1, k2 \in DOMAIN trials :
          trials[k1].attempt = trials[k2].attempt => k1 = k2
     /\ evidence.charged =
          MapThenSumSet(LAMBDA a : Charge(evidence.spend[a]), DOMAIN evidence.spend)
     /\ \A p \in DOMAIN bundle.corpus :
          bundle.corpus[p].gold # None => ScoringLabel(bundle.corpus[p], bundle.corpus[p].gold)

----------------------------------------------------------------------------
(* What the judge decided about a pair.                                    *)

Decided(evidence, p, n, order) ==
  Normalized(evidence.trials[<<p, n, order>>].answer, order)

PerRepetition(evidence, p, n) ==
  IF Decided(evidence, p, n, "AB") = Decided(evidence, p, n, "BA")
    THEN Decided(evidence, p, n, "AB") ELSE Undecided

TrialRepetitions(corpus, p) == {n \in 0..2 : n < corpus[p].repetitions}

\* A pair has a decision when all its repetitions have the same.
ObservedInTrials(corpus, evidence, p) ==
  IF \A n \in TrialRepetitions(corpus, p) :
       PerRepetition(evidence, p, n) = PerRepetition(evidence, p, 0)
    THEN PerRepetition(evidence, p, 0) ELSE Undecided

ObservedOutcome(corpus, evidence, p) ==
  IF ObservedInTrials(corpus, evidence, p) = Undecided THEN "inconclusive"
  ELSE Outcome(ObservedInTrials(corpus, evidence, p))

Scored(corpus) == {p \in DOMAIN corpus : corpus[p].gold # None}

OutcomeRight(corpus, evidence, p) ==
  ObservedOutcome(corpus, evidence, p) = Outcome(corpus[p].gold)

\* Every status of every requirement, and with them violations and decisions.
AdmissibilityExact(corpus, evidence, p) ==
  /\ ObservedInTrials(corpus, evidence, p) # Undecided
  /\ ObservedInTrials(corpus, evidence, p).checks = corpus[p].gold.checks

Critical(pair) == pair.critical \/ pair.hard # {}

\* The decision has a winner of a criterion of cs.
Decides(d, cs) ==
  /\ d # Undecided /\ d.criteria # NotApplicable
  /\ \E c \in cs : d.criteria[c] # "tie"

----------------------------------------------------------------------------
(* The rates, as fractions; observed and expected are functions on I.      *)

AtLeast(num, den, rate) == num * rate.den >= rate.num * den

Hits(I, expected, observed) == Cardinality({i \in I : expected[i] = observed[i]})
Labels(I, f) == {f[i] : i \in I}
Count(I, f, v) == Cardinality({i \in I : f[i] = v})

\* Without anything scored every rate is 0.
Accuracy(I, expected, observed, rate) ==
  IF I = {} THEN rate.num = 0
  ELSE AtLeast(Hits(I, expected, observed), Cardinality(I), rate)

CountProduct(I, f, S) ==
  MapThenFoldSet(LAMBDA x, y : x * y, 1, LAMBDA v : Count(I, f, v),
                 LAMBDA T : CHOOSE v \in T : TRUE, S)

\* The mean of the recalls of the expected labels, on a common denominator.
BalancedAccuracy(I, expected, observed, rate) ==
  LET classes == Labels(I, expected)
      Recalled(v) == Cardinality({i \in I : expected[i] = v /\ observed[i] = v})
  IN IF I = {} THEN rate.num = 0
     ELSE AtLeast(
            MapThenSumSet(
              LAMBDA v : Recalled(v) * CountProduct(I, expected, classes \ {v}), classes),
            Cardinality(classes) * CountProduct(I, expected, classes), rate)

\* Agreement beyond the one expected by chance.
CohenKappa(I, expected, observed, rate) ==
  LET n == Cardinality(I)
      hits == Hits(I, expected, observed)
      chance == MapThenSumSet(LAMBDA v : Count(I, expected, v) * Count(I, observed, v),
                              Labels(I, expected) \cup Labels(I, observed))
  IN IF I = {} THEN rate.num = 0
     ELSE IF chance = n * n THEN AtLeast(IF hits = n THEN 1 ELSE 0, 1, rate)
     ELSE AtLeast(hits * n - chance, n * n - chance, rate)

\* The rates of the requirements' decisions; undecided agrees with nothing.
RateGates(corpus, evidence, minimum) ==
  LET scored == Scored(corpus)
      seen == [p \in scored |-> ObservedInTrials(corpus, evidence, p)]
      wanted == [p \in scored |-> Outcome(corpus[p].gold)]
      got == [p \in scored |-> ObservedOutcome(corpus, evidence, p)]
      sides == scored \X Sides
      statuses == scored \X Sides \X Requirements
      Of(I, F(_, _)) ==  \* F of the gold or of the answer, for every index
        <<[i \in I |-> F(corpus[i[1]].gold, i)],
          [i \in I |-> IF seen[i[1]] = Undecided THEN Undecided
                       ELSE F(seen[i[1]], i)]>>
      quality == Of(sides, LAMBDA d, i : Quality(d.checks[i[2]]))
      violation == Of(sides, LAMBDA d, i : Violations(d.checks[i[2]]))
      status == Of(statuses, LAMBDA d, i : d.checks[i[2]][i[3]])
  IN /\ BalancedAccuracy(scored, wanted, got, minimum.outcome)
     /\ CohenKappa(scored, wanted, got, minimum.kappa)
     /\ Accuracy(sides, quality[1], quality[2], minimum.eligibility)
     /\ Accuracy(statuses, status[1], status[2], minimum.status)
     /\ Accuracy(sides, violation[1], violation[2], minimum.violation)

\* Of each criterion on its own; a criterion that no label has is an error.
CriterionGate(corpus, evidence, minimum) ==
  LET compared == {p \in Scored(corpus) : corpus[p].gold.criteria # NotApplicable}
      seen == [p \in compared |-> ObservedInTrials(corpus, evidence, p)]
  IN /\ Scored(corpus) # {} => compared # {}
     /\ \A c \in Criteria :
          BalancedAccuracy(compared, [p \in compared |-> corpus[p].gold.criteria[c]],
            [p \in compared |->
               IF seen[p] = Undecided THEN "inconclusive"
               ELSE IF seen[p].criteria = NotApplicable THEN "inconclusive"
               ELSE seen[p].criteria[c]],
            minimum.criterion)

----------------------------------------------------------------------------
(* The gates of a release.                                                 *)

Trials(evidence) == {evidence.trials[key] : key \in DOMAIN evidence.trials}

\* The judge's own model took part, and no other than the auxiliary ones.
AllowedModels(judge, models) ==
  models \cap judge.primary # {} /\ models \subseteq judge.primary \cup judge.auxiliary

OrderConsistent(corpus, evidence) ==
  \A p \in DOMAIN corpus : \A n \in TrialRepetitions(corpus, p) :
    PerRepetition(evidence, p, n) # Undecided

SentinelStable(corpus, evidence) ==
  \A p \in DOMAIN corpus :
    corpus[p].sentinel => ObservedInTrials(corpus, evidence, p) # Undecided

WithinLimits(release, evidence) ==
  /\ \A trial \in Trials(evidence) : trial.cost <= release.limits.per_invocation_max_usd
  /\ evidence.charged <= release.limits.run_max_usd

ModelsStable(release, evidence) ==
  /\ Cardinality({trial.models : trial \in Trials(evidence)}) = 1
  /\ \A trial \in Trials(evidence) : AllowedModels(release.judge, trial.models)

\* What holds of the evidence for every gate the release requires.
CalibrationGates(bundle, evidence) ==
  LET corpus == bundle.corpus
      scored == Scored(corpus)
      Required(flag, holds) == flag \in bundle.release.flags => holds
  IN /\ CorpusComplete(corpus) \/ bundle.release.test
     /\ RateGates(corpus, evidence, bundle.release.minimum)
     /\ CriterionGate(corpus, evidence, bundle.release.minimum)
     /\ Required("order", OrderConsistent(corpus, evidence))
     /\ Required("sentinel", SentinelStable(corpus, evidence))
     /\ Required("outcomes", \A p \in scored :
          Critical(corpus[p]) => OutcomeRight(corpus, evidence, p))
     /\ Required("admissibility", \A p \in scored :
          Critical(corpus[p]) => AdmissibilityExact(corpus, evidence, p))
     /\ Required("length", \A p \in scored :
          corpus[p].bias # None => OutcomeRight(corpus, evidence, p))
     /\ Required("performance", \A p \in scored :
          ~Decides(ObservedInTrials(corpus, evidence, p),
                   IF corpus[p].performance THEN {} ELSE Performance))
     /\ Required("qualitative", \A p \in scored :
          ~Decides(ObservedInTrials(corpus, evidence, p), Qualitative \ corpus[p].bases))
     /\ Required("spend", WithinLimits(bundle.release, evidence))
     /\ Required("models", ModelsStable(bundle.release, evidence))
     /\ Required("executable",
          Cardinality({trial.executable : trial \in Trials(evidence)}) = 1)
     /\ Cardinality({trial.executor.systemd : trial \in Trials(evidence)}) = 1

CalibrationPassed(bundle, sources, external, evidence) ==
  ValidEvidence(bundle, sources, external, evidence) /\ CalibrationGates(bundle, evidence)

----------------------------------------------------------------------------
(* The certification, and a runtime that loads it.                         *)

\* Models, executables and systemd of the trials: one each, or nothing is
\* certified, whatever the release requires.
Runtimes(evidence) ==
  {[models |-> trial.models, executable |-> trial.executable,
    systemd |-> trial.executor.systemd] : trial \in Trials(evidence)}

Certifiable(bundle, sources, external, evidence) ==
  /\ CalibrationPassed(bundle, sources, external, evidence)
  /\ \E r \in Runtimes(evidence) : Runtimes(evidence) = {r}

\* write_certification; the result is what is evaluated, and how.
Certification(bundle, external, evidence) ==
  [release |-> bundle.release, evidence |-> evidence,
   result |-> <<bundle.release, evidence, external>>,
   runtime |-> CHOOSE r \in Runtimes(evidence) : TRUE]

\* _load_certification: the evidence is read and evaluated again.
Loaded(bundle, sources, external, certification, evidence) ==
  /\ certification # None
  /\ certification.release = bundle.release
  /\ certification.evidence = evidence
  /\ Certifiable(bundle, sources, external, evidence)
  /\ certification.result = <<bundle.release, evidence, external>>
  /\ Runtimes(evidence) = {certification.runtime}

\* A registry entry names the files of a built-in profile; lock_release
\* writes both, and the two files of the releases, one after the other.
RegistryEntry(profile, scope) ==
  [descriptor |-> profile.descriptor, contract |-> profile.contract,
   production |-> profile.production, test |-> profile.test, scope |-> scope]

\* resolve_builtin_profile and resolve_profile_directory: each release of a
\* profile is locked to the profile's files; a built-in one is registered.
ValidProfile(profile, entry) ==
  /\ entry # None => /\ entry.scope \in {"production", "test"}
                     /\ entry = RegistryEntry(profile, entry.scope)
  /\ profile.test.test /\ ~profile.production.test
  /\ \A release \in {profile.production, profile.test} :
       /\ release.corpus = profile.corpus /\ release.rubric = profile.rubric
       /\ release.artifacts = profile.artifacts
  /\ profile.production # profile.test

\* The bundle that is loaded from a profile.
CertifiedBundle(profile, test) ==
  [corpus |-> profile.corpus, rubric |-> profile.rubric,
   artifacts |-> profile.artifacts,
   release |-> IF test THEN profile.test ELSE profile.production]

\* A suite that names a built-in profile is given to the runtime that loads
\* it, and with it the sources are checked (_load_comparator_runtime).  The
\* runtime without a profile is only used to collect and to certify.
ProductionAuthority(profile, entry, test) ==
  ~test /\ entry # None /\ entry.scope = "production" /\ ValidProfile(profile, entry)

\* require_live_calibration
LiveCalibrated(profile, entry, test, sources, certification, evidence) ==
  /\ ProductionAuthority(profile, entry, test)
  /\ Loaded(CertifiedBundle(profile, test), sources, TRUE, certification, evidence)

\* require_diagnostic_calibration: a profile of the suite's own checks no
\* sources and grants no release.
DiagnosticCalibrated(profile, entry, test, sources, certification, evidence) ==
  /\ ~test /\ ValidProfile(profile, entry)
  /\ entry # None => entry.scope = "production"
  /\ Loaded(CertifiedBundle(profile, test), sources, entry # None, certification, evidence)

----------------------------------------------------------------------------
(* A call made under a certification (run_transport), about any pair.      *)

AcceptedCall(release, certification, pair, call) ==
  /\ call.judge = release.judge
  /\ call.executable = certification.runtime.executable
  /\ call.systemd = certification.runtime.systemd
  /\ ~call.error /\ AllowedModels(release.judge, call.models)
  /\ call.models = certification.runtime.models
  /\ call.cost <= release.limits.per_invocation_max_usd
  /\ Acceptable(call.answer)
  /\ call.answer.criteria # NotApplicable =>
       \A c \in Criteria : call.answer.criteria[c] # "tie" =>
         c \notin Unbased(pair) /\ release.support[c].decisive
=============================================================================
