-------------------------------- MODULE Suite --------------------------------
(***************************************************************************)
(* What a suite manifest may say (load_suite, skivolve/manifest.py, with   *)
(* the adapters of skivolve/provider_capabilities.py), which of its cases  *)
(* and comparisons a run selects, and what the run may then cost           *)
(* (_selected and _execution_plan, skivolve/runner.py).                    *)
(*                                                                         *)
(* A suite s is the JSON document field by field, after its fields were    *)
(* found to have the names and the JSON types they must have.  A path is   *)
(* the sequence of its names, with links resolved; a text is its length.   *)
(***************************************************************************)
EXTENDS Naturals, SequencesExt

CONSTANTS
  Absent,           \* a field that is not there
  BuiltinProfiles,  \* BUILTIN_PROFILE_IDS
  ControlFirst      \* ControlFirst[seed][c][x]: the first byte of the digest of a
                    \*   seed, comparison and case is even

MAX_TIMEOUT_SECONDS == 3600
Splits == {"train", "validation", "holdout"}

-----------------------------------------------------------------------------
(* Providers.                                                              *)

\* _CAPABILITIES, as far as the code branches on it.
Capabilities ==
  [adapter \in {"claude-cli", "codex-app-server", "deterministic-fake"} |->
     CASE adapter = "claude-cli" ->
            [kind |-> "claude", roles |-> {"comparison", "generation"},
             concurrency |-> "concurrent", authority |-> "production",
             billing |-> "metered_api"]
       [] adapter = "codex-app-server" ->
            [kind |-> "codex", roles |-> {"generation"},
             concurrency |-> "serialized", authority |-> "diagnostic",
             billing |-> "chatgpt_subscription"]
       [] adapter = "deterministic-fake" ->
            [kind |-> "fake", roles |-> {"comparison", "generation"},
             concurrency |-> "concurrent", authority |-> "test",
             billing |-> "metered_api"]]

\* Every adapter's artifact_outputs.
ArtifactKinds == {"workspace_diff", "final_output_text", "final_output_json"}

CODEX_REASONING_EFFORTS ==
  LET common == {"low", "medium", "high", "xhigh", "max"}
  IN  [model \in {"gpt-5.6-luna", "gpt-5.6-terra"} |->
         IF model = "gpt-5.6-luna" THEN common ELSE common \cup {"ultra"}]

Billing(p) == IF p.billing = Absent THEN "metered_api" ELSE p.billing

ProviderParses(p, role) ==
  /\ p.adapter \in DOMAIN Capabilities /\ role \in Capabilities[p.adapter].roles
  /\ p.timeout \in 1 .. MAX_TIMEOUT_SECONDS
  /\ p.budget # Absent => p.budget \in Nat \ {0}
  /\ CASE Capabilities[p.adapter].kind = "fake" -> p.executable = Absent
       [] Capabilities[p.adapter].kind = "claude" ->
            p.executable # Absent /\ p.budget # Absent
       [] Capabilities[p.adapter].kind = "codex" ->
            /\ role # "comparison"
            /\ Absent \notin {p.executable, p.effort, p.billing, p.lock}
            /\ p.budget = Absent
            /\ p.model \in DOMAIN CODEX_REASONING_EFFORTS
            /\ p.effort \in CODEX_REASONING_EFFORTS[p.model]
  /\ IF Capabilities[p.adapter].kind = "codex"
     THEN Billing(p) = "chatgpt_subscription"
     ELSE p.effort = Absent /\ p.lock = Absent /\ Billing(p) = "metered_api"

-----------------------------------------------------------------------------
(* Variants, comparisons and the comparisons a release needs.              *)

UniqueIds(seq) == \A i, j \in DOMAIN seq : seq[i].id = seq[j].id => i = j
Ids(seq) == {seq[i].id : i \in DOMAIN seq}

VariantsParse(variants) ==
  /\ Len(variants) >= 2
  /\ \A i \in DOMAIN variants : variants[i].kind \in {"without_skill", "git_ref", "worktree"}
  /\ UniqueIds(variants)

ComparisonsParse(comparisons, variants) ==
  /\ Len(comparisons) >= 1
  /\ \A i \in DOMAIN comparisons :
       /\ comparisons[i].control # comparisons[i].treatment
       /\ {comparisons[i].control, comparisons[i].treatment} \subseteq Ids(variants)
       /\ comparisons[i].repetitions = 3 /\ comparisons[i].order = "ab_ba"
  /\ UniqueIds(comparisons)

\* Named once each, in the order of the manifest.
HoldoutParses(holdout, comparisons) ==
  /\ Len(holdout) >= 1
  /\ ToSet(holdout) \subseteq Ids(comparisons)
  /\ \A i, j \in DOMAIN holdout : \A m, n \in DOMAIN comparisons :
       holdout[i] = comparisons[m].id /\ holdout[j] = comparisons[n].id
         => (i < j <=> m < n)

-----------------------------------------------------------------------------
(* Cases and the contract a comparator judges them by.                     *)

Distinct(seq) == \A i, j \in DOMAIN seq : seq[i] = seq[j] => i = j

DefaultVocabulary ==
  [requirement_kinds |-> {"required_behavior", "hard_constraint"},
   performance_basis_kinds |-> {"workload", "asymptotic", "measurement"},
   qualitative_basis_criteria |-> {"functional_correctness", "security_reliability"},
   qualitative_basis_kinds |->
     {"test-fault-sensitivity", "behavioral-quality", "defense-in-depth",
      "failure-determinism", "concurrency-margin"}]

Vocabulary(profile) ==
  IF profile.resources = Absent THEN DefaultVocabulary ELSE profile.resources

Long(text) == text >= 20

ContractParses(contract, vocabulary) ==
  /\ contract.requirements # <<>>
  /\ \A i \in DOMAIN contract.requirements :
       /\ contract.requirements[i].kind \in vocabulary.requirement_kinds
       /\ Long(contract.requirements[i].text)
  /\ UniqueIds(contract.requirements)
  /\ contract.performance # Absent =>
       /\ contract.performance.kind \in vocabulary.performance_basis_kinds
       /\ Long(contract.performance.detail)
  /\ DOMAIN contract.qualitative \subseteq vocabulary.qualitative_basis_criteria
  /\ \A criterion \in DOMAIN contract.qualitative :
       /\ contract.qualitative[criterion].kind \in vocabulary.qualitative_basis_kinds
       /\ Long(contract.qualitative[criterion].detail)

\* A judged suite gives every case a contract, an objective one none.
CasesParse(cases, profile) ==
  /\ Len(cases) >= 1
  /\ \A i \in DOMAIN cases :
       /\ cases[i].split \in Splits
       /\ cases[i].argv # <<>> /\ cases[i].critical # <<>>
       /\ Distinct(cases[i].tools) /\ Distinct(cases[i].context) /\ Distinct(cases[i].critical)
       /\ {cases[i].timeout, cases[i].verifier_timeout} \subseteq 1 .. MAX_TIMEOUT_SECONDS
       /\ IF profile = Absent THEN cases[i].contract = Absent
          ELSE cases[i].contract # Absent /\ ContractParses(cases[i].contract, Vocabulary(profile))
       /\ cases[i].artifact \in ArtifactKinds
  /\ UniqueIds(cases)

-----------------------------------------------------------------------------
(* The suite.                                                              *)

ProfileParses(profile) ==
  CASE profile.kind = "builtin" -> profile.id \in BuiltinProfiles
    [] profile.kind = "suite_local" ->
         profile.resources # Absent /\ profile.id \notin BuiltinProfiles
    [] OTHER -> FALSE

Within(p, q) == IsPrefix(q, p)

\* What a skill may be evaluated on: the prompt's directory and the fixture of a
\* case, and its bundle and context in every source.
SourceRoots(s) ==
  {s.repository_root} \cup
  {s.variants[i].root : i \in {j \in DOMAIN s.variants : s.variants[j].kind = "worktree"}}

ProtectedPaths(s, x) ==
  LET evaluated == {x.bundle} \cup ToSet(x.context)
  IN  {Front(x.prompt), x.fixture} \cup
      {root \o path : root \in SourceRoots(s), path \in evaluated}

\* The verifiers' shared directory is none of it, holds none of it, and is not
\* inside of it.
SharedSeparate(s) ==
  s.shared # Absent =>
    \A i \in DOMAIN s.cases : \A p \in ProtectedPaths(s, s.cases[i]) :
      ~Within(s.shared, p) /\ ~Within(p, s.shared)

Loads(s) ==
  /\ s.mode \in {"judged", "objective_only"}
  /\ IF s.mode = "judged"
     THEN /\ s.profile # Absent /\ ProfileParses(s.profile)
          /\ s.comparator # Absent /\ ProviderParses(s.comparator, "comparison")
     ELSE s.profile = Absent /\ s.comparator = Absent
  /\ ProviderParses(s.provider, "generation")
  /\ VariantsParse(s.variants)
  /\ ComparisonsParse(s.comparisons, s.variants)
  /\ HoldoutParses(s.holdout, s.comparisons)
  /\ CasesParse(s.cases, s.profile)
  /\ SharedSeparate(s)
  /\ s.seed \in Nat

-----------------------------------------------------------------------------
(* What a run selects: sel.cases and sel.comparisons are sequences of ids, *)
(* empty for all, sel.seed and sel.plan may be absent.                     *)

_MIN_HOLDOUT_CASES == 8

\* An objective suite has no judge to ask.
Effective(s, sel) ==
  IF s.mode = "objective_only" THEN [sel EXCEPT !.verifier_only = TRUE] ELSE sel

SplitCases(s, split) ==
  {i \in DOMAIN s.cases :
     \/ split = "public" /\ s.cases[i].split \in {"train", "validation"}
     \/ s.cases[i].split = split}

SelectedCases(s, sel) ==
  {i \in SplitCases(s, sel.split) : sel.cases = <<>> \/ s.cases[i].id \in ToSet(sel.cases)}

SelectedComparisons(s, sel) ==
  {i \in DOMAIN s.comparisons :
     sel.comparisons = <<>> \/ s.comparisons[i].id \in ToSet(sel.comparisons)}

SelectedSkills(s, sel) == {s.cases[i].skill : i \in SelectedCases(s, sel)}

\* _validate_holdout_selection_shape: a plan is executed whole, or prepared.
HoldoutShape(s, sel, preparing) ==
  sel.split = "holdout" =>
    /\ (sel.plan = Absent) <=> preparing
    /\ sel.cases = <<>> /\ sel.seed = Absent
    /\ sel.comparisons = s.holdout

\* One comparison of a judged run that is no release; eight cases of each skill of
\* a release.
Selects(s, sel, preparing) ==
  /\ sel.split \in Splits \cup {"public"}
  /\ preparing => sel.split = "holdout"
  /\ Distinct(sel.cases) /\ Distinct(sel.comparisons)
  /\ HoldoutShape(s, sel, preparing)
  /\ sel.split # "holdout" =>
       /\ sel.plan = Absent
       /\ sel.verifier_only \/ Len(sel.comparisons) = 1
  /\ ToSet(sel.cases) \subseteq Ids(s.cases)
  /\ ToSet(sel.comparisons) \subseteq Ids(s.comparisons)
  /\ SelectedCases(s, sel) # {} /\ SelectedComparisons(s, sel) # {}
  /\ sel.seed # Absent => sel.seed \in Nat
  /\ sel.split = "holdout" =>
       /\ \A i \in SelectedComparisons(s, sel) :
            s.comparisons[i].repetitions = 3 /\ s.comparisons[i].order = "ab_ba"
       /\ \A skill \in SelectedSkills(s, sel) :
            Cardinality({i \in SelectedCases(s, sel) : s.cases[i].skill = skill})
              >= _MIN_HOLDOUT_CASES

\* The judge is loaded: always for a judged release, otherwise if it will be asked.
JudgeLoaded(s, sel) ==
  s.mode = "judged" /\ (sel.split = "holdout" \/ ~sel.verifier_only)

\* The artifacts are such as the generator makes and the judge can be shown.
ArtifactsSupported(s, sel, shown) ==
  \A i \in SelectedCases(s, sel) :
    /\ s.cases[i].artifact \in ArtifactKinds
    /\ JudgeLoaded(s, sel) /\ ~sel.verifier_only => s.cases[i].artifact \in shown

\* No two cases of a release are the same task; tree and fingerprint are those of
\* the selected cases.
TasksUnique(s, sel, tree, fingerprint) ==
  LET xs == SelectedCases(s, sel)
  IN  /\ \A i, j \in xs : tree[i] = tree[j] \/ fingerprint[i] = fingerprint[j] => i = j
      /\ \A skill \in SelectedSkills(s, sel) :
           Cardinality({fingerprint[i] : i \in {j \in xs : s.cases[j].skill = skill}})
             >= _MIN_HOLDOUT_CASES

-----------------------------------------------------------------------------
(* What it may cost: limits are the execution limits of the judge's        *)
(* release, per_call and run; a subscription is not counted in dollars.    *)

BillingStated(p) ==
  \/ Billing(p) = "metered_api"
  \/ Billing(p) = "chatgpt_subscription" /\ p.budget = Absent

AgentPerCall(p) ==
  IF Billing(p) = "chatgpt_subscription" THEN Absent
  ELSE IF p.budget = Absent THEN 0 ELSE p.budget

ComparisonPlan(s, sel, limits, c) ==
  LET pair_runs == s.comparisons[c].repetitions * Cardinality(SelectedCases(s, sel))
      calls == IF JudgeLoaded(s, sel) THEN pair_runs * 2 ELSE 0
      agent == AgentPerCall(s.provider)
  IN  [pair_runs |-> pair_runs,
       agent_calls |-> pair_runs * 2,
       agent_exposure |-> IF agent = Absent THEN Absent ELSE pair_runs * 2 * agent,
       comparator_calls |-> calls,
       comparator_exposure |-> calls * limits.per_call,
       run_cap |-> limits.run]

\* The totals over the comparisons; calls of the calibration are not in them.
ExecutionPlan(s, sel, limits) ==
  LET cs == SelectedComparisons(s, sel)
      plan == [c \in cs |-> ComparisonPlan(s, sel, limits, c)]
      agent == AgentPerCall(s.provider)
  IN  [by_comparison |-> plan,
       pair_runs |-> MapThenSumSet(LAMBDA c : plan[c].pair_runs, cs),
       agent_calls |-> MapThenSumSet(LAMBDA c : plan[c].agent_calls, cs),
       agent_exposure |-> IF agent = Absent THEN Absent
                          ELSE MapThenSumSet(LAMBDA c : plan[c].agent_exposure, cs),
       comparator_calls |-> MapThenSumSet(LAMBDA c : plan[c].comparator_calls, cs),
       comparator_exposure |-> MapThenSumSet(LAMBDA c : plan[c].comparator_exposure, cs),
       total_run_cap |-> limits.run * Cardinality(cs)]

\* The judge can be paid for every call of a comparison.
PlanWithinCap(s, sel, limits) ==
  JudgeLoaded(s, sel) /\ ~sel.verifier_only =>
    \A c \in SelectedComparisons(s, sel) :
      ComparisonPlan(s, sel, limits, c).comparator_exposure <= limits.run

-----------------------------------------------------------------------------
(* With a serialized provider the arms of a pair run one after the other.  *)

ArmOrder(seed, c, x, repetition) ==
  IF ControlFirst[seed][c][x] <=> repetition % 2 = 0
  THEN <<"control", "treatment">> ELSE <<"treatment", "control">>
=============================================================================
