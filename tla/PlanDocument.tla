---------------------------- MODULE PlanDocument ----------------------------
(***************************************************************************)
(* The document of a sealed holdout plan: what prepare_holdout_plan writes *)
(* of a preflight (skivolve/runner.py), what load_holdout_plan accepts     *)
(* (skivolve/holdout_plan.py), and what _bind_holdout_plan demands of it   *)
(* in the preflight of a run.                                              *)
(*                                                                         *)
(* A digest is the thing it is a digest of.  An object whose keys must be  *)
(* sorted ids, or an array of objects sorted by id, is a function of the   *)
(* ids.  pre is what a preflight found: generator and judge, the sources   *)
(* by variant, and tree, shared tree and fingerprint by position of case.  *)
(***************************************************************************)
EXTENDS Suite

CONSTANT EMPTY_SOURCE_SHA256

-----------------------------------------------------------------------------
(* Who generates and who judges.                                           *)

\* execution_policy_for an adapter.
Policy(adapter) ==
  LET concurrency == Capabilities[adapter].concurrency
  IN  [concurrency |-> concurrency, release_authoritative |-> concurrency # "serialized"]

GeneratorBinding(s, generator) ==
  [name |-> generator.name, version |-> generator.version,
   requested_model |-> s.provider.model,
   executable |-> generator.executable,
   reasoning_effort |-> s.provider.effort,
   billing |-> Billing(s.provider),
   protocol_lock |-> s.provider.lock, lock_bytes |-> generator.lock_bytes,
   policy |-> Policy(s.provider.adapter)]

ProviderBindingParses(b) ==
  /\ b.billing \in {"metered_api", "chatgpt_subscription"}
  /\ b.protocol_lock = Absent <=> b.lock_bytes = Absent
  /\ b.policy \in {[concurrency |-> "concurrent", release_authoritative |-> TRUE],
                   [concurrency |-> "serialized", release_authoritative |-> FALSE]}
  /\ b.billing = "metered_api" =>
       /\ b.reasoning_effort = Absent /\ b.protocol_lock = Absent
       /\ b.policy.release_authoritative
  /\ b.billing = "chatgpt_subscription" =>
       /\ Absent \notin {b.reasoning_effort, b.protocol_lock, b.executable}
       /\ ~b.policy.release_authoritative
       /\ b.requested_model \in DOMAIN CODEX_REASONING_EFFORTS
       /\ b.reasoning_effort \in CODEX_REASONING_EFFORTS[b.requested_model]

\* config stands for every field of the configuration of a provider, runtime for
\* what is known of its executable, protocol and sandbox.
AuthorityBinding(config, role, runtime) ==
  [adapter |-> config.adapter, scope |-> Capabilities[config.adapter].authority,
   capabilities |-> Capabilities[config.adapter],
   config |-> config, role |-> role, runtime |-> runtime]

AdapterBindingParses(b, role) ==
  b.role = role /\ b.scope \in {"diagnostic", "production", "test"}

\* The bindings of a runner's providers, made when it is built.
ComparatorBinding(s, pre) ==
  IF s.mode = "judged" THEN AuthorityBinding(s.comparator, "comparison", pre.comparator)
  ELSE Absent

-----------------------------------------------------------------------------
(* Cases, comparisons and sources.                                         *)

Increasing(at) == \A m, n \in DOMAIN at : m < n => at[m] < at[n]

\* The array holds what is said of each position, in the order of the positions.
Lists(array, said) ==
  \E at \in Bijection(DOMAIN array, DOMAIN said) :
    Increasing(at) /\ \A n \in DOMAIN array : array[n] = said[at[n]]

CaseBindings(s, sel, pre) ==
  [i \in SelectedCases(s, sel) |->
     [id |-> s.cases[i].id, tree |-> pre.tree[i], shared |-> pre.shared,
      fingerprint |-> pre.fingerprint[i],
      skill |-> s.cases[i].skill, critical |-> s.cases[i].critical]]

\* All fields of a comparison are in a plan.
ComparisonBindings(s, ms) == [m \in ms |-> s.comparisons[m]]

ComparedVariants(comparisons) ==
  UNION {{comparisons[n].control, comparisons[n].treatment} : n \in DOMAIN comparisons}

SourcesParse(sources, comparisons, cases) ==
  /\ DOMAIN sources = ComparedVariants(comparisons)
  /\ \A v \in DOMAIN sources :
       /\ sources[v].kind \in {"git_ref", "without_skill", "worktree"}
       /\ sources[v].kind = "without_skill" <=> sources[v].commit = Absent
       /\ DOMAIN sources[v].digests = Ids(cases)
       /\ sources[v].kind = "without_skill" =>
            \A x \in DOMAIN sources[v].digests : sources[v].digests[x] = EMPTY_SOURCE_SHA256

\* _assert_generic_holdout_source_authority, of the preflight: no comparison may
\* evaluate a source against itself.
SourcesAuthoritative(s, sel, sources) ==
  LET ids == {s.cases[i].id : i \in SelectedCases(s, sel)}
  IN  /\ \A v \in DOMAIN sources :
           /\ DOMAIN sources[v].digests = ids
           /\ IF sources[v].kind = "without_skill"
              THEN /\ sources[v].commit = Absent
                   /\ \A x \in ids : sources[v].digests[x] = EMPTY_SOURCE_SHA256
              ELSE sources[v].commit # Absent
      /\ \A m \in SelectedComparisons(s, sel) : \A x \in ids :
           sources[s.comparisons[m].control].digests[x]
             # sources[s.comparisons[m].treatment].digests[x]

-----------------------------------------------------------------------------
(* The document.  Its fields named here are those the code compares; name, *)
(* reviewers and records of the review are the operator's.                 *)

PlanParses(d) ==
  /\ d.mode \in {"judged", "objective_only"}
  /\ d.comparisons # <<>> /\ UniqueIds(d.comparisons)
  /\ \A n \in DOMAIN d.comparisons : d.comparisons[n].repetitions >= 1
  /\ d.cases # <<>> /\ UniqueIds(d.cases)
  /\ \A m, n \in DOMAIN d.cases :
       d.cases[m].tree = d.cases[n].tree \/ d.cases[m].fingerprint = d.cases[n].fingerprint
         => m = n
  /\ \A n \in DOMAIN d.cases : d.cases[n].critical # <<>> /\ Distinct(d.cases[n].critical)
  /\ \A k \in DOMAIN d.cases :
       Cardinality({n \in DOMAIN d.cases : d.cases[n].skill = d.cases[k].skill})
         >= _MIN_HOLDOUT_CASES
  /\ SourcesParse(d.sources, d.comparisons, d.cases)
  /\ ProviderBindingParses(d.provider)
  /\ AdapterBindingParses(d.generator, "generation")
  /\ d.mode = "judged" => AdapterBindingParses(d.comparator, "comparison")
  /\ (d.mode = "judged") <=> (d.judge # Absent)
  /\ d.seed \in Nat

\* The selection a plan is prepared with, and the one it is run with.
Release(s, plan) ==
  [split |-> "holdout", cases |-> <<>>, comparisons |-> s.holdout, seed |-> Absent,
   plan |-> plan, verifier_only |-> FALSE]

\* judge: release, evidence, profile, descriptor and registry; an objective plan
\* names the acceptance policy of the code instead.
Writes(d, s, pre) ==
  /\ d.manifest = s /\ d.mode = s.mode /\ d.seed = s.seed
  /\ d.provider = GeneratorBinding(s, pre.generator)
  /\ d.generator = AuthorityBinding(s.provider, "generation", pre.generator)
  /\ d.comparator = ComparatorBinding(s, pre)
  /\ d.judge = pre.judge
  /\ d.sources = pre.sources
  /\ Len(d.comparisons) = Len(s.holdout)
  /\ \A n \in DOMAIN d.comparisons : \A m \in DOMAIN s.comparisons :
       s.comparisons[m].id = s.holdout[n] => d.comparisons[n] = s.comparisons[m]
  /\ Lists(d.cases, CaseBindings(s, Release(s, Absent), pre))

Binds(d, s, sel, pre) ==
  /\ d.manifest = s /\ d.mode = s.mode
  /\ s.mode = "judged" => pre.judge.evidence # Absent
  /\ d.judge = pre.judge
  /\ d.provider = GeneratorBinding(s, pre.generator)
  /\ d.generator = AuthorityBinding(s.provider, "generation", pre.generator)
  /\ d.comparator = ComparatorBinding(s, pre)
  /\ d.seed = s.seed
  /\ Lists(d.comparisons, ComparisonBindings(s, SelectedComparisons(s, sel)))
  /\ d.sources = pre.sources
  /\ SourcesAuthoritative(s, sel, pre.sources)
  /\ Lists(d.cases, CaseBindings(s, sel, pre))

\* What a preflight of a release has found when it gets to its plan: the sources
\* of the compared variants, tasks without repetition, a generator that may speak
\* for a release, and for a judged suite a certified judge.
Preflighted(s, sel, pre) ==
  /\ DOMAIN pre.sources =
       UNION {{s.comparisons[m].control, s.comparisons[m].treatment} :
                m \in SelectedComparisons(s, sel)}
  /\ \A v \in DOMAIN pre.sources : \E i \in DOMAIN s.variants :
       s.variants[i].id = v /\ s.variants[i].kind = pre.sources[v].kind
  /\ SourcesAuthoritative(s, sel, pre.sources)
  /\ TasksUnique(s, sel, pre.tree, pre.fingerprint)
  /\ Policy(s.provider.adapter).release_authoritative
  /\ pre.generator.lock_bytes = Absent <=> s.provider.lock = Absent
  /\ IF s.mode = "judged" THEN pre.judge # Absent /\ pre.judge.evidence # Absent
     ELSE pre.judge = Absent

-----------------------------------------------------------------------------
(* A whole preflight, of one selection: shown are the artifacts the judge  *)
(* can be shown, limits its execution limits.                              *)

Preflight(s, chosen, preparing, pre, d, shown, limits) ==
  LET sel == Effective(s, chosen)
  IN  /\ Selects(s, sel, preparing)
      /\ ArtifactsSupported(s, sel, shown)
      /\ sel.split = "holdout" =>
           Preflighted(s, sel, pre) /\ (preparing \/ Binds(d, s, sel, pre))
      /\ PlanWithinCap(s, sel, limits)
=============================================================================
