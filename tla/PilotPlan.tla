------------------------------ MODULE PilotPlan ------------------------------
(***************************************************************************)
(* The plan of an optimizer run: which cases it may use, what it binds,    *)
(* its JSON and back (skivolve/skillopt_bridge.py), the suites it derives  *)
(* to compare a candidate skill, their preflight                           *)
(* (skivolve/optimize_cli.py), and the score a candidate gets              *)
(* (skivolve/skillopt_sidecar.py).                                         *)
(*                                                                         *)
(* q is a request of the command line, p the plan made of it.  w is the    *)
(* world: suites by path; the repository and, by commit, the content and   *)
(* mode of its regular files; files by absolute path; the executables, the *)
(* environment and the bundled sandbox of each, as far as they resolve;    *)
(* the checkouts of SkillOpt; the package.  A digest is the thing it is a  *)
(* digest of; bytes of a file are a number.                                *)
(***************************************************************************)
EXTENDS PlanDocument

CONSTANTS
  CompiledNames,         \* the names that end in one of _GENERATED_CACHE_SUFFIXES
  MAX_ENVIRONMENT_BYTES  \* 2 GiB, a number TLC cannot hold

OPTIMIZER_ATTEMPTS_PER_CALL == 3
OPTIMIZER_CALL_TIMEOUT_SECONDS == 900
MAX_CANDIDATE_BYTES == 65536
MAX_TREE_DEPTH == 64
MAX_EVALUATION_INPUT_ENTRIES == 100000
MAX_EVALUATION_INPUT_BYTES == 1073741824
MAX_ENVIRONMENT_FILES == 250000
COMPARISON_ID == "skillopt-vs-seed"
FITNESS_COMPARISON_ID == "skillopt-fitness"
_GENERATED_CACHE_DIRECTORIES == {"__pycache__", ".mypy_cache", ".pytest_cache", ".ruff_cache"}

-----------------------------------------------------------------------------
(* The cases of a plan.                                                    *)

SelectCases(s, ids, skill, split) ==
  /\ ids # <<>> /\ Distinct(ids)
  /\ \A n \in DOMAIN ids : \E i \in DOMAIN s.cases :
       s.cases[i].id = ids[n] /\ s.cases[i].skill = skill /\ s.cases[i].split = split

\* One case selects, so that no regression hides in an average; what trains does
\* not select.
CasesSelected(s, q) ==
  /\ SelectCases(s, q.train, q.skill, "train")
  /\ SelectCases(s, q.selection, q.skill, "train") /\ Len(q.selection) = 1
  /\ SelectCases(s, q.validation, q.skill, "validation")
  /\ ToSet(q.train) \cap ToSet(q.selection) = {}

\* Their positions, in the order training, selection, validation.
PlannedCases(s, q) ==
  LET ids == q.train \o q.selection \o q.validation
  IN  [n \in DOMAIN ids |-> CHOOSE i \in DOMAIN s.cases : s.cases[i].id = ids[n]]

SkillPath(bundle) == Append(bundle, "SKILL.md")

OnlySkill(s, q, bundle) ==
  \A i \in ToSet(PlannedCases(s, q)) :
    s.cases[i].bundle = bundle /\ s.cases[i].context = <<SkillPath(bundle)>>

-----------------------------------------------------------------------------
(* What the cases read: every file below the manifest, the shared          *)
(* verifiers, and the prompts, fixtures and verifier arguments.            *)

Relative(root, path) == SubSeq(path, Len(root) + 1, Len(path))

Cached(path) ==
  ToSet(path) \cap _GENERATED_CACHE_DIRECTORIES # {} \/ Last(path) \in CompiledNames

\* An argument is the path it would be below the suite root.
InputRoots(s, at, xs, fs) ==
  <<at>> \o (IF s.shared = Absent THEN <<>> ELSE <<s.shared>>) \o
  FlattenSeq([n \in DOMAIN xs |->
    LET x == s.cases[xs[n]]
    IN  <<x.prompt, x.fixture>> \o
        SelectSeq([k \in DOMAIN x.argv |-> Front(at) \o x.argv[k]], LAMBDA a : a \in DOMAIN fs)])

ReachedFrom(root, path, fs) ==
  /\ path \in DOMAIN fs /\ IsPrefix(root, path)
  /\ \A middle \in DOMAIN fs : IsPrefix(root, middle) /\ IsPrefix(middle, path) => ~Cached(middle)

Reached(roots, fs) == {path \in DOMAIN fs : \E n \in DOMAIN roots : ReachedFrom(roots[n], path, fs)}

\* A directory is entered once, from the first root that leads to it.
Depth(roots, path, fs) ==
  LET from == Min({n \in DOMAIN roots : ReachedFrom(roots[n], path, fs)})
  IN  Len(path) - Len(roots[from])

Counted(roots, fs) ==
  ToSet(roots) \cup {path \in DOMAIN fs : path # <<>> /\ Front(path) \in Reached(roots, fs)}

InputFiles(roots, fs) == {path \in Reached(roots, fs) : fs[path].kind = "file"}

InputsReadable(at, roots, fs) ==
  /\ \A n \in DOMAIN roots : Cached(roots[n]) \/ roots[n] \in DOMAIN fs
  /\ \A path \in Reached(roots, fs) :
       /\ IsPrefix(Front(at), path) /\ fs[path].kind \in {"file", "directory"}
       /\ fs[path].kind = "directory" => Depth(roots, path, fs) < MAX_TREE_DEPTH
  /\ Cardinality(Counted(roots, fs)) <= MAX_EVALUATION_INPUT_ENTRIES
  /\ MapThenSumSet(LAMBDA path : fs[path].bytes, InputFiles(roots, fs))
       <= MAX_EVALUATION_INPUT_BYTES

EvaluationInputs(at, roots, fs) ==
  [path \in {Relative(Front(at), file) : file \in InputFiles(roots, fs)} |->
     [content |-> fs[Front(at) \o path].content, executable |-> fs[Front(at) \o path].executable]]

\* The clone of the baseline will read the same.
InputsMatchCommit(w, commit, at, roots) ==
  LET inputs == EvaluationInputs(at, roots, w.files)
  IN  \A path \in DOMAIN inputs :
        /\ IsPrefix(w.repository, Front(at) \o path)
        /\ LET tracked == Relative(w.repository, Front(at) \o path)
           IN  tracked \in DOMAIN w.tree[commit] /\ w.tree[commit][tracked] = inputs[path]

TrackedFileMatches(w, commit, path) ==
  /\ path \in DOMAIN w.tree[commit] /\ w.repository \o path \in DOMAIN w.files
  /\ w.files[w.repository \o path].content = w.tree[commit][path].content

-----------------------------------------------------------------------------
(* What runs: interpreters, optimizer, sandbox and the SkillOpt checkout.  *)

\* Directories that hold generated caches are not entered; a link counts as what
\* it leads to, and may lead out of the environment only to a file.
EnvironmentEntries(root, fs) ==
  {path \in DOMAIN fs :
     /\ IsPrefix(root, path) /\ path # root
     /\ \A middle \in DOMAIN fs \ {root, path} :
          IsPrefix(root, middle) /\ IsPrefix(middle, path)
            => Last(middle) \notin _GENERATED_CACHE_DIRECTORIES}

EnvironmentRecords(root, fs) ==
  {path \in EnvironmentEntries(root, fs) :
     /\ fs[path].kind # "directory"
     /\ Last(path) \notin _GENERATED_CACHE_DIRECTORIES \cup CompiledNames}

EnvironmentReadable(root, fs) ==
  LET records == EnvironmentRecords(root, fs)
      Node(path) == IF fs[path].kind = "link" THEN fs[fs[path].target] ELSE fs[path]
  IN  /\ Cardinality(EnvironmentEntries(root, fs)) <= MAX_ENVIRONMENT_FILES
      /\ \A path \in EnvironmentEntries(root, fs) :
           fs[path].kind = "directory" /\ Last(path) \notin _GENERATED_CACHE_DIRECTORIES
             => Len(path) - Len(root) < MAX_TREE_DEPTH
      /\ \A path \in records :
           CASE fs[path].kind = "file" -> TRUE
             [] fs[path].kind = "link" ->
                  /\ fs[path].target \in DOMAIN fs
                  /\ \/ Node(path).kind = "file"
                     \/ Node(path).kind = "directory" /\ IsPrefix(root, fs[path].target)
             [] OTHER -> FALSE
      /\ MapThenSumSet(LAMBDA path : Node(path).bytes,
                       {path \in records : Node(path).kind = "file"}) <= MAX_ENVIRONMENT_BYTES

EnvironmentContent(root, fs) ==
  [path \in {Relative(root, entry) : entry \in EnvironmentRecords(root, fs)} |->
     IF fs[root \o path].kind = "link"
     THEN [link |-> fs[root \o path].target, to |-> fs[fs[root \o path].target]]
     ELSE [file |-> fs[root \o path]]]

\* w.executables: the content of those paths that lead to an executable file.
Resolves(w, path) == path \in DOMAIN w.executables

EnvironmentResolves(w, python) ==
  /\ Resolves(w, python)
  /\ w.prefix[python] \in DOMAIN w.files /\ w.files[w.prefix[python]].kind = "directory"
  /\ IsPrefix(w.prefix[python], python)
  /\ EnvironmentReadable(w.prefix[python], w.files)

\* The reviewed commit at the root of a clean clone of the reviewed repository.
CheckoutValid(w, source) ==
  /\ source \in DOMAIN w.checkouts
  /\ LET c == w.checkouts[source]
     IN  c.top = source /\ c.head = "SKILLOPT_COMMIT" /\ c.clean /\ c.origin = "SKILLOPT_REPOSITORY"

\* Not yet there, in a directory that is, and not where providers have a private
\* one.
OutputFree(w, output) ==
  /\ output # <<>> /\ output \notin DOMAIN w.files
  /\ Front(output) \in DOMAIN w.files /\ w.files[Front(output)].kind = "directory"
  /\ ~IsPrefix(<<"tmp">>, output) /\ ~IsPrefix(<<"var", "tmp">>, output)

-----------------------------------------------------------------------------
(* The plan.                                                               *)

Timeouts == 60 .. 86400

Manifest(q, w) == w.suites[q.suite]
BundleOf(s, q) == s.cases[PlannedCases(s, q)[1]].bundle
InputRootsOf(s, q, w) == InputRoots(s, q.suite, PlannedCases(s, q), w.files)

CasesAllowed(s, q) == Loads(s) /\ CasesSelected(s, q) /\ OnlySkill(s, q, BundleOf(s, q))

\* The files the cases read are those of the baseline.
InputsBound(s, q, w) ==
  LET roots == InputRootsOf(s, q, w)
      commit == w.refs[q.baseline]
  IN  /\ q.baseline \in DOMAIN w.refs
      /\ TrackedFileMatches(w, commit, SkillPath(BundleOf(s, q)))
      /\ InputsReadable(q.suite, roots, w.files) /\ InputsMatchCommit(w, commit, q.suite, roots)

ProgramsBound(q, w) ==
  /\ CheckoutValid(w, q.source)
  /\ EnvironmentResolves(w, q.skillopt_python) /\ Resolves(w, q.skivolve_python)
  /\ w.codex # Absent /\ Resolves(w, w.codex) /\ Resolves(w, w.bundled[w.codex])

Buildable(q, w) ==
  /\ q.timeout \in Timeouts
  /\ q.suite \in DOMAIN w.suites
  /\ CasesAllowed(Manifest(q, w), q)
  /\ InputsBound(Manifest(q, w), q, w)
  /\ ProgramsBound(q, w)
  /\ OutputFree(w, q.output)

\* bindings.environment is that of the optimizer's Python.
PlanOf(q, w) ==
  LET s == Manifest(q, w)
      environment == w.prefix[q.skillopt_python]
  IN  [suite |-> q.suite, repository |-> w.repository, skill |-> q.skill,
       bundle |-> BundleOf(s, q), skill_path |-> SkillPath(BundleOf(s, q)),
       baseline |-> w.refs[q.baseline],
       train |-> q.train, selection |-> q.selection, validation |-> q.validation,
       seed |-> q.seed, model |-> q.model, timeout |-> q.timeout, output |-> q.output,
       optimizer |-> w.codex, sandbox |-> w.bundled[w.codex],
       source |-> q.source, skillopt_python |-> q.skillopt_python,
       environment |-> environment, skivolve_python |-> q.skivolve_python,
       bindings |->
         [inputs |-> EvaluationInputs(q.suite, InputRootsOf(s, q, w), w.files),
          package |-> w.package,
          skillopt_python |-> w.executables[q.skillopt_python],
          environment |-> EnvironmentContent(environment, w.files),
          skivolve_python |-> w.executables[q.skivolve_python],
          optimizer |-> w.executables[w.codex],
          sandbox |-> w.executables[w.bundled[w.codex]]]]

\* Three repetitions, two arms; the selection cases run before and after.
PlannedGeneratorCalls(p) ==
  6 * (Len(p.selection) + Len(p.train) + Len(p.selection) + Len(p.validation))

PlannedOptimizerInvocations(p) ==
  OPTIMIZER_ATTEMPTS_PER_CALL * (IF Len(p.train) = 1 THEN 1 ELSE 4)

-----------------------------------------------------------------------------
(* The plan as JSON, and back in the sidecar.                              *)

FixedPolicy ==
  [backend |-> "codex_exec", num_epochs |-> 1, accumulation |-> 1, edit_budget |-> 2,
   use_gate |-> TRUE, gate_metric |-> "hard", use_semantic_density |-> FALSE,
   use_slow_update |-> FALSE, use_meta_skill |-> FALSE, eval_test |-> FALSE]

\* plan stands for the fields that are repeated one by one.
AsJson(p) ==
  [schema_version |-> 1, plan |-> p,
   optimizer |-> [policy |-> FixedPolicy, batch_size |-> Len(p.train),
                  max_invocations |-> PlannedOptimizerInvocations(p),
                  timeout |-> OPTIMIZER_CALL_TIMEOUT_SECONDS],
   upstream |-> <<"SKILLOPT_REPOSITORY", "SKILLOPT_COMMIT">>,
   planned_generator_calls |-> PlannedGeneratorCalls(p),
   planned_optimizer_invocations |-> PlannedOptimizerInvocations(p),
   planned_ceiling |-> PlannedGeneratorCalls(p) + PlannedOptimizerInvocations(p),
   holdout_used |-> FALSE, automatic_adoption |-> FALSE]

\* plan_from_json: the policy cannot be changed in the file,
PolicyUnchanged(d) ==
  /\ d.schema_version = 1 /\ ~d.holdout_used /\ ~d.automatic_adoption
  /\ d.optimizer.policy = FixedPolicy
  /\ d.upstream = <<"SKILLOPT_REPOSITORY", "SKILLOPT_COMMIT">>

\* nor the budget, nor the separation of the cases.
PlanConsistent(d, w) ==
  LET p == d.plan
  IN  /\ p.skill_path = SkillPath(p.bundle)
      /\ p.timeout \in Timeouts
      /\ \A ids \in {p.train, p.selection, p.validation} : ids # <<>> /\ Distinct(ids)
      /\ Len(p.selection) = 1 /\ ToSet(p.train) \cap ToSet(p.selection) = {}
      /\ d.optimizer.batch_size = Len(p.train)
      /\ \A path \in {p.optimizer, p.sandbox, p.skillopt_python, p.skivolve_python} :
           Resolves(w, path)
      /\ {p.suite, p.repository, p.output, p.source, p.environment} \subseteq DOMAIN w.files
      /\ d.planned_generator_calls = PlannedGeneratorCalls(p)
      /\ d.planned_optimizer_invocations = PlannedOptimizerInvocations(p)
      /\ d.optimizer.max_invocations = PlannedOptimizerInvocations(p)
      /\ d.optimizer.timeout = OPTIMIZER_CALL_TIMEOUT_SECONDS
      /\ d.planned_ceiling = PlannedGeneratorCalls(p) + PlannedOptimizerInvocations(p)

PlanAccepted(d, w) == PolicyUnchanged(d) /\ PlanConsistent(d, w)

-----------------------------------------------------------------------------
(* revalidate_plan: a plan is what it was, at each boundary of a run.      *)

SameExecutable(w, path, content) == Resolves(w, path) /\ w.executables[path] = content

ProgramsSame(p, w) ==
  /\ CheckoutValid(w, p.source)
  /\ SameExecutable(w, p.skillopt_python, p.bindings.skillopt_python)
  /\ EnvironmentResolves(w, p.skillopt_python)
  /\ w.prefix[p.skillopt_python] = p.environment
  /\ EnvironmentContent(p.environment, w.files) = p.bindings.environment
  /\ SameExecutable(w, p.skivolve_python, p.bindings.skivolve_python)
  /\ SameExecutable(w, p.optimizer, p.bindings.optimizer)
  /\ SameExecutable(w, p.sandbox, p.bindings.sandbox) /\ w.bundled[p.optimizer] = p.sandbox

Revalidates(p, w) ==
  LET s == Manifest(p, w)
      roots == InputRootsOf(s, p, w)
  IN  /\ p.suite \in DOMAIN w.suites /\ Loads(s) /\ w.repository = p.repository
      /\ p.baseline \in DOMAIN w.tree
      /\ SelectCases(s, p.train, p.skill, "train")
      /\ SelectCases(s, p.selection, p.skill, "train")
      /\ SelectCases(s, p.validation, p.skill, "validation")
      /\ OnlySkill(s, p, p.bundle)
      /\ InputsReadable(p.suite, roots, w.files)
      /\ EvaluationInputs(p.suite, roots, w.files) = p.bindings.inputs
      /\ InputsMatchCommit(w, p.baseline, p.suite, roots)
      /\ w.package = p.bindings.package
      /\ TrackedFileMatches(w, p.baseline, p.skill_path)
      /\ w.tree[p.baseline][p.skill_path].content.bytes <= MAX_CANDIDATE_BYTES
      /\ ProgramsSame(p, w)

-----------------------------------------------------------------------------
(* A candidate skill and the suite that compares it.                       *)

\* A skill text: its bytes, whether they are UTF-8 without NUL, and its front
\* matter, Absent when it is not terminated.
CandidateValid(candidate, baseline) ==
  /\ 1 <= candidate.bytes /\ candidate.bytes <= MAX_CANDIDATE_BYTES /\ candidate.text
  /\ Absent \notin {candidate.frontmatter, baseline.frontmatter}
  /\ candidate.frontmatter = baseline.frontmatter

\* clone_candidate: one commit on the baseline that changes one file, or none; its
\* author and dates are fixed, so it is the same in every clone.
CandidateCommit(p, candidate) ==
  [parent |-> p.baseline, path |-> p.skill_path, skill |-> candidate]

Cloned(p, candidate, clone, w) ==
  /\ clone \notin DOMAIN w.files
  /\ p.baseline \in DOMAIN w.tree /\ p.skill_path \in DOMAIN w.tree[p.baseline]
  /\ CandidateValid(candidate, w.tree[p.baseline][p.skill_path].content)

\* The manifest moves to the root of the clone, and its paths with it.
Moved(s, at, clone) ==
  LET To(path) == clone \o Relative(Front(at), path)
  IN  [shared |-> IF s.shared = Absent THEN Absent ELSE To(s.shared),
       cases |-> [i \in DOMAIN s.cases |->
         [s.cases[i] EXCEPT !.contract = Absent, !.prompt = To(@), !.fixture = To(@)]]]

DerivedSuite(s, at, clone, baseline, candidate, fitness) ==
  LET id == IF fitness THEN FITNESS_COMPARISON_ID ELSE COMPARISON_ID
      control == IF fitness THEN [id |-> "no-skill", kind |-> "without_skill"]
                 ELSE [id |-> "seed", kind |-> "git_ref", ref |-> baseline]
      treatment == [id |-> "candidate", kind |-> "worktree", root |-> clone, source |-> candidate]
      moved == Moved(s, at, clone)
  IN  [mode |-> "objective_only", profile |-> Absent, comparator |-> Absent,
       provider |-> s.provider, seed |-> s.seed, repository_root |-> clone,
       shared |-> moved.shared, cases |-> moved.cases,
       variants |-> <<control, treatment>>,
       comparisons |-> <<[id |-> id, control |-> control.id, treatment |-> "candidate",
                          repetitions |-> 3, order |-> "ab_ba"]>>,
       holdout |-> <<id>>]

\* What invoke_skivolve asks for: of public cases only.
Invocation(split, comparison, ids, dry_run) ==
  [split |-> split, cases |-> ids, comparisons |-> <<comparison>>,
   seed |-> Absent, plan |-> Absent, verifier_only |-> ~dry_run]

Asked(fitness, split, ids) == [fitness |-> fitness, split |-> split, ids |-> ids]
BaselineSelection(p) == Asked(TRUE, "train", p.selection)
Training(p) == Asked(TRUE, "train", p.train)
Validation(p) == Asked(FALSE, "validation", p.validation)

AskedComparison(asked) == IF asked.fitness THEN FITNESS_COMPARISON_ID ELSE COMPARISON_ID

\* The suite of a question is derived with the baseline for candidate.
AskedSuite(p, s, clone, candidate, asked) ==
  DerivedSuite(s, p.suite, clone, p.baseline, CandidateCommit(p, candidate), asked.fitness)

DryRunPasses(p, s, clone, candidate, asked, shown, limits) ==
  LET suite == AskedSuite(p, s, clone, candidate, asked)
      sel == Invocation(asked.split, AskedComparison(asked), asked.ids, TRUE)
  IN  /\ asked.split \in {"train", "validation"}
      /\ Loads(suite)
      /\ Preflight(suite, sel, FALSE, Absent, Absent, shown, limits)
      /\ ExecutionPlan(suite, Effective(suite, sel), limits).pair_runs = 3 * Len(asked.ids)

\* _preflight_skivolve, of the plan's own baseline in two fresh clones.
PilotPreflight(p, fitness, attribution, w, shown, limits) ==
  LET s == Manifest(p, w)
      baseline == w.tree[p.baseline][p.skill_path].content
  IN  /\ Revalidates(p, w)
      /\ Cloned(p, baseline, fitness, w) /\ Cloned(p, baseline, attribution, w)
      /\ \A asked \in {Training(p), BaselineSelection(p)} :
           DryRunPasses(p, s, fitness, baseline, asked, shown, limits)
      /\ DryRunPasses(p, s, attribution, baseline, Validation(p), shown, limits)

-----------------------------------------------------------------------------
(* The score of a candidate on a case: three repetitions, in each the      *)
(* completion and every critical expectation.                              *)

FitnessPairs(pairs, x) ==
  {n \in DOMAIN pairs : pairs[n].comparison = FITNESS_COMPARISON_ID /\ pairs[n].case = x}

Scorable(pairs, x) ==
  /\ Cardinality(FitnessPairs(pairs, x)) = 3
  /\ {pairs[n].repetition : n \in FitnessPairs(pairs, x)} = 0 .. 2

TreatmentOf(pairs, x, repetition) ==
  LET n == CHOOSE n \in FitnessPairs(pairs, x) : pairs[n].repetition = repetition
  IN  [executed |-> pairs[n].completed /\ pairs[n].treatment.status = "completed",
       passed |-> pairs[n].treatment.passed, critical |-> pairs[n].treatment.critical]

\* A point is a repetition and an expectation, Absent for the completion.
Points(expectations) == (0 .. 2) \X (expectations \cup {Absent})

Earned(pairs, x, expectations) ==
  {point \in Points(expectations) :
     LET t == TreatmentOf(pairs, x, point[1])
     IN  IF point[2] = Absent THEN t.executed /\ t.passed
         ELSE point[2] \in DOMAIN t.critical /\ t.critical[point[2]]}

Hard(pairs, x, expectations) ==
  \A repetition \in 0 .. 2 :
    LET t == TreatmentOf(pairs, x, repetition)
    IN  /\ t.executed /\ t.passed
        /\ \A e \in expectations : e \in DOMAIN t.critical /\ t.critical[e]

\* soft, in parts of one.
Soft(pairs, x, expectations) ==
  <<Cardinality(Earned(pairs, x, expectations)), 3 * (Cardinality(expectations) + 1)>>
=============================================================================
