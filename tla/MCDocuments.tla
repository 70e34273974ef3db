---------------------------- MODULE MCDocuments ----------------------------
(***************************************************************************)
(* A judged suite with a holdout of eight cases and an objective one for   *)
(* the optimizer, a plan of each, and a spend journal, on which TLC        *)
(* evaluates Suite, PlanDocument, SpendAccounting and PilotPlan.           *)
(***************************************************************************)
LOCAL INSTANCE Integers
LOCAL INSTANCE Sequences
LOCAL INSTANCE TLC

CONSTANTS Absent, NotApplicable, NoAnswer

Pilot == INSTANCE PilotPlan WITH
  BuiltinProfiles <- {"software"}, ControlFirst <- <<<<<<TRUE>>>>>>,
  EMPTY_SOURCE_SHA256 <- 0, CompiledNames <- {"a.pyc"}, MAX_ENVIRONMENT_BYTES <- 2000000000

Spend == INSTANCE SpendAccounting WITH
  BuiltinProfiles <- {"software"}, ControlFirst <- <<<<<<TRUE>>>>>>,
  Requirements <- {"r"}, Criteria <- {"c"}, Decisive <- {"c"}

-----------------------------------------------------------------------------
(* A judged suite and its release.                                         *)

Claude ==
  [adapter |-> "claude-cli", model |-> "m", timeout |-> 10, budget |-> 5,
   executable |-> "claude", effort |-> Absent, billing |-> Absent, lock |-> Absent]
Codex ==
  [adapter |-> "codex-app-server", model |-> "gpt-5.6-luna", timeout |-> 10, budget |-> Absent,
   executable |-> "codex", effort |-> "max", billing |-> "chatgpt_subscription", lock |-> "p"]

Contract ==
  [requirements |-> <<[id |-> "r", kind |-> "required_behavior", text |-> 30]>>,
   performance |-> Absent, qualitative |-> <<>>]

JudgedCase(i) ==
  [id |-> i, split |-> IF i <= 8 THEN "holdout" ELSE "train", skill |-> "k",
   argv |-> <<<<"v">>>>, critical |-> <<"a">>, tools |-> <<>>, context |-> <<<<"d", "x">>>>,
   bundle |-> <<"b">>, timeout |-> 1, verifier_timeout |-> 1, contract |-> Contract,
   artifact |-> "workspace_diff", prompt |-> <<"suite", "cases", i, "p">>,
   fixture |-> <<"suite", "cases", i, "f">>]

Compare(id, control, treatment) ==
  [id |-> id, control |-> control, treatment |-> treatment, repetitions |-> 3,
   order |-> "ab_ba"]

JudgedSuite ==
  [mode |-> "judged", profile |-> [kind |-> "builtin", id |-> "software", resources |-> Absent],
   comparator |-> Claude, provider |-> Claude,
   variants |-> <<[id |-> "n", kind |-> "without_skill"],
                  [id |-> "w", kind |-> "worktree", root |-> <<"wt">>]>>,
   comparisons |-> <<Compare("nw", "n", "w"), Compare("wn", "w", "n")>>,
   holdout |-> <<"nw">>, cases |-> [i \in 1 .. 9 |-> JudgedCase(i)],
   shared |-> <<"suite", "_shared">>, repository_root |-> <<"repo">>, seed |-> 3]

Limits == [per_call |-> 1, run |-> 48]

\* Loading: what a suite may not say.
ASSUME
  /\ Pilot!Loads(JudgedSuite) /\ Pilot!Loads([JudgedSuite EXCEPT !.provider = Codex])
  /\ \A s \in {[JudgedSuite EXCEPT !.comparator = Codex],
               [JudgedSuite EXCEPT !.holdout = <<"nw", "nw">>],
               [JudgedSuite EXCEPT !.holdout = <<"wn", "nw">>],
               [JudgedSuite EXCEPT !.shared = <<"wt", "d">>],
               [JudgedSuite EXCEPT !.cases[2].id = 1],
               [JudgedSuite EXCEPT !.comparisons[1].control = "w"],
               [JudgedSuite EXCEPT !.provider.budget = Absent]} : ~Pilot!Loads(s)

\* Selecting: the whole holdout under a plan, or one comparison without.
Diagnostic ==
  [split |-> "public", cases |-> <<>>, comparisons |-> <<"nw">>, seed |-> Absent,
   plan |-> Absent, verifier_only |-> FALSE]

ASSUME LET release == Pilot!Release(JudgedSuite, "plan")
           Rejected(sel) == ~Pilot!Selects(JudgedSuite, sel, FALSE)
       IN  /\ Pilot!Selects(JudgedSuite, release, FALSE)
           /\ Pilot!Selects(JudgedSuite, [release EXCEPT !.plan = Absent], TRUE)
           /\ Pilot!Selects(JudgedSuite, Diagnostic, FALSE)
           /\ Rejected([release EXCEPT !.plan = Absent]) /\ Rejected([release EXCEPT !.seed = 1])
           /\ Rejected([release EXCEPT !.cases = <<1, 2>>])
           /\ Rejected([release EXCEPT !.comparisons = <<"nw", "wn">>])
           /\ Rejected([Diagnostic EXCEPT !.comparisons = <<>>])
           /\ Rejected([Diagnostic EXCEPT !.plan = "plan"])
           /\ ~Pilot!Selects([JudgedSuite EXCEPT !.cases[1].split = "train"], release, FALSE)
           /\ Pilot!ExecutionPlan(JudgedSuite, release, Limits).comparator_exposure = 48
           /\ Pilot!PlanWithinCap(JudgedSuite, release, Limits)
           /\ ~Pilot!PlanWithinCap(JudgedSuite, release, [Limits EXCEPT !.run = 47])

-----------------------------------------------------------------------------
(* The plan of its release.                                                *)

SourceOf(kind, commit, digest) ==
  [kind |-> kind, commit |-> commit, digests |-> [i \in 1 .. 8 |-> digest]]

Found ==
  [generator |-> [name |-> "claude", version |-> 1, executable |-> "claude", lock_bytes |-> Absent],
   comparator |-> "runtime", judge |-> [release |-> 1, evidence |-> 1],
   sources |-> ("n" :> SourceOf("without_skill", Absent, 0))
                 @@ ("w" :> SourceOf("worktree", "c0", 7)),
   tree |-> [i \in 1 .. 8 |-> i], fingerprint |-> [i \in 1 .. 8 |-> i], shared |-> 1]

Prepared ==
  [manifest |-> JudgedSuite, mode |-> "judged", seed |-> 3,
   provider |-> Pilot!GeneratorBinding(JudgedSuite, Found.generator),
   generator |-> Pilot!AuthorityBinding(Claude, "generation", Found.generator),
   comparator |-> Pilot!ComparatorBinding(JudgedSuite, Found),
   judge |-> Found.judge, sources |-> Found.sources,
   comparisons |-> <<JudgedSuite.comparisons[1]>>,
   cases |-> [i \in 1 .. 8 |->
                [id |-> i, tree |-> i, shared |-> 1, fingerprint |-> i, skill |-> "k",
                 critical |-> <<"a">>]]]

\* It is what a preflight writes, it loads, and it binds in a preflight that finds
\* the same and in no other.
ASSUME
  LET release == Pilot!Release(JudgedSuite, "plan")
      Passes(found) == Pilot!Preflight(JudgedSuite, release, FALSE, found, Prepared,
                                       {"workspace_diff"}, Limits)
  IN  /\ Pilot!Preflight(JudgedSuite, Pilot!Release(JudgedSuite, Absent), TRUE, Found, Absent,
                         {"workspace_diff"}, Limits)
      /\ Pilot!Writes(Prepared, JudgedSuite, Found) /\ Pilot!PlanParses(Prepared)
      /\ Passes(Found)
      /\ \A found \in {[Found EXCEPT !.tree[3] = 9],
                       [Found EXCEPT !.sources["w"].digests[1] = 8],
                       [Found EXCEPT !.sources["w"].commit = "c1"],
                       [Found EXCEPT !.judge.release = 2],
                       [Found EXCEPT !.generator.version = 2]} : ~Passes(found)
      /\ ~Pilot!PlanParses([Prepared EXCEPT !.cases[2].tree = 1])
      /\ ~Pilot!PlanParses([Prepared EXCEPT !.judge = Absent])

-----------------------------------------------------------------------------
(* An answer of the judge, and the journal that paid for it.               *)

Response ==
  [checks |-> [s \in {"A", "B"} |-> [r \in {"r"} |-> "satisfied"]],
   criteria |-> [c \in {"c"} |-> "tie"]]
Executor == [kind |-> "sandbox", enforced |-> TRUE, inaccessible |-> {"root"}, executable |-> "e"]
Reply == [response |-> Response, models |-> <<"m">>, cost |-> 3, tokens |-> 1]
Provider ==
  [actual_models |-> <<"m">>, billing |-> "metered_api", cost |-> 3, quota |-> Absent,
   provenance |-> Absent, sandbox |-> Executor, final_output |-> Reply, tokens |-> 1,
   requested_model |-> "m", name |-> "claude", version |-> 1, duration |-> 1]
Runtime ==
  [limits |-> [timeout |-> 10, per_call |-> 5, run |-> 20],
   judge |-> [requested_model |-> "m", provider |-> "claude", provider_version |-> 1],
   test_release |-> FALSE, executors |-> {Executor}]

Shown == [id |-> Spend!OpaqueId(1, 2, "nw", 1, 0), shown |-> "diffs"]
Question == Spend!JudgeRequest(JudgedSuite, {"root"}, Shown, 0, "AB")
Result ==
  [response |-> Response, decision |-> Response, outcome |-> "tie", provider |-> Provider,
   transport |->
     [response |-> Response, decision |-> Response, raw |-> Reply, requested_model |-> "m",
      actual_models |-> <<"m">>, provider |-> "claude", provider_version |-> 1, cost |-> 3,
      duration |-> 1, request |-> Question.bytes, executor |-> Executor, attempt |-> "t",
      command |-> [executable |-> "e", request |-> Question.bytes]]]

Entry(event, attempt, amount) ==
  [event |-> event, amount |-> amount, attempt |-> attempt, request |-> Question.bytes,
   invocation |-> Spend!InvocationId(Shown.id, 0, "AB")]
Paid == <<Entry("reserve", "t", 5), Entry("reconcile", "t", 3)>>
Journal == Paid \o <<Entry("reserve", "u", 5), Entry("forfeit", "u", 5)>>

\* An answer is taken with its evidence only, and found again when the journals are
\* added up; no attempt pays for two.
ASSUME
  LET Taken(result, journal) == Spend!ResultAccepted(result, Question, Runtime, 20, journal)
      trial == Spend!Trial(Result, Question, "nw")
      Accounted(trials) == Spend!TrialsAccount(("nw" :> Journal), trials)
  IN  /\ Taken(Result, Paid) /\ Taken(Result, Journal)
      /\ ~Taken(Result, <<Paid[1]>>) /\ ~Taken(Result, Paid \o Paid)
      /\ ~Taken([Result EXCEPT !.outcome = "A"], Paid)
      /\ ~Taken([Result EXCEPT !.transport.attempt = "u"], Journal)
      /\ Spend!JournalAccounts(Journal) /\ Accounted(<<trial>>)
      /\ ~Accounted(<<trial, trial>>) /\ ~Accounted(<<[trial EXCEPT !.attempt = "u"]>>)
      /\ Spend!KnownCost("nw" :> Journal) = 3 /\ Spend!UnknownInvocations("nw" :> Journal) = 1
      /\ \A journal \in {<<Paid[1]>>, <<Paid[2]>>, Paid \o Paid,
                         <<Paid[1], Entry("reconcile", "t", 6)>>,
                         <<Paid[1], Entry("forfeit", "t", 4)>>,
                         Append(Paid, Entry("forfeit", "t", 5))} :
           ~Spend!JournalAccounts(journal)

-----------------------------------------------------------------------------
(* An optimizer run.                                                       *)

PilotCase(id, split) ==
  [JudgedCase(1) EXCEPT !.id = id, !.split = split, !.contract = Absent,
     !.argv = <<<<"verify.py">>>>, !.bundle = <<"skills", "k">>,
     !.context = <<<<"skills", "k", "SKILL.md">>>>,
     !.prompt = <<"r", "p", id>>, !.fixture = <<"r", "f", id>>]

PilotSuite ==
  [JudgedSuite EXCEPT !.mode = "objective_only", !.profile = Absent, !.comparator = Absent,
     !.variants[2].root = <<"r">>, !.repository_root = <<"r">>, !.shared = <<"r", "shared">>,
     !.cases = <<PilotCase("t1", "train"), PilotCase("t2", "train"),
                 PilotCase("v1", "validation"), PilotCase("h1", "holdout")>>]

Dir == [kind |-> "directory", bytes |-> 0]
File(content) == [kind |-> "file", bytes |-> 3, content |-> content, executable |-> FALSE]
Link(target) == [kind |-> "link", target |-> target]
Seed == [bytes |-> 3, text |-> TRUE, frontmatter |-> "name"]

\* Caches are not read, whatever is in them.
RepositoryFiles ==
  (<<"r", "suite.json">> :> File("suite")) @@ (<<"r", "verify.py">> :> File("verifier"))
  @@ (<<"r", "shared", "u.py">> :> File("shared")) @@ (<<"r", "f", "t1", "m">> :> File("fixture"))
  @@ (<<"r", "skills", "k", "SKILL.md">> :> File(Seed))
  @@ [path \in {<<"r", "p", id>> : id \in {"t1", "t2", "v1", "h1"}} |-> File("prompt")]
Directories ==
  {<<"r">>, <<"r", "shared">>, <<"r", "shared", "__pycache__">>, <<"env">>, <<"trainer">>, <<"d">>}
  \cup {<<"r", "f", id>> : id \in {"t1", "t2", "v1", "h1"}}
Files ==
  RepositoryFiles @@ [path \in Directories |-> Dir]
  @@ (<<"r", "shared", "__pycache__", "z">> :> Link(<<"z">>))
  @@ (<<"env", "python">> :> Link(<<"usr", "python">>)) @@ (<<"usr", "python">> :> File("py"))

World ==
  [suites |-> (<<"r", "suite.json">> :> PilotSuite), refs |-> ("HEAD" :> "c0"),
   repository |-> <<"r">>,
   tree |-> ("c0" :> [path \in {Pilot!Relative(<<"r">>, file) : file \in DOMAIN RepositoryFiles} |->
                        [content |-> Files[<<"r">> \o path].content, executable |-> FALSE]]),
   files |-> Files,
   executables |-> (<<"env", "python">> :> "py") @@ (<<"codex">> :> "cx") @@ (<<"bw">> :> "bw"),
   prefix |-> (<<"env", "python">> :> <<"env">>),
   codex |-> <<"codex">>, bundled |-> (<<"codex">> :> <<"bw">>), package |-> "p",
   checkouts |-> (<<"trainer">> :> [top |-> <<"trainer">>, head |-> "SKILLOPT_COMMIT",
                                    clean |-> TRUE, origin |-> "SKILLOPT_REPOSITORY"])]

Request ==
  [suite |-> <<"r", "suite.json">>, skill |-> "k", baseline |-> "HEAD", train |-> <<"t1">>,
   selection |-> <<"t2">>, validation |-> <<"v1">>, seed |-> 3, model |-> "m", timeout |-> 60,
   output |-> <<"d", "out">>, source |-> <<"trainer">>, skillopt_python |-> <<"env", "python">>,
   skivolve_python |-> <<"env", "python">>]

Plan == Pilot!PlanOf(Request, World)
Later == [World EXCEPT !.files = @ @@ (Request.output :> Dir)]

\* A plan is made of cases that are public and apart, read back, and holds until
\* something it binds has changed.
ASSUME
  /\ Pilot!Buildable(Request, World)
  /\ \A q \in {[Request EXCEPT !.train = <<"h1">>], [Request EXCEPT !.selection = <<"t1">>],
               [Request EXCEPT !.validation = <<"t1">>], [Request EXCEPT !.timeout = 59],
               [Request EXCEPT !.output = <<"d">>], [Request EXCEPT !.baseline = "main"]} :
       ~Pilot!Buildable(q, World)
  /\ Pilot!PlanAccepted(Pilot!AsJson(Plan), Later) /\ ~Pilot!PlanAccepted(Pilot!AsJson(Plan), World)
  /\ Pilot!Revalidates(Plan, Later)
  /\ \A w \in {[World EXCEPT !.files[<<"r", "verify.py">>].content = "edited"],
               [World EXCEPT !.files[<<"r", "shared", "u.py">>].executable = TRUE],
               [World EXCEPT !.files[<<"usr", "python">>].content = "other"],
               [World EXCEPT !.checkouts[<<"trainer">>].clean = FALSE],
               [World EXCEPT !.package = "q"]} :
       ~Pilot!Revalidates(Plan, w)

\* Its derived suites pass their dry runs, with the calls it announces.
ASSUME
  LET PilotCalls(asked) ==
        Pilot!ExecutionPlan(
          Pilot!AskedSuite(Plan, PilotSuite, <<"x">>, Seed, asked),
          Pilot!Invocation(asked.split, Pilot!AskedComparison(asked), asked.ids, FALSE),
          Limits).agent_calls
  IN  /\ Pilot!PilotPreflight(Plan, <<"x">>, <<"y">>, World, {"workspace_diff"}, Limits)
      /\ PilotCalls(Pilot!BaselineSelection(Plan)) * 2 + PilotCalls(Pilot!Training(Plan))
           + PilotCalls(Pilot!Validation(Plan)) = Pilot!PlannedGeneratorCalls(Plan)

\* The score of a case with one repetition that fails an expectation, and with none.
Scored(critical) ==
  [n \in 1 .. 3 |->
     [comparison |-> Pilot!FITNESS_COMPARISON_ID, case |-> "t1", repetition |-> n - 1,
      completed |-> TRUE,
      treatment |-> [status |-> "completed", passed |-> TRUE,
                     critical |-> ("a" :> (n # 2 \/ critical))]]]

ASSUME
  /\ Pilot!Scorable(Scored(TRUE), "t1") /\ ~Pilot!Scorable(Scored(TRUE), "t2")
  /\ Pilot!Hard(Scored(TRUE), "t1", {"a"}) /\ Pilot!Soft(Scored(TRUE), "t1", {"a"}) = <<6, 6>>
  /\ ~Pilot!Hard(Scored(FALSE), "t1", {"a"}) /\ Pilot!Soft(Scored(FALSE), "t1", {"a"}) = <<5, 6>>
=============================================================================
