----------------------------- MODULE SealedPlan -----------------------------
(***************************************************************************)
(* The files a sealed holdout plan names, and the runner that seals a plan *)
(* or runs one while anybody may edit them (skivolve/runner.py):           *)
(* prepare_holdout_plan, the preflight with its binding of sources, cases, *)
(* executables and judge, the checks that run, _run_pair, _run_arm,        *)
(* _materialize_source and _copy_attested_executable make later, and what  *)
(* every arm and the judge are given in the end.                           *)
(*                                                                         *)
(* One holdout selection of a judged suite, the only one a production plan *)
(* may name.  The consumption of the plan, the ledgers and the calls are   *)
(* the business of HoldoutRun and PairRun.  A tree is read in one step.    *)
(***************************************************************************)
EXTENDS Naturals

CONSTANTS
  Cases, Pairs, CaseOf,        \* CaseOf[p]: the case of pair p
  Plain, GitRef, Worktree,     \* the variants: without_skill, git_ref, worktree
  Control, Treatment,          \* the variant of pair p in either role
  Bytes, Commits, Contents,    \* Contents[k][c]: bundle and context of case c at commit k
  Empty,                       \* EMPTY_SOURCE_SHA256
  None

Variants == Plain \cup GitRef \cup Worktree
Repositories == GitRef \cup Worktree
Roles == {"control", "treatment"}
VariantOf(p, r) == IF r = "control" THEN Control[p] ELSE Treatment[p]

SealedPlanAssumption ==
  /\ CaseOf \in [Pairs -> Cases]
  /\ Control \in [Pairs -> Variants] /\ Treatment \in [Pairs -> Variants]
  /\ Plain \cap Repositories = {} /\ GitRef \cap Worktree = {}
  /\ Contents \in [Commits -> [Cases -> Bytes]]
  /\ Empty \notin Bytes /\ None \notin Bytes \cup Commits \cup Pairs \cup {Empty}

VARIABLES
  manifest,  \* the suite file
  trees,     \* trees[c]: directory of case c and the shared directory
  tools,     \* tools[c]: interpreter and required tools of c, their stat identity included
  release,   \* release, profile and certification of the judge
  refs,      \* refs[v]: the commit the ref of v names
  heads,     \* heads[v]: HEAD of worktree v
  work,      \* work[v][c]: bundle and context of case c in worktree v
  planFile,  \* the file of the plan, None without one
  backTree,  \* history: cases whose tree took a value it had had in this runner's life
  pastTree,  \* history: the values it had
  backWork,  \* history: the same of <<worktree, case>>
  pastWork,
  moved,     \* history: worktrees whose HEAD was moved in this runner's life
  task,      \* what the runner is for: "prepare", "run"
  pc,        \* where it is
  suite,     \* the bytes of the manifest it was loaded from
  judge,     \* _comparator_runtime, None before it is loaded
  pin,       \* what the preflight has recorded so far
  draft,     \* what prepare_holdout_plan wrote
  plan,      \* the plan a preflight loaded
  pair,      \* the pair being run
  given,     \* prompt and base files _run_pair read for it
  arm,       \* arm[r]: where an arm is and what it was given
  pairs,     \* pair_results
  result     \* run.json, or the plan prepare_holdout_plan returns

world == <<manifest, trees, tools, release, refs, heads, work, planFile>>
history == <<backTree, pastTree, backWork, pastWork, moved>>
running == <<pair, given, arm, pairs>>
vars == <<world, history, task, pc, suite, judge, pin, draft, plan, running, result>>

Unpinned ==
  [commit |-> [v \in Repositories |-> None], head |-> [v \in Worktree |-> None],
   clean |-> {},
   source |-> [v \in Variants |-> [c \in Cases |-> IF v \in Plain THEN Empty ELSE None]],
   prompt |-> [c \in Cases |-> None], tools |-> [c \in Cases |-> None],
   tree |-> [c \in Cases |-> None]]

NoArm == [pc |-> "none", fixture |-> None, source |-> None, bench |-> None,
          tree |-> None, tools |-> None]
Idle == [r \in Roles |-> NoArm]
Nothing == [prompt |-> None, base |-> None]

Init ==
  /\ manifest \in Bytes /\ trees \in [Cases -> Bytes] /\ tools \in [Cases -> Bytes]
  /\ release \in Bytes /\ refs \in [Repositories -> Commits]
  /\ heads \in [Worktree -> Commits] /\ work \in [Worktree -> [Cases -> Bytes]]
  /\ planFile = None
  /\ backTree = {} /\ pastTree = [c \in Cases |-> {trees[c]}]
  /\ backWork = {} /\ pastWork = [v \in Worktree |-> [c \in Cases |-> {work[v][c]}]]
  /\ moved = {}
  /\ task = "none" /\ pc = "ended" /\ suite = None /\ judge = None
  /\ pin = Unpinned /\ draft = None /\ plan = None
  /\ pair = None /\ given = Nothing /\ arm = Idle /\ pairs = {} /\ result = None

-----------------------------------------------------------------------------
(* Edits of the files, at any time and by anybody.                         *)

EditTree(c, b) ==
  /\ b # trees[c]
  /\ trees' = [trees EXCEPT ![c] = b]
  /\ backTree' = IF b \in pastTree[c] THEN backTree \cup {c} ELSE backTree
  /\ pastTree' = [pastTree EXCEPT ![c] = @ \cup {b}]
  /\ UNCHANGED <<manifest, tools, release, refs, heads, work, planFile,
                 backWork, pastWork, moved,
                 task, pc, suite, judge, pin, draft, plan, running, result>>

EditWork(v, c, b) ==
  /\ b # work[v][c]
  /\ work' = [work EXCEPT ![v][c] = b]
  /\ backWork' = IF b \in pastWork[v][c] THEN backWork \cup {<<v, c>>} ELSE backWork
  /\ pastWork' = [pastWork EXCEPT ![v][c] = @ \cup {b}]
  /\ UNCHANGED <<manifest, trees, tools, release, refs, heads, planFile,
                 backTree, pastTree, moved,
                 task, pc, suite, judge, pin, draft, plan, running, result>>

\* A commit or a checkout; the files it writes are edits of their own.
MoveHead(v, k) ==
  /\ k # heads[v]
  /\ heads' = [heads EXCEPT ![v] = k]
  /\ moved' = moved \cup {v}
  /\ UNCHANGED <<manifest, trees, tools, release, refs, work, planFile,
                 backTree, pastTree, backWork, pastWork,
                 task, pc, suite, judge, pin, draft, plan, running, result>>

EditTools(c, b) ==
  /\ tools' = [tools EXCEPT ![c] = b]
  /\ UNCHANGED <<manifest, trees, release, refs, heads, work, planFile, history,
                 task, pc, suite, judge, pin, draft, plan, running, result>>

MoveRef(v, k) ==
  /\ refs' = [refs EXCEPT ![v] = k]
  /\ UNCHANGED <<manifest, trees, tools, release, heads, work, planFile, history,
                 task, pc, suite, judge, pin, draft, plan, running, result>>

EditSuite ==
  /\ manifest' \in Bytes /\ release' \in Bytes
  /\ UNCHANGED <<trees, tools, refs, heads, work, planFile, history,
                 task, pc, suite, judge, pin, draft, plan, running, result>>

Plans ==
  [manifest : Bytes, release : Bytes,
   commit : [Repositories -> Commits],
   source : [Variants -> [Cases -> Bytes \cup {Empty}]],
   prompt : [Cases -> Bytes], tree : [Cases -> Bytes]]

EditPlan ==
  /\ planFile' \in Plans \cup {None}
  /\ UNCHANGED <<manifest, trees, tools, release, refs, heads, work, history,
                 task, pc, suite, judge, pin, draft, plan, running, result>>

Edit ==
  \/ \E c \in Cases, b \in Bytes :
       EditTree(c, b) \/ EditTools(c, b) \/ \E v \in Worktree : EditWork(v, c, b)
  \/ \E v \in Worktree, k \in Commits : MoveHead(v, k)
  \/ \E v \in Repositories, k \in Commits : MoveRef(v, k)
  \/ EditSuite \/ EditPlan

-----------------------------------------------------------------------------
(* A runner: it begins, raises or dies.  A check that does not hold raises, *)
(* and so may any other step.                                              *)

\* load_suite; what the files were before is no concern of this runner.
Begin ==
  /\ pc = "ended" /\ pc' = "manifest" /\ task' \in {"prepare", "run"}
  /\ suite' = manifest /\ judge' = None
  /\ pin' = Unpinned /\ draft' = None /\ plan' = None
  /\ pair' = None /\ given' = Nothing /\ arm' = Idle /\ pairs' = {} /\ result' = None
  /\ backTree' = {} /\ pastTree' = [c \in Cases |-> {trees[c]}]
  /\ backWork' = {} /\ pastWork' = [v \in Worktree |-> [c \in Cases |-> {work[v][c]}]]
  /\ moved' = {}
  /\ UNCHANGED world

\* A plan that was written and not verified is unlinked, whatever is there now.
Raise ==
  /\ pc # "ended" /\ pc' = "ended"
  /\ planFile' = IF draft = None THEN planFile ELSE None
  /\ UNCHANGED <<manifest, trees, tools, release, refs, heads, work, history,
                 task, suite, judge, pin, draft, plan, running, result>>

Die ==
  /\ pc # "ended" /\ pc' = "ended"
  /\ UNCHANGED <<world, history, task, suite, judge, pin, draft, plan, running, result>>

-----------------------------------------------------------------------------
(* The preflight.                                                          *)

AssertManifest ==
  /\ pc = "manifest" /\ manifest = suite /\ pc' = "judge"
  /\ UNCHANGED <<world, history, task, suite, judge, pin, draft, plan, running, result>>

LoadRuntime ==
  /\ pc = "judge" /\ pc' = "sources"
  /\ judge' = IF judge = None THEN release ELSE judge
  /\ UNCHANGED <<world, history, task, suite, pin, draft, plan, running, result>>

Pin(next) ==
  /\ pin' = next
  /\ UNCHANGED <<world, history, task, pc, suite, judge, draft, plan, running, result>>

\* Objects of a commit cannot change once the ref is resolved.
PinGitRef(v) ==
  /\ pc = "sources" /\ pin.commit[v] = None
  /\ Pin([pin EXCEPT !.commit[v] = refs[v], !.source[v] = Contents[refs[v]]])

ReadHead(v) ==
  /\ pc = "sources" /\ pin.head[v] = None
  /\ Pin([pin EXCEPT !.head[v] = heads[v]])

ResolveSource(v) ==
  /\ pc = "sources" /\ pin.head[v] # None /\ pin.commit[v] = None
  /\ Pin([pin EXCEPT !.commit[v] = refs[v]])

AssertClean(v) ==
  /\ pc = "sources" /\ pin.commit[v] # None /\ work[v] = Contents[heads[v]]
  /\ Pin([pin EXCEPT !.clean = @ \cup {v}])

PinWorktree(v, c) ==
  /\ pc = "sources" /\ v \in pin.clean /\ pin.source[v][c] = None
  /\ work[v][c] = Contents[pin.commit[v]][c]
  /\ Pin([pin EXCEPT !.source[v][c] = work[v][c]])

\* No comparison may evaluate one source against itself.
AssertSources ==
  /\ pc = "sources" /\ pc' = "cases"
  /\ \A v \in Variants, c \in Cases : pin.source[v][c] # None
  /\ \A p \in Pairs : LET c == CaseOf[p]
                      IN  pin.source[Control[p]][c] # pin.source[Treatment[p]][c]
  /\ UNCHANGED <<world, history, task, suite, judge, pin, draft, plan, running, result>>

ReadPrompt(c) ==
  /\ pc = "cases" /\ pin.prompt[c] = None
  /\ Pin([pin EXCEPT !.prompt[c] = trees[c]])

AttestTools(c) ==
  /\ pc = "cases" /\ pin.prompt[c] # None /\ pin.tools[c] = None
  /\ Pin([pin EXCEPT !.tools[c] = tools[c]])

SnapshotCase(c) ==
  /\ pc = "cases" /\ pin.tools[c] # None /\ pin.tree[c] = None
  /\ Pin([pin EXCEPT !.tree[c] = trees[c]])

CasesPinned == pc = "cases" /\ \A c \in Cases : pin.tree[c] # None

\* What a plan says of a preflight.  The executables are not part of it.
Payload ==
  [manifest |-> suite, release |-> judge, commit |-> pin.commit, source |-> pin.source,
   prompt |-> pin.prompt, tree |-> pin.tree]

LoadPlan ==
  /\ CasesPinned /\ (task = "run" \/ draft # None) /\ planFile # None
  /\ plan' = planFile /\ pc' = "bind"
  /\ UNCHANGED <<world, history, task, suite, judge, pin, draft, running, result>>

BindPlan ==
  /\ pc = "bind" /\ plan = Payload /\ planFile = plan /\ pc' = "bound"
  /\ UNCHANGED <<world, history, task, suite, judge, pin, draft, plan, running, result>>

-----------------------------------------------------------------------------
(* Sealing a plan: preflight, write, reload, preflight with the plan.      *)

WritePlan ==
  /\ CasesPinned /\ task = "prepare" /\ draft = None /\ planFile = None
  /\ planFile' = Payload /\ draft' = Payload /\ pc' = "reload"
  /\ UNCHANGED <<manifest, trees, tools, release, refs, heads, work, history,
                 task, suite, judge, pin, plan, running, result>>

ReloadPlan ==
  /\ pc = "reload" /\ planFile = draft /\ pc' = "manifest"
  /\ pin' = Unpinned
  /\ UNCHANGED <<world, history, task, suite, judge, draft, plan, running, result>>

SealPlan ==
  /\ pc = "bound" /\ task = "prepare" /\ plan = draft
  /\ result' = plan /\ pc' = "ended"
  /\ UNCHANGED <<world, history, task, suite, judge, pin, draft, plan, running>>

-----------------------------------------------------------------------------
(* Running it.                                                             *)

AssertAgain ==
  /\ pc = "bound" /\ task = "run" /\ manifest = suite /\ pc' = "claim"
  /\ UNCHANGED <<world, history, task, suite, judge, pin, draft, plan, running, result>>

Claim ==
  /\ pc = "claim" /\ planFile = plan /\ pc' = "pairs"
  /\ UNCHANGED <<world, history, task, suite, judge, pin, draft, plan, running, result>>

Case == CaseOf[pair]
AssertCase == trees[Case] = pin.tree[Case]
Running == pc = "pairs" /\ pair # None

StartPair(p) ==
  /\ pc = "pairs" /\ pair = None /\ \A q \in pairs : q.pair # p
  /\ trees[CaseOf[p]] = pin.tree[CaseOf[p]]
  /\ pair' = p /\ given' = Nothing /\ arm' = Idle
  /\ UNCHANGED <<world, history, task, pc, suite, judge, pin, draft, plan, pairs, result>>

ReadPairPrompt ==
  /\ Running /\ given.prompt = None
  /\ given' = [given EXCEPT !.prompt = trees[Case]]
  /\ UNCHANGED <<world, history, task, pc, suite, judge, pin, draft, plan,
                 pair, arm, pairs, result>>

ReadBaseFiles ==
  /\ Running /\ given.prompt # None /\ given.base = None
  /\ given' = [given EXCEPT !.base = trees[Case]]
  /\ arm' = [r \in Roles |-> [NoArm EXCEPT !.pc = "check"]]
  /\ UNCHANGED <<world, history, task, pc, suite, judge, pin, draft, plan,
                 pair, pairs, result>>

Step(r, here, next) ==
  /\ Running /\ arm[r].pc = here
  /\ arm' = [arm EXCEPT ![r] = next]
  /\ UNCHANGED <<world, history, task, pc, suite, judge, pin, draft, plan,
                 pair, given, pairs, result>>

CheckFixture(r) ==
  /\ Step(r, "check", [arm[r] EXCEPT !.pc = "fixture"])
  /\ AssertCase

CopyFixture(r) ==
  Step(r, "fixture", [arm[r] EXCEPT !.pc = "source", !.fixture = trees[Case]])

TakeSource(r) ==
  LET v == VariantOf(pair, r)
  IN  /\ Running
      /\ \/ /\ v \in Plain
            /\ Step(r, "source", [arm[r] EXCEPT !.pc = "call", !.source = Empty])
         \/ /\ v \in GitRef
            /\ Step(r, "source", [arm[r] EXCEPT !.pc = "call",
                                                !.source = Contents[pin.commit[v]][Case]])
         \/ /\ v \in Worktree /\ heads[v] = pin.head[v]
            /\ Step(r, "source", [arm[r] EXCEPT !.pc = "fingerprint"])

CheckSource(r) ==
  LET v == VariantOf(pair, r)
  IN  /\ Step(r, "fingerprint", [arm[r] EXCEPT !.pc = "copy"])
      /\ work[v][Case] = pin.source[v][Case]

CopySource(r) ==
  Step(r, "copy", [arm[r] EXCEPT !.pc = "dirty", !.source = work[VariantOf(pair, r)][Case]])

\* After the copy only git is asked, against whatever HEAD is now.
CheckDirty(r) ==
  LET v == VariantOf(pair, r)
  IN  /\ Step(r, "dirty", [arm[r] EXCEPT !.pc = "call"])
      /\ work[v][Case] = Contents[heads[v]][Case]

\* The agent has run.
CheckVerifier(r) ==
  /\ Step(r, "call", [arm[r] EXCEPT !.pc = "bench"])
  /\ AssertCase

\* The fixture once more, for an artifact that is not a diff of the workspace.
CopyBench(r) ==
  Step(r, "bench", [arm[r] EXCEPT !.pc = "verify", !.bench = trees[Case]])

\* The stored snapshot, and copies of the executables whose bytes and metadata
\* are those of the attestation.
RunVerifier(r) ==
  /\ Step(r, "verify", [arm[r] EXCEPT !.pc = "done", !.tree = pin.tree[Case],
                                      !.tools = tools[Case]])
  /\ tools[Case] = pin.tools[Case]

ArmFails(r) ==
  /\ Running /\ arm[r].pc \notin {"none", "done", "failed"}
  /\ Step(r, arm[r].pc, [arm[r] EXCEPT !.pc = "failed"])

\* The arms must have had the same prompt and fixture; a completed pair may go
\* to the judge, with the prompt and the base files of the pair.
FinishPair ==
  /\ Running /\ \A r \in Roles : arm[r].pc \in {"done", "failed"}
  /\ LET completed == /\ \A r \in Roles : arm[r].pc = "done"
                      /\ arm["control"].fixture = arm["treatment"].fixture
     IN  pairs' = pairs \cup {[pair |-> pair, completed |-> completed, arm |-> arm,
                               given |-> given, judge |-> judge]}
  /\ pair' = None /\ given' = Nothing /\ arm' = Idle
  /\ UNCHANGED <<world, history, task, pc, suite, judge, pin, draft, plan, result>>

Return ==
  /\ pc = "pairs" /\ pair = None /\ \A p \in Pairs : \E q \in pairs : q.pair = p
  /\ planFile = plan
  /\ result' = [plan |-> plan, pairs |-> pairs] /\ pc' = "ended"
  /\ UNCHANGED <<world, history, task, suite, judge, pin, draft, plan, running>>

PreflightReads ==
  \/ AssertManifest \/ LoadRuntime
  \/ \E v \in GitRef : PinGitRef(v)
  \/ \E v \in Worktree : ReadHead(v) \/ ResolveSource(v) \/ AssertClean(v)
  \/ \E v \in Worktree, c \in Cases : PinWorktree(v, c)
  \/ AssertSources
  \/ \E c \in Cases : ReadPrompt(c) \/ AttestTools(c) \/ SnapshotCase(c)
  \/ LoadPlan \/ BindPlan

Prepare == WritePlan \/ ReloadPlan \/ SealPlan

Arm(r) ==
  \/ CheckFixture(r) \/ CopyFixture(r) \/ TakeSource(r) \/ CheckSource(r)
  \/ CopySource(r) \/ CheckDirty(r) \/ CheckVerifier(r) \/ CopyBench(r)
  \/ RunVerifier(r) \/ ArmFails(r)

Run ==
  \/ AssertAgain \/ Claim \/ \E p \in Pairs : StartPair(p)
  \/ ReadPairPrompt \/ ReadBaseFiles
  \/ \E r \in Roles : Arm(r)
  \/ FinishPair \/ Return

Next == Edit \/ Begin \/ Raise \/ Die \/ PreflightReads \/ Prepare \/ Run

Spec == Init /\ [][Next]_vars

-----------------------------------------------------------------------------
(* What a run did is what its plan names.                                  *)

Stages == {"manifest", "judge", "sources", "cases", "reload", "bind", "bound",
           "claim", "pairs", "ended"}
ArmStages == {"none", "check", "fixture", "source", "fingerprint", "copy", "dirty", "call",
              "bench", "verify", "done", "failed"}
Maybe(S) == S \cup {None}
PinType ==
  [commit : [Repositories -> Maybe(Commits)], head : [Worktree -> Maybe(Commits)],
   clean : SUBSET Worktree, source : [Variants -> [Cases -> Maybe(Bytes \cup {Empty})]],
   prompt : [Cases -> Maybe(Bytes)], tools : [Cases -> Maybe(Bytes)],
   tree : [Cases -> Maybe(Bytes)]]
ArmType ==
  [pc : ArmStages, fixture : Maybe(Bytes), source : Maybe(Bytes \cup {Empty}),
   bench : Maybe(Bytes), tree : Maybe(Bytes), tools : Maybe(Bytes)]

\* What the parts of the state are; edits keep files files.
TypeOK ==
  /\ manifest \in Bytes /\ trees \in [Cases -> Bytes] /\ tools \in [Cases -> Bytes]
  /\ release \in Bytes /\ refs \in [Repositories -> Commits]
  /\ heads \in [Worktree -> Commits] /\ work \in [Worktree -> [Cases -> Bytes]]
  /\ backTree \subseteq Cases /\ pastTree \in [Cases -> SUBSET Bytes]
  /\ pastWork \in [Worktree -> [Cases -> SUBSET Bytes]] /\ moved \subseteq Worktree
  /\ task \in {"none", "prepare", "run"} /\ pc \in Stages
  /\ pin \in PinType
  /\ pair \in Maybe(Pairs) /\ given \in [prompt : Maybe(Bytes), base : Maybe(Bytes)]
  /\ arm \in [Roles -> ArmType]

Completed == {q \in pairs : q.completed}
Settled(c) == c \notin backTree
SettledSource(v, c) == v \in Worktree => <<v, c>> \notin backWork /\ v \notin moved

\* Every arm of a completed pair was given the source the plan binds for its
\* variant and case, wherever refs, HEADs and files moved since: always for a git
\* ref or no skill, and for a worktree unless its HEAD moved or a file of the
\* case took an earlier content again.
SourceAsSealed ==
  \A q \in Completed, r \in Roles :
    LET v == VariantOf(q.pair, r)
        c == CaseOf[q.pair]
    IN  SettledSource(v, c) => q.arm[r].source = plan.source[v][c]

\* So no pair compares a source with itself.
ArmsDiffer ==
  \A q \in Completed :
    LET c == CaseOf[q.pair]
    IN  (\A r \in Roles : SettledSource(VariantOf(q.pair, r), c))
          => q.arm["control"].source # q.arm["treatment"].source

\* The verifier and its executables are those of the preflight, the judge that of
\* the plan, whatever happened to the files; prompt, fixture and base files are
\* the plan's unless the case took an earlier content again.
CaseAsSealed ==
  \A q \in Completed :
    LET c == CaseOf[q.pair]
    IN  /\ q.judge = plan.release
        /\ \A r \in Roles : q.arm[r].tree = plan.tree[c] /\ q.arm[r].tools = pin.tools[c]
        /\ Settled(c) => /\ q.given = [prompt |-> plan.tree[c], base |-> plan.tree[c]]
                         /\ \A r \in Roles : q.arm[r].fixture = plan.tree[c]

\* A result covers every pair, and the plan it names is the one its preflight
\* bound to the suite it was loaded from.
ResultOfPlan ==
  task = "run" /\ result # None =>
    /\ result = [plan |-> plan, pairs |-> pairs] /\ plan = Payload
    /\ \A p \in Pairs : \E q \in pairs : q.pair = p

\* A sealed plan describes one state of each case: prompt and tree were read at
\* four different times and still agree, unless the case took an earlier content
\* again.
SealedAtOnce ==
  task = "prepare" /\ result # None =>
    /\ result = draft /\ result = Payload
    /\ \A c \in Cases : Settled(c) => result.prompt[c] = result.tree[c]
=============================================================================
