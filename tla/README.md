# Skivolve, verified

TLA+ models of the stateful core of skivolve (`skivolve/`), the TLC runs that
check them on small instances, and the TLAPS proofs of what matters most. Paths
below are relative to the repository's root unless they end in `.tla` or `.cfg`.

1. [The system](#the-system)
2. [Modules](#modules)
3. [Runs](#runs)
4. [Where the code and its claims part](#where-the-code-and-its-claims-part)
5. [Fairness](#fairness)
6. [Proofs](#proofs)
7. [Abstractions](#abstractions)
8. [Not modelled](#not-modelled)
9. [Plan](#plan)

## The system

Skivolve compares two versions of an agent skill. A *run* evaluates cases; for
each case and repetition a *pair* of *arms* (control, treatment) calls a paid
agent provider in its own workspace, a verifier scores what it did, and a paid
comparator judges the pair blind in both orders. What makes the result worth
something is evidence: no paid call may disappear from the record, no ceiling
may be exceeded, a sealed holdout plan may be evaluated once. That is what most
of the state is for, and it lives in append-only journals that must survive
crashes.

| Component | Code | State | Operations | Interacts with |
|---|---|---|---|---|
| Generator dispatch ledger | `runner.py`, `_GeneratorDispatchLedger` | journal file, lifetime `flock`, size and digest of the last attested file, attempts in memory | open (create or replay), `plan_attempt`, `mark_dispatched`, `mark_completed`, `mark_failed`, `audit`, `close` | called by both arm threads; other runner processes through the file |
| Pair and arm execution | `runner.py`, `_run_pair`, `_run_arm` | per arm: phase flags, the exception in flight; a two-party `threading.Barrier` used twice; provider windows | run pair, run arm | ledger, provider, verifier, the run's audit |
| Comparator spend ledger | `comparator_runtime.py`, `SpendLedger`, `SpendReservation` | journal file, spent and reserved amounts, file identity, a thread lock | restore, reserve, reconcile, forfeit | two comparator threads; the next process through the file |
| Comparator transport | `comparator_runtime.py`, `run_transport` | the call in flight | reserve, execute, validate, reconcile or forfeit | spend ledger, provider process |
| Run loop, result roots, holdout consumption | `runner.py`, `EvalRunner.run`; `holdout_plan.py` | result root directory, consumption record of the plan | preflight, prepare root, claim, open ledgers, pairs, write result | other runs through the file system |
| Preflight, holdout plan, drift checks | `runner.py`, `_preflight`, `prepare_holdout_plan`, `_bind_holdout_plan`, `_materialize_source`; `holdout_plan.py`, `manifest.py` | what was recorded: commits, HEADs, fingerprints, snapshots, attested executables, judge, plan | preflight, write and prove a plan, bind it, check again, copy, verify | everybody who edits the files |
| Calibration collector | `comparator_calibration/collect.py` | checkpoint of trials, spend journal | resume, trial, checkpoint | spend ledger |
| Codex app server client | `codex_app_server.py` | JSON-RPC session, turn, launch gate, transient unit, cleanup-poison record | handshake, turn, interrupt, arm, bind, clear, recover | runner, systemd, other controllers |
| Claude CLI provider | `providers.py` | the process in flight | run agent | bounded transport |
| Bounded process transport | `comparator_runtime.py`, `execute_bounded_transport` | process, stream buffers, overflow flag, deadline | one call | readers and writer threads |
| Aggregation and verdict | `runner.py`, `_aggregate` | none (pure) | | results of the pairs |
| SkillOpt bridge, sidecar, proxy, CLI | `skillopt_*.py`, `optimize_cli.py` | invocation counter file, rollouts, result | claim an invocation, rollout, finalize, validate, certify, publish | trainer and Codex processes, evaluations |
| Certification, manifests, artifacts | `comparator_profiles.py`, `calibration.py`, `manifest.py`, `artifacts.py` | none | validate, hash, score | |

The hard behaviours, and where they live:

- *Crash and power loss inside an append.* Both ledgers write, fsync the file
  and, when they created it, fsync its directory. Every gap between two of these
  system calls is a place to die, and what a power loss leaves of an append that
  was not on storage is anything between nothing and all of it.
- *Failure without death.* A system call raises, memory and file disagree, and
  the process goes on: later appends must notice. Exceptions are replaced by
  others in `finally` clauses and wrapped by providers on the way out.
- *Threads.* The arms race to a barrier with a timeout; the comparator's orders
  share one ceiling.
- *Processes.* Runs compete for a ledger, a result root and a sealed plan, with
  nothing but `flock`, `O_EXCL`, `mkdir` and `rmdir` between them. An evaluator
  that dies leaves a launcher and a systemd unit behind that live on by
  themselves, in a mountpoint the next evaluator wants to clear.
- *Edits.* A run takes hours on files that anybody may change: suite, sources,
  refs, cases, executables, the plan itself. Each is read several times.
- *Messages.* The Codex app server is another program: its notifications come in
  any order, for a tree of threads the model itself decides to grow.
- *Deadlines.* A bounded call races its exit, its output limits, its deadline
  and a cleanup of five seconds.

What makes each part correct is stated by the properties of its module;
`PROJECT.json` lists the hazards, at their lines, with the properties that would
catch each.

## Modules

| Module | Models | Composes |
|---|---|---|
| `AttemptAccounting` | the promise of the generator ledger: one attempt per arm, phases that advance, only the untold is forgotten | |
| `GeneratorLedger` | the ledger, down to each system call of an append, by several processes | instantiates `AttemptAccounting` as `Abstract` |
| `GeneratorLedgerProofs` | its inductive invariant, theorems and refinement | extends `GeneratorLedger` |
| `PairVerdict` | pure: what the judge's answers in both orders and the verifiers' results make of a pair | |
| `PairRun` | one pair: two arms, barrier, provider, ledger, verdict, audit | extends `PairVerdict`, uses the ledger as promised |
| `PairRunProofs` | its inductive invariant and theorems | extends `PairRun` |
| `ReleaseVerdict` | pure: what the results of all pairs make of a run: winners, gates, cells, release | |
| `Suite` | pure: what a suite manifest may say, what a run selects of it and may cost | |
| `PlanDocument` | pure: the document of a sealed plan as it is written, loaded and bound | extends `Suite` |
| `SpendAccounting` | pure: the evidence an answer of the judge comes with, and the sums at the end of the run | extends `PairVerdict` and `Suite` |
| `SpendLedger` | the spend ledger and the paid call around it | |
| `SpendLedgerProofs` | its inductive invariant and theorems | extends `SpendLedger` |
| `HoldoutRun` | runs that compete for plans and result roots | uses the ledger as promised |
| `HoldoutRunProofs` | its inductive invariants and theorems | extends `HoldoutRun` |
| `SealedPlan` | sealing a holdout plan and running it, while the files it names are edited | |
| `CodexCleanup` | the cleanup record, launch gate, transient unit and recovery of Codex sandboxes, by several evaluators | |
| `CodexCleanupProofs` | its inductive invariant and theorems | extends `CodexCleanup` |
| `CodexTurn` | one session with the Codex app server: handshake, root turn, child threads | |
| `BoundedTransport` | one call of `execute_bounded_transport`: caller, three threads, client, unit | |
| `TransportProofs` | the inductive invariants of a session and of a bounded call, and their theorems | extends `CodexTurn` and `BoundedTransport` |
| `Collector` | collectors over a checkpoint and a spend journal | uses the spend ledger's appends as promised |
| `CalibrationCorpus` | pure: the labelled pairs the judge is calibrated on, their adjudication and balance, and which criteria they support | extends `PairVerdict` |
| `Calibration` | pure: the locked release, a judge's trials, rates and gates, certification and profiles, an accepted call | extends `CalibrationCorpus` |
| `VerdictProofs` | what a verdict, a release, a calibration and its evidence are worth: theorems about the pure modules, and the inductive invariant of the collectors | extends `PairVerdict`, `ReleaseVerdict`, `SpendAccounting`, `Calibration`, `Collector` |
| `OptimizerRun` | one live run of the skill optimizer: proxies that share an invocation counter, the sidecar, the command line that judges its result | |
| `PilotPlan` | pure: the plan of an optimizer run, its JSON, its derived suites and their preflight, the score of a case | extends `PlanDocument` |
| `PlannedRunProofs` | runs that keep to a plan: the inductive invariants of `OptimizerRun` and `SealedPlan`, and theorems about the documents | extends `OptimizerRun`, `SealedPlan`, `PilotPlan` |
| `MC...` | constants, symmetry and input functions for TLC | |

### GeneratorLedger

`journal` is the file as a sequence of complete records, header first, and
`torn` says that a fragment follows. `stable` records are on storage, and the
directory entry is when `linked`. A record keeps what a replay distinguishes:
event, attempt id, and the key it binds (a logical arm for `planned`, the suite,
manifest and provider binding for the header). `owner` is the holder of the
`flock`. Per process, `mode` is the instance, `prefix` the bytes it attested by
size and digest, `view` the records its in-memory attempts come from. `prefix`
and `view` are separate because the code updates them at different points:
`_append` moves the size and digest before its closing attestation, and the
caller changes the attempts only after it returned.

`Admits` and `Legal` are `_replay`'s checks. `Acquire`, `OpenFresh`,
`OpenReplay` and `OpenReject` are `__init__`; `PlanAttempt` and `MarkAttempt`
are the public methods up to the first write (they share `Begin`, the checks of
`_append`); `WritePart`, `WriteAll`, `Fsync`, `FsyncRoot`, `Acknowledge` are the
append; `AppendFails` and `AttestFails` are its exceptions before and after the
size and digest are updated. `Crash` and `PowerLoss` are external. `acked` is a
history of the records whose append returned.

### PairRun

One step per statement of `_run_arm` that can block, raise, or touch the ledger
or the barrier. `arm[a]` holds the program counter, the exception in flight
(`none`, a ledger error, or another) and the local flags the handler reads:
`synchronization_complete`, `provider_entered`, the dispatch callback's flag and
the state of the attempt. `sent` is the fact the accounting is about: the prompt
has left. The provider kind decides the order of callback and prompt: Claude's
prompt is written to its standard input after the callback, Codex's callback
runs after `turn/start` was sent, a fake's handler may ignore the callback.
Codex pairs are serialized, the others run concurrently. `clock` counts readings
of the monotonic clock, enough to compare windows.

`AppendTo` is the ledger: an append succeeds, is refused with no effect, or
fails and leaves the ledger poisoned with or without the record in the file.
That is `GeneratorLedger`'s `Begin`, `AppendFails`, `AttestFails` and `FailStop`
seen from the caller.

`Conclude` is the rest of `_run_pair`: the errors of the arms and of their
comparison (`differ` stands for models, prompts and fixtures), then the winner
by `VerdictOf`.

### PairVerdict

An answer of the judge is what `validate_response` keeps of it: a status per side
and requirement, and a winner per criterion or none (`NotApplicable`).
`Answers` are the accepted ones; a refused or missing one is `NoAnswer`. `Swap`
brings an answer to the order BA back to the sides, `Outcome` is
`derive_outcome`, `Judged` the comparison of the two normalized decisions,
`Objective` the branches that need no judge, and `VerdictOf` the chain of
branches with the errors first. `Decisive` are the criteria that have the basis
the case requires of them: for the others anything but a tie is refused.

### ReleaseVerdict

The constants are the arguments of one call of `_aggregate`; nothing has state.
`MatrixExact` to `OrderIntegrity` and `HoldoutProtocol` are the global gates,
`Complete`, `Stable`, `CriticalStable`, `OrderStable` and `Winner` the record of
a case, `Selected` to `HoldoutAuthorized` a cell (a comparison and a skill), and
`FinalReleaseAuthorized` and `Passed` the verdict. `Significant` is the sign test
in integers: the tail of row `n` of Pascal's triangle is at most a twentieth of
`2^n`. `MCPairRun` evaluates it on a holdout run of eight cases of one skill and
24 results, as assumptions that TLC checks: dropping, repeating or spoiling any
one result stops the release and any other winner of one repetition does not
(`EveryResultCounts`), of eight cases the treatment needs 8:0 or 7:1
(`EnoughWins`), and the sign test is monotone (`SignTest`).

### Suite and PlanDocument

A suite `s` is the manifest field by field, after `load_suite` found its fields to
have their names and JSON types; `Loads(s)` is everything else it demands:
providers within what their adapters can do, unique ids, comparisons between
distinct variants, a holdout list that names them all, contracts within the
vocabulary of their profile, roots apart from what must stay hidden. `sel` is
what the command line asks for; `Selects` is `_selected`, with the shape a
holdout run must have, `ExecutionPlan` and `PlanWithinCap` the calls and amounts
it may come to, `ArmOrder` which arm of a serialized provider goes first.

In `PlanDocument`, `pre` is what a preflight found, `Writes` the document
`prepare_holdout_plan` makes of it, `PlanParses` what `load_holdout_plan`
accepts, `Binds` what the preflight of a run compares, and `Preflight` the whole
of `_preflight` over these. `SealedPlan` has the times at which the parts are
read; here is what is compared.

### SpendAccounting

`JudgeRequest` is the question, named by `OpaqueId` and `InvocationId`;
`ResultAccepted` is `ComparatorResult.__post_init__` with
`_validate_comparator_result`: provider, transport and raw text say the same,
the decision is that of the answer, and the journal holds reservation and
reconciliation of this very call (`SpendReconciled`). `JournalAccounts` and
`TrialsAccount` are `_comparator_cost_accounting`: each record has its place,
each trial is found at its price, and no attempt is claimed by two.

### SpendLedger

`journal` is the sequence of what each append left in the file: a whole line, a
record that lacks only its newline (`bare`), or less (`piece`). `OnALine` is
what `splitlines` followed by the canonical check accepts: a chunk that is
followed by another is readable only if it ended its line. `Readable`, `ChargeOf`
and `Charged` are `_restore_journal`. `lock`, `step`, `pending` and `created`
are the append in progress, with one action per system call and per failure;
`call[c]` is the `run_transport` of each comparator thread, whose `finally`
clause forfeits when the reconciliation raised. Amounts are small integers.
`incurred` is what the provider really charged.

### HoldoutRun

A run is a process: `run[r]` is its position in `EvalRunner.run`, `record` the
consumption record with how far its persistence came, `dir` the entries of each
result root, `ledger` the generator ledger in it. Each check and the act it
guards are separate actions (`FindRoot`/`MakeRoot`/`InspectRoot`,
`FindRecord`/`OpenRecord`, `FindSpend`/`MakeSpend`), since other processes run
in between.

With the ledger open the run goes through its pairs. `OpenPair` makes the pair's
directory, which must not be there yet, and `arms[r]` is where each arm of the
pair in progress is, as far as it concerns the root: `StartArm` makes its directory,
`PlanArm` plans its attempt, `Dispatch` calls the provider, `FailArm` is every
failure on the way. A suite in `Concurrent` runs the two at the same time: they
are planned in any order, one may fail before its plan while the other goes on, and
both wait at `PassBarrier`, which is what `PairRun` shows of the barrier. The arms
of any other suite follow one another, either first. An arm that ends in an error
is recorded and the run goes on (`EndPair`); one where the ledger raised ends it
(`PairRaises`). Three guards stand between a run and another's attempts: the
directory of the pair, that of the arm, and the duplicate-arm check of
`plan_attempt`. Of runs that begin with the same pair only the first ever bites.

### SealedPlan

The world is what the runner reads: `trees` (a case's directory and the shared
one), `work`, `heads` and `refs` of the worktrees, the executables `tools` with
their stat identity, suite `manifest`, judge `release`, `planFile`. `Edit` changes
any of them between any two steps. One runner at a time seals a plan
(`task = "prepare"`) or runs one. `pin` is what its preflight has recorded
(`_worktree_heads`, `_worktree_hashes`, `_git_commits`, `_case_snapshots`,
`_case_hashes`, `_verifier_executables`, and the source and case records), filled
one read at a time by `PinGitRef`, `ReadHead`, `ResolveSource`, `AssertClean`,
`PinWorktree`, `ReadPrompt`, `AttestTools` and `SnapshotCase`. `LoadPlan` and
`BindPlan` are `_bind_holdout_plan`; `WritePlan`, `ReloadPlan` and `SealPlan`
are `prepare_holdout_plan`, whose plan is proved by a second preflight.
`StartPair`, `ReadPairPrompt`, `ReadBaseFiles` and the steps of an arm are the
reads of `_run_pair`, `_run_arm`, `_materialize_source` and `_run_verifier` with
the checks around them, in their order; `arm[r]` and `given` hold what was
read. Any step may raise instead, and the process may die.

Contents are values. That one comes back is the case a comparison of hashes cannot
see, so history variables note it: `backTree` and `backWork` are the cases and
worktree files that took a content they had had in this runner's life, `moved`
the worktrees whose HEAD was moved.

The theorems draw the boundary of the checks. A git ref, the verifier's snapshot,
the executables and the judge are immune to every edit. Prompt, fixture and base
files are the sealed ones unless an earlier content came back: the check before
the verifier vouches for all reads before it. A worktree is vouched for only
while its HEAD stays: after the copy `_materialize_source` asks git alone, and
git compares with whatever HEAD is then, so that a commit made between the
fingerprint and that question goes unnoticed with the edit it commits. What
`_copy_tree` puts into the verifier's workspace for an artifact that is no diff is
read after the last check of the case (`CopyBench`); no theorem speaks of it.
This module has no run: its properties are proved.

### CodexCleanup

Evaluators take turns under one `flock` (`lock`). `pc[c]` is the position of
evaluator `c` in `run_agent`, with one step per write of the cleanup record, per
scan or probe of recovery, and per system call of the constructor and of
`close`. `marker` is the record on disk: the unit it names, the identity of
`auth.json` it is bound to, its link count (publication is a link followed by
an unlink), and which of gate, launcher and unit were identified in it. Three
things run without the evaluator: `launcher[l]` (forked, `gated` in the gate
script, `client` once it is systemd-run, `waiting`, `gone`), `gate[l]` (the
pipe it reads its token from) and `unit[l]`.

`Lock` to `Clear` are `_owner_lock` and `recover`, `Prepare` to `Unlink` the
mountpoint and `arm`, `BindGate` to `IdentifyUnit` the constructor of
`_ProcessTransport`, `Stop` to `Disarm` its `close` and the end of `run_agent`.
`Abandon`, `RollBack` and `Die` are a failing call before a launcher exists, a
failing call after, and the death of the process. `Written` is what a step
writes to the record, and it is shared with `Abandon`: a write that raised may
have happened.

### CodexTurn

`pc` is the call whose response the client awaits. The server may send any
message at any time; a message is an action whose guards are the checks of
`_handle_notification` and `_validate_collab_item`. One that fails a check ends
the session, as does an error or the deadline: that is `Reject`, always
enabled, so the guards say what an outcome can be built from. The sets have the
code's names: `collab`, `unbound` (children that showed themselves before their
spawn named them), `validated`, `failed`, `active`, `seen` (every child turn
started), `usage`, `pending` spawns, `items` (other tools) and `terminal`.

### BoundedTransport

`phase` is the caller's position, `reader[s]` and `writer` the threads,
`kept[s]` the buffers in chunks, `closed` the pipes the caller closed. The
client is the process of `systemd-run`, killed or exited; the unit it started
inherits the pipes and may outlive it. A wait with a deadline is two actions,
one for what it waits for and one for the deadline (`PollExited`/`PollCut`,
`Waited`/`WaitAgain`/`GiveUp`, `Join`). `Closable` is Python's: `close()` of a
buffered pipe waits for the thread inside a read or write on it.

### Collector

A collector is a process: `pc[k]` is its position in `collect`, `step[k]` the
progress of its append in three steps (inspect, write, inspect again), `trials`
and `todo` its evidence and the recovered trials still to restore, `spent` and
`identity` its ledger. `journal` and `checkpoint` are the files all collectors
share. The append here succeeds or raises; `SpendLedger` has what the disk makes
of it. `paid` is what the provider was really paid for, and `accepted` the
evidence that was evaluated and published, each with what had been paid when its
journal was read (`snapshot`). `Charged` and `Bound` are the checks of
`evaluate_evidence` on spend. An attempt id is drawn from those nobody has used
(`Unused`), of which `AttemptIds` has enough for every start to pay for every
trial.

### CalibrationCorpus and Calibration

A pair of `ValidCorpus` has the labels of two reviewers, a second review, the
resolution by the authority and the gold answers are scored by, or `None`;
`HistoricalLabel` and `ScoringLabel` are the two kinds of label, `Support` and
`ProductionDecisive` what `criterion_support` counts. A bundle is the corpus,
rubric, artifacts and release of one profile. `ValidEvidence` collects everything
that makes `evaluate_evidence` raise; `Observed` is the decision about a pair
when both orders and all repetitions agree, and `Gates` the conjunction of the
gates, the rates as comparisons of integers. `Certification`, `Loaded` and
`LiveCalibrated` are the way of a certification into a run, and `AcceptedCall`
what `run_transport` demands of a call and its answer. A digest is what it is a
digest of, so that a stale one is an inequality. That the result of an evaluation
is digested with the mode it was made in is why a certification made without the
checkout's sources does not load with them.

`MCCalibration` has a corpus of five pairs, one of each outcome, on which TLC
evaluates, with the run of `Collector`: the corpus and both locked releases are
valid; a judge that is right passes and one that answers by position does not;
of all judges that are wrong about one pair only, with any of the possible
answers, none passes with the locked rates, and without rates exactly those pass
that are right about the critical pairs; the rates at one mean complete
agreement; a certification loads with its own evidence, release, sources and mode
and with no other.

### OptimizerRun

Three kinds of process. `proxy[p]` is one proxy in `main` and
`_claim_invocation` of `skillopt_codex_proxy.py`, a system call a step: its
position, the number it claimed, the `epoch` it read the counter in, and whether
it started Codex. `counter` is `codex-invocations.txt` (`Nil` when it is blank),
`holder` the holder of its `flock`. `Ends` is every way out of a proxy; one that
is killed or whose write fails after `truncate` leaves the counter blank, and
`lost` counts that. `sidecar`, `rollouts` and `result` are
`skillopt_sidecar.py`: `Rollout` is the adapter the trainer calls, for any skill,
batch and score it gets, and `Finalize` reads the counter while proxies may still
run. `cli` is `optimize_cli.py` from the launch to the published `verdict`:
`Collect` waits until the sidecar's process group is gone (`Reaped`), `Revalidate`
and `Publish` compare the sources with the plan, as the sidecar does once in
`Load`; `Validate` is `_validate_sidecar_result` and `Certify` the fresh evaluation.
`Drift` is an edit of anything `revalidate_plan` hashes, and `Undo` takes it back,
after which no comparison sees it. `tainted` says which evaluations were made in
between, and `undone` which of them were over when the plan's content was back.
This module has no run: its properties are proved.

### PilotPlan

A request `q` is made in a world `w`: suites, the repository with its commits,
files, executables, environments, checkouts of the trainer. `Buildable` collects
everything that makes `build_plan` raise, and `PlanOf` is its result: cases by
role (`CasesSelected`), bindings of manifest, case files, package, checkout and
environment (`EvaluationInputs`, `EnvironmentContent`), timeouts. `AsJson` and
`PlanAccepted` are `as_json` and `plan_from_json`; `Revalidates` is
`revalidate_plan` in a later world. `Cloned` and `DerivedSuite` make the suite
that compares a candidate with the seed, for fitness or for attribution; `Asked`
are the four runs made of them, `DryRunPasses` what each dry run must report and
`PilotPreflight` the preflight that makes them all. `Hard` and `Soft` are the
two scores of `_score_case`; a soft score is a fraction.

`MCDocuments` has one of each document, on which TLC evaluates these four
modules with the run of `SpendLedger`: a judged suite of nine cases that loads,
and seven edits of it that do not; its release and the selections that are
refused; the plan written from a preflight, which loads and binds there and in
no preflight with another tree, source, judge or generator; an answer with its
journal, and journals that do not account; an optimizer's request, the plan built
and read back, the worlds in which it no longer holds, and its dry runs. So the
hypotheses of the theorems about them hold of something.

## Runs

Every property of a passing run has a mutant: a change of one mapped definition
of the kind a bug would make, under which TLC finds the property violated.

| Run | Instance | States | Shows |
|---|---|---|---|
| `GeneratorLedger.cfg` | 2 arms, 2 ids, 3 processes with 2 bindings, 6 records, 3 openings | 47k | the journal replays, acknowledged records are durable, one attempt per arm, nothing permitted is forgotten, a poisoned instance stops, and the ledger implements `AttemptAccounting` |
| `PairRun.cfg` (module `MCPairRun`) | fake, Claude and Codex providers, monitored or not, 2 failing appends; 1 requirement, 3 criteria, 2 of them decisive | 155k | both arms pass the start barrier or neither does and the windows of two completed ones overlap, every returned result and every sent prompt is accounted, a role wins only what it earned, no arm waits for ever; and the assumptions of `MCPairRun` |
| `SpendLedger.cfg` | 2 callers, ceiling 5, call 2, 3 reservations, 2 openings, torn writes | 186k | the ceiling holds over restarts, what was paid is covered after any power loss, memory never claims more than the file, one close per reservation; and the assumptions of `MCDocuments` |
| `HoldoutRun.cfg` (module `MCHoldoutRun`) | 2 runs of one plan and one public run, the public one and one of the two with a comparator; 2 roots; a suite with concurrent and one with serialized arms; 1 pair of 2 arms | 2.1M | consumption is durable before dispatch, a plan is evaluated once, a root holds one run's attempts, evidence is not removed |
| `CodexCleanup.cfg` | 2 evaluators, 2 launches, 2 faults, 1 login | 69k | a sandbox that runs or may start is on record, whoever works in the mountpoint is alone, every record left behind goes away |
| `CodexTurn.cfg` | 2 child threads with 1 turn each, 2 item ids per thread, 3 items | 289k | an outcome counts every turn and leaves no child at work; the sets the client scopes children by agree |
| `BoundedTransport.cfg` | limit of 1 chunk | 11k | a success is the whole output of an undisturbed call; every call ends unless its unit outlives the stop |
| `Collector.cfg` | 2 collectors, 2 trials, ceiling 2, call 1, 2 starts | 2.5M | accepted evidence covers all that was paid; a lone collector keeps the ceiling and does not pay twice for what its checkpoint holds; and the assumptions of `MCCalibration` |
| `PairRunCodexFault.cfg`, `SpendLedgerTorn.cfg`, `SpendLedgerUnlinked.cfg`, `HoldoutRunDisjoint.cfg` | | | violations, next section |

Why the bounds are enough to make the cases happen:

- *GeneratorLedger.* Six records are a header and five events: one attempt
  complete and another dispatched, so the journal does reach its limit with an
  attempt unresolved. Three openings cover create, reopen after a failure,
  and reopen after that; three processes cover two that race with the same
  binding and one with another. Processes of one binding, arms and ids are
  symmetric.
- *PairRun.* A pair has two arms. Two faults let one poison the ledger and
  another hit the handler that records the first, or the peer.
- *SpendLedger.* A ceiling of 5 with calls of 2 admits two reservations at a
  time and leaves a remainder, so a third reservation depends on what the first
  two really cost. Two openings give one restart.
- *HoldoutRun.* Two runs race for the plan while a third competes for the roots
  only; two roots let the racers share one or not. Runs that meet in one root begin
  with the same pair: the first may have planned both of its arms, either one, or
  none when it fails or dies, and the second comes with the same suite or with one
  of another binding whose arms are serialized. Runs of several pairs are left to the
  theorem.
- *CodexCleanup.* Two launches: one left by a dead evaluator and the one that
  takes over; recovery concerns the launch on record only, and at most one is.
  Two faults let the second evaluator die in its recovery, or in a launch of its
  own after it. The theorems below hold for any number of each.
- *CodexTurn.* Two children let one take the slot another waits for, and a child
  spawn a child. Three items are two spawns and another tool, or a spawn that
  fails and one that follows. Children, turns and items are interchangeable. The
  constraint `RootApart` of `MCCodexTurn` cuts combinations: what the root's
  thread, turn and usage announce is kept in variables no handler reads together
  with those of the children, except at the end of the turn.
- *BoundedTransport.* One chunk within the limit and one beyond it, on each of
  two streams.
- *Collector.* Two trials at the per-call ceiling fill the run ceiling, so one
  repeated call would exceed it. The two starts are one collector restarted, or
  two at the same time.

Deadlock is not checked where behaviours end by design: the bounded openings of
the ledgers, the finished runs of `HoldoutRun`, a session that ended, a call that
returned, a collector started as often as the bound allows. `PairRun` and
`CodexCleanup` are checked for it: the only terminal states of the former are
those of an ended run (`Ended`), and the latter has none.

## Where the code and its claims part

Four runs state what the repository says and are expected to fail.

- **A failed dispatch append does not abort a Codex run**
  (`PairRunCodexFault.cfg`, `DispatchFaultAborts`). `_JsonRpcSession.call` wraps
  every exception of its dispatch callback in a `ProviderError`
  (`skivolve/codex_app_server.py:925`), after `turn/start` was transmitted. When
  the append failed without poisoning the ledger, the arm is recorded as
  `failed_not_observed` and the run finishes. `tests/test_runner.py:4024` says a
  failing dispatch append aborts; it uses a provider that calls back directly.
  The prompt still counts as an invocation of unknown cost (`SentIsCosted`).
- **A spend record can be glued to a fragment** (`SpendLedgerTorn.cfg`,
  `AckedIsJournaled`). A last line without its newline is accepted on restart
  (`skivolve/comparator_runtime.py:688`) and the next append continues it; a
  first append that fails half way does the same in one process, because no file
  identity was attested yet. The glued record is acknowledged and paid for, and
  the journal can never be restored again. Spend is not undercounted: the
  restart refuses (`DurablyCovered`, `CeilingHolds` hold in `SpendLedger.cfg`
  with the same failures on).
- **A spend journal's directory entry may never be made durable**
  (`SpendLedgerUnlinked.cfg`, `DurablyCovered` with `Unlinked = TRUE`). Only the
  creating append fsyncs the directory, after its own fsync
  (`skivolve/comparator_runtime.py:679`). If either fails, later appends do not,
  and a power loss may take the file with spend already incurred. The generator
  ledger fsyncs its root at every opening and does not have this gap (`Acquire`,
  whose mutant without that fsync breaks `AckedIsStable`).
- **Two runs can share a result root** (`HoldoutRunDisjoint.cfg`,
  `OneRunPerRoot`). "result root must be empty" (`skivolve/runner.py:6646`) is
  checked and not held. Two runs of one suite over disjoint cases that both
  found the root empty write, one after the other, into one ledger. Runs that
  begin with the same pair are stopped by the exclusive `mkdir` of the pair's
  directory (`skivolve/runner.py:3339`), before they plan an arm, which is what
  the passing run shows. Without it the duplicate-arm check of `plan_attempt`
  would not do: the first run may have planned the other arm only.

Met while modelling, and shown by no run of its own:

- **The cleanup deadline of a bounded call does not bind `close()`.** The joins
  give up after five seconds (`skivolve/comparator_runtime.py:344`), then
  `close_pipes` closes buffered pipes, which waits for a thread inside a read.
  A process that left the client's group and holds its standard output keeps
  the call until it exits, and the call may then succeed. `CHANGELOG.md:42` says
  "Bounded generator and comparator subprocess output, timeout cleanup, and
  process-group termination." `CallEnds` states what holds: such a call ends
  with its unit, which `RuntimeMaxSec` ends.
- **A root turn announced after its response may carry another id.** Announced
  before the response it must agree (`skivolve/codex_app_server.py:1678`),
  after it it is only recorded (`skivolve/codex_app_server.py:2040`):
  `AnnounceTurn` has no guard on `a` where `AnnounceRoot` has one.
- **A failed spawn that names no child drops a live one.** A failure that names
  its child requires that the child showed no life
  (`skivolve/codex_app_server.py:2466`); one that names none takes the only
  unbound child without that check (`SpawnFailedUnnamed`). The turns of the
  dropped child are still required to end and to be counted
  (`OutcomeIsComplete`).
- **The optimizer's invocation limit can be exceeded.** A proxy that dies, or
  whose write fails, between `truncate` and `write`
  (`skivolve/skillopt_codex_proxy.py:55`) leaves a blank counter. The next proxy
  reads it as none used (line 48) and counts from one, so Codex may start up to
  the maximum again, and the result that is published afterwards names fewer
  starts than were made. `README.md:116` says "at most three Codex CLI starts"
  and that the count is enforced. `StartsAreBounded` counts the losses and
  `CountIsWhole` excepts them; a blank counter that nobody overwrites does
  stop the run (`Finalize`).
- **A collector interrupted while it restores a lost journal undercounts it.**
  The next start finds records and restores no more
  (`skivolve/comparator_calibration/collect.py:226`), so it may pay beyond the
  ceiling. Its evidence is refused, since the trials it skipped are not bound to
  spend: `CeilingHoldsAlone` excepts the case (`partial`) and
  `EvidenceCoversSpend` does not. Two collectors at a time may exceed the
  ceiling too, and what they publish covers all that was paid.

## Fairness

`PairRun` states it for `SyncEnds`: weak fairness of each arm's steps at
the barrier (entering a wait, leaving it, its timeout, its breaking, and reading
the clock between the two waits). A thread that can run is eventually run by the
interpreter, and `Barrier.wait(timeout=min(30, ...))` fires when due. Nothing is
assumed of the preparation before the barrier (copying a fixture may take any
time) or of a provider (it may never answer): `SyncEnds` holds for an arm whose
peer is stuck in either, which is what the timeout is for.

`CodexCleanup`, for `RecordsGoAway`: each evaluator keeps working and is started
again (every call of `run_agent` has a deadline, so a session ends), and a
launcher and its unit make progress, which includes that a unit ends
(`RuntimeMaxSec`) and is forgotten (`--collect`). Nothing is assumed of faults,
of a stop that works or of `codex login`.

`BoundedTransport`, for `CallEnds`: the caller and the readers run, a killed
client dies, and a writer that nobody listens to gets an error. Nothing is said
of when a client exits by itself or a unit ends.

The other modules state none; they have safety properties only.

## Proofs

`GeneratorLedgerProofs` proves, for any arms, ids, processes, bindings and
bounds, from `LedgerAssumption` alone (the binding function is total, `None` is
none of the values, the limits are naturals):

| Theorem | Property |
|---|---|
| `TypeCorrect` | `TypeOK`, with the size limit |
| `JournalAlwaysLegal` | `JournalLegal` |
| `AckedAlwaysStable` | `AckedIsStable` |
| `OneAttempt` | `OneAttemptPerArm` |
| `NothingForgotten` | `NoForgottenAttempt` |
| `HistoryBound` | `BoundHistory` |
| `FailsStop` | `FailStop`, an action property |
| `AccountingImplemented` | `Accounting`: the ledger implements `AttemptAccounting` |
| `AckedPhasesHold` | `AckedPhaseHolds`, an action property |

None of these is inductive alone. `IInv` adds why they hold:

- `Ownership`: an instance that is not closed holds the lock, so there is one.
  Without it another process could append behind a checked prefix.
- `FileInv`: a journal with records exists, a linked one exists, storage is not
  ahead of the file.
- `OpeningInv`: while a journal is being created nothing was ever acknowledged,
  and the file is exactly what the creation has written so far; an instance that
  found a file found its directory entry on storage.
- `OpenInv`: an open instance's view contains every acknowledged record and
  starts with its own header; in the middle of an append, file, prefix and view
  are equal before the write and differ by exactly the pending record after it;
  the pending record is admitted by the journal it is about to extend.

The lemmas on replay carry the weight. `AdmitsLocal`: admission depends on the
records before a position only; hence `LegalAppend` (an admitted record keeps
the journal legal) and `LegalPrefix` (so does losing a tail). `OneAttempt` then
follows from `JournalLegal` and `AckedIsStable`: two acknowledged plans of one
arm would be two places in one legal journal, and the later was not admissible.
There is a lemma per action; `Alone` and `OthersKeep` dispose of the instances
an action does not touch. `FailsStop` uses that only the lock's holder changes
the file, and that an instance out of sync cannot begin an append.

The refinement maps an arm to the phase of its attempt, as the journal has it
(recorded) and as the acknowledged records have it (told). `WriteAll` maps to
`Record`, `Acknowledge` to `Tell`, `PowerLoss` to `Forget` and every other step to a
stutter (`WriteMaps`, `AcknowledgeMaps`, `LossMaps`, `OtherSteps`). The argument
is about the set of events an attempt had (`Had`, `Told`): in a legal journal
few sets are possible (`Coherent`), each has one phase (`PhaseBy`), what was told
is among what is recorded, and a larger set is a later phase. `PlannedInv` is
added to `IInv` for it: only known arms are planned. `AckedPhasesHold` follows
from the same: an end that was acknowledged stays in the journal, and nothing
can follow it.

`SpendLedgerProofs` proves, for any callers, price of a call, ceiling and bounds, from
`SpendAssumption` and `NoneAssumption` (price and ceiling are positive, `None` is
neither a caller nor a journal):

| Theorem | Property of `SpendLedger` |
|---|---|
| `TypeCorrect` | `TypeOK`: an open ledger never commits more than the ceiling |
| `ClosedOnceHolds` | `ClosedOnce` |
| `MemoryIsJournaled` | `MemoryWithinJournal` |
| `DurablyCoveredHolds` | `DurablyCovered`, if no power loss unlinks the file (`~Unlinked`) |
| `CeilingIsHeld` | `CeilingHolds`, under the same condition |

The condition is the gap that `SpendLedgerUnlinked.cfg` shows; with it the two are
false. The invariant has two parts:

- `FInv` is about lock, file and callers: who holds the lock and what it appends
  (`Locking`), that the attested file is the old one until the write and ends with
  the new line after it (`Attesting`), that callers share no attempt
  (`Identities`), and where the attempt of each stands in the file: its
  reservation is stable before the call, and no line closes it before the caller
  does (`InFile`).
- `Books` says that there are three amounts for each attempt, of which the sums in
  the model are the totals: `settled` (`spent`), `held` (`reserved`) and `paid`
  (`incurred`). An open call holds the price of a full invocation (`Holds`), a file
  that is still attested charges each attempt at least what memory does
  (`Within`), nothing is paid before its reservation is stable nor beyond the
  line that closes it (`Paid`), and what was paid is in the books of an open
  ledger (`Backed`).

A total is the number of its dollars (`Dollars`), so that a larger amount for each
attempt is a larger total by inclusion of sets (`DollarsGrow`) and the totals of
two amounts add up (`DollarsAdd`); no induction over a sum is needed.

`CodexCleanupProofs` proves, for any evaluators and launches and any number of
faults and logins, from `CleanupAssumption` and `MarkerAssumption` (`NoController`,
`NoLaunch` and `NoMarker` are none of the values, the bounds are naturals):

| Theorem | Property |
|---|---|
| `TypeCorrect` | `TypeOK` |
| `DangerAlwaysOnRecord` | `DangerIsOnRecord` |
| `OneTenantAlways` | `OneTenant` |

The inductive invariant `IInv` is the conjunction of `TypeOK` and

- `Exclusive`: the holder of the lock, and nobody else, is away from `idle`.
- `AtNamed`: from arming on an evaluator works on a launch that was named, and
  on none otherwise.
- `InOrder`: a launch goes through its stages in order; a gate is open only
  while an evaluator that can still close it is at it, and says GO only to a
  launcher that reads it.
- `Starting`: what is true of the launch at each step of the constructor.
- `OnRecord`: what the record says at each position: nothing while the
  mountpoint is prepared, the evaluator's own launch after, with gate and
  launcher identified from the steps that write them on.
- `Danger`: what runs or may still start is on record with gate and launcher.
- `Excluded`: what each step of recovery, and of closing, has established stays
  true while the later ones run: the launcher is not gated with GO, then not
  systemd-run, then its unit is not live.

`Excluded` is why `recover` looks for the gated launcher first, for systemd-run
second and at the unit after both: a launcher moves in that order only. There is a lemma per group
of actions (`RecoverStep`, `ConstructStep`, `FinishStep`, `FailStep`,
`ProgressStep`, `ClientFailsStep`, `LoginStep`), each with a step per action;
`WrittenKeeps` and `HealedKeeps` give the types of the record a write leaves.

`HoldoutRunProofs` proves, for any runs, plans, roots, suites, roles and sequences
of pairs, from `HoldoutAssumption` (a run has a plan or none, `None` is none of the
values and no file name):

| Theorem | Property |
|---|---|
| `TypeCorrect` | `TypeOK`, with who holds which ledger |
| `ConsumedFirst` | `ConsumedBeforeDispatch` |
| `OnePerPlan` | `OneRunPerPlan` |
| `EvidenceIsKept` | `EvidenceKept` |
| `OnePerRoot` | `OneRunPerRoot`, for runs that begin with the same pair (`CommonFirst`) |

Every invariant rests on `TInv` (types, `Held`: the holder of a ledger is at
work in its root, `Placed`: a run has a root from its preflight on) and on
itself only:

- `CInv`: at each step of its claim, and for ever after, the record of its plan
  is the one the run made and got as far as that step. The exclusive creation is
  what makes the step of one run harmless to the others (`ClaimsAdvance`): none
  of them is past its own. `OnePerPlan` follows, since a record names one run.
- `EInv`: a run at work, or one that dispatched, has the ledger file in its
  root. `FilesStay` says that no step removes one: `rmdir` takes an empty
  directory only, and `mkdir` makes one only where there is none.
- `RInv`: a root with attempts has the directory of the pair all runs begin with,
  and a run that made it there (`Begun`) has made all attempts in the ledger
  (`Mine`). So whoever makes that directory finds an empty ledger, and which arms
  it then plans, in which order or not at all, does not matter. `CommonFirst`
  cannot be dropped: without it `HoldoutRunDisjoint.cfg` finds the violation.

`VerdictProofs` proves, for any requirements, criteria and decisive ones, from
`VerdictAssumption` (`NotApplicable` and `NoAnswer` are none of the values), and
for any pairs, cases, skills and comparisons:

| Theorem | Says |
|---|---|
| `PositionNeverWins` | a judge that answers by position alone makes nobody win |
| `JudgedWinnerIsPreferred` | a judged winner was preferred in both orders |
| `RolesAreEqual` | exchanging the roles of two skill versions exchanges the verdict |
| `PairIsEarned` | a role wins only without errors, with its verifiers passed, over one that failed or was found worse |
| `ReleaseIsComplete` | a release rests on exactly one good result of each comparison, case and repetition |
| `WinnerIsMajority` | the winner of a case won two of its three completed repetitions |
| `ReleaseIsEarned` | the two modules together: what counts as a win for a release was earned in two pairs |

Exchanging the sides is an involution on accepted answers (`SwapAnswer`) under
which outcomes exchange (`OutcomeSwaps`); the rest follows from the two. What
stays outside is arithmetic: that a significant cell has more wins than losses
is a fact about sums of binomials, which `SignTest` checks up to ten.

The same module proves, of the documents a run rests on, for any suite, selection,
plan and journals:

| Theorem | Says |
|---|---|
| `ReleaseCoversHoldout` | an authorized release has every holdout case and no other, and every comparison of the holdout, three times, between two distinct variants |
| `ProtocolIsPreflighted` | once a holdout run passed its preflight, of the protocol's demands only the exactness of the matrix is open |
| `ReservationsFit` | a comparison planned within the cap can always reserve its next planned call |
| `ExposureIsDefined` | of a suite that loads, the planned exposure is defined; the billing errors of `_execution_plan` do not occur |
| `DiagnosticsSpareHoldout` | any other run selects no holdout case, takes no plan, and judges one comparison at most |
| `ArmsAlternate` | serialized arms change places from one repetition to the next |
| `TrialsAreAccounted` | if every trial was accepted when it was made, the accounting accepts all of them |
| `ResultsDecide` | two accepted results that agree decide the pair by the outcome they carry |

Each states its hypotheses. `ReleaseCoversHoldout` and `ProtocolIsPreflighted`
identify the constants of `ReleaseVerdict` with a selection (`RunOf`), which is
what `run` does when it hands its rows to `_aggregate`. `TrialsAreAccounted`
needs that the journals only grew since a result
was accepted (`Kept`, which is what `SpendLedger` does) and that two trials have
different keys; then two claims of one attempt would be one invocation.

`PairRunProofs` proves, for any providers, any number of failing appends and any
requirements and criteria, from `PairAssumption` and `VerdictAssumption`:

| Theorem | Property of `PairRun` |
|---|---|
| `TypeCorrect` | `TypeOK` |
| `StartsTogether` | `StartTogether` |
| `ReturnsAccounted` | `ReturnedIsAccounted` |
| `SentRecorded` | `SentIsRecorded` |
| `SentCosted` | `SentIsCosted` |
| `VerdictEarned` | `VerdictIsEarned` |

The invariant has four parts, each resting on those before it:

- `LInv` is local: an arm reaches its flags in order (`Ordered`), has those of
  the place it is at (`Placed`), and its attempt is in the phase they stand for
  (`Accounted`). The exception is the heart of it: after an append that failed
  with its record in the file the two differ, but then the ledger is poisoned, so
  that the handler's own append fails too and the arm never returns a result.
  It needs the order of the handler: a ledger error raised before the attempt
  was planned leaves without settling.
- `BInv` is the barrier: an arm past the second wait implies that the other one
  has arrived there, which implies that both left the first, so neither a timeout
  nor an arm that fails breaks the barrier any more.
- `KInv` is the clock: each arm reads it twice at most and in order, and an arm of
  a concurrent pair finishes only after both have started.
- `VInv`: a verdict is given when both arms are done, so it stays true of them.

`LocalStep` reduces a step to the arm that moves; `Goes`, `Raises`, `AppendDone`
and `AppendRaises` are the four ways it can. `Advances` is what the barrier and
the clock need to know of any step.

`TransportProofs` proves, for any limit, from `LimitAssumption` (it is a natural), of
a bounded call:

| Theorem | Property of `BoundedTransport` |
|---|---|
| `TransportTypeCorrect` | `TransportTypeOK` |
| `ResultWhole` | `ResultIsWhole`: a success is the whole output of an undisturbed call, and a broken limit has its unit asked to stop |

`TransportInv` adds that a reader that saw the end of its stream saw the last of the
unit (`Ended`), that readers run from the moment polling begins (`Starting`),
and that nothing is stopped and no wait given up without a deadline or an
overflow for the outcome to name (`Reasoned`).

And for any threads, turns, items and limits, from `TurnAssumption` (the root is no
child, `None` no thread, the limits are naturals), of a session:

| Theorem | Property of `CodexTurn` |
|---|---|
| `TurnTypeCorrect` | `TypeOK`: no child is announced deeper than the limit |
| `ScopesAlwaysAgree` | `ScopesAgree` |
| `OutcomeComplete` | `OutcomeIsComplete` |

`TurnInv` adds that the sets `ScopesAgree` counts are finite (`Counted`) and that a
turn is open from when it was seen until its usage (`TurnsAgree`). That each
claim leaves a spawn for every unbound child is `ClaimCounts`, that the end of a
spawn does is `SpawnEndCounts`. The bound on the depth is checked by the code and
was found missing from `AnnounceChild` when the proof of `TypeOK` failed: two
children in one run never come near the limit.

`PlannedRunProofs` proves, for any proxies, maximum and skills and whatever the
trainer asks for and reports, from `OptimizerAssumption` (the maximum is a
natural, the seed is valid, `Nil` is none of the values), which each theorem
states as its hypothesis:

| Theorem | Property of `OptimizerRun` |
|---|---|
| `StartsBounded` | `StartsAreBounded`: Codex starts at most `(lost + 1) * Maximum` times |
| `CountWhole` | `CountIsWhole`: when a status is published no proxy is left, and a count that was never lost holds every start |
| `EvidenceIsFresh` | `NoStaleEvidence`: rollouts made of other content than the plan's are not judged, and a certification of other content is not published, unless the edits were undone after it and before the comparison that follows |
| `SelectedQualifies` | `QualifiedWasSelected`: a skill that qualified is new, valid and the one evaluated last, after the seed's own rollouts |

The invariant has two parts. `BInv` is about the counter: the holder of the lock
is the one proxy at work on it (`Locked`), two proxies that may start never share
epoch and number (`Tickets`), and a number being written is above all of its
epoch (`Ahead`). Starting proxies so map one to one to pairs of an epoch and a
number, which bounds them. `CInv` is about the rest: what the command line has
seen of counter, rollouts and result does not change any more (`Frozen`), and
evidence is tainted only by a drift that is still there.

Of the plan of such a run it proves, for any request and world:

| Theorem | Says |
|---|---|
| `PilotSparesHoldout` | training, selection and validation have no case in common, and none of the holdout |
| `CallsArePlanned` | the generator calls a plan announces are those of the four runs of its derived suites |
| `PlanIsReadBack` | `plan_from_json` accepts what `as_json` writes of a plan that was built |
| `FreshPlanHolds` | a plan holds in the world it was made in |
| `HardIsWhole` | a case is hard exactly when its soft score is one |

`CallsArePlanned` assumes lists where the code has lists (`Requested`, `Fielded`)
and rests on `NamedOnce`: as many cases are selected as were named.
`FreshPlanHolds` has one hypothesis the code does not establish, that the skill
at the baseline has a candidate's size: `revalidate_plan` asks for it and
`build_plan` does not, so a plan with a larger baseline is made and then refused.

The same module proves, for any cases, pairs, variants, contents and commits and
any interleaving of edits, from `SealedPlanAssumption` (typing; `None` and the
empty source are no contents), which each theorem states as its hypothesis:

| Theorem | Property of `SealedPlan` |
|---|---|
| `SourcesSealed` | `SourceAsSealed`: an arm of a completed pair had the source the plan binds |
| `SourcesDiffer` | `ArmsDiffer`: its two arms did not have the same one |
| `CasesSealed` | `CaseAsSealed`: verifier, executables, judge, prompt, fixture and base files are the plan's |
| `ResultsOfPlan` | `ResultOfPlan`: a result has every pair, under the plan its preflight came to |
| `SealedInOneState` | `SealedAtOnce`: a sealed plan describes one content of each case |

The argument is about contents that do not come back. `Past` says that the history
knows every content that was seen; then a file that has now the content it had at
one moment had it ever since. `SourceKept`, `CaseKept`, `DraftKept`, `GivenKept` and
`ArmKept` say of each thing that is read that it is what was recorded *if* the
file is so now: a condition an edit can only make false, and which each check of
the runner makes true for a moment.

Of the document of such a plan, for any suite, selection and preflight:

| Theorem | Says |
|---|---|
| `PreparedIsAccepted` | a plan prepared from a preflight loads, and binds in a run whose preflight finds the same |
| `BoundAlike` | two preflights that bind one plan found the same |

`PreparedIsAccepted` is about sorted lists of unique ids, which say the same when
written and when read.

`VerdictProofs` proves, for any corpus, release, sources and evidence:

| Theorem | Says |
|---|---|
| `CriticalJudgedRight` | a judge that passed had every critical pair right in every trial: all statuses and the outcome |
| `PositionNeverPasses` | a judge that answers both orders of a critical pair with a winner alike does not pass |
| `DecisiveIsEarned` | a criterion that may decide was decided, with a basis and against independent reviews, by both sides or often enough by one |
| `LockedIsValid` | a locked release is valid where it was locked, if rubric and labels agree |
| `CertifiedLoads` | a certification loads as long as nothing changed |
| `CertifiedCallAsCalibrated` | an accepted call under a live certification ran as each trial of the calibration did, and decides by supported criteria only |

The first two rest on `DecidedAlike`: a pair with a decision was decided so in each
of its trials. The hypotheses are named ones: that the release requires the gate
in question, and for `DecisiveIsEarned` the contract's counts and a finite corpus.
What the rates bound is arithmetic over sums and stays with TLC.

It also proves, for any collectors, trials, price, ceiling and number of starts, from
`CollectorAssumption` (price and ceiling are positive, `NoFile` is no length):

| Theorem | Property of `Collector` |
|---|---|
| `CollectorTypeCorrect` | `TypeOK` |
| `EvidenceAlwaysCovers` | `EvidenceCoversSpend`: accepted evidence covers all that was paid, whoever else wrote to the files |
| `LoneCollectorKeepsCeiling` | `CeilingHoldsAlone` |
| `LoneCollectorPaysOnce` | `PaidIsKept` |

`CollectorInv` has two halves. The first holds of any number of collectors at once:

- `Standing`: position, pending record and attested length of a collector agree,
  and where it writes a reservation there is room for one.
- `Holding`: its evidence is calls that were made, all the checkpoint was brought
  along with among them, and one for each key.
- `Working`: its trial has an id of its own, whose reservation is in the journal,
  unclosed, until it was paid for.
- `Calls`: no two calls share an id, and the journal accounts for each that did not
  come with the checkpoint: reserved in full, closed by nothing below its cost.
- `Evaluating`: what it copied accounts for all that was paid when it read.

`EvidenceCoversSpend` follows at `Evaluate`: evidence that is `Admissible` is bound
to the records trial by trial, and so is what was paid, so the dollars of the
calls are among the dollars charged (`CostGrows`). The second half holds while no
two ran at once: `Alone` counts the calls against checkpoint and starts,
and `Restoring`, while none ended with trials to restore, says that what is spent
and still to be restored covers what was paid. The whole invariant was checked by
TLC on the instance of `Collector.cfg` before it was proved.

Model-checked only: liveness (`SyncEnds`, `RecordsGoAway`, `CallEnds`), which stays
with TLC since the proof system does not handle fairness. Every invariant, every
other action property and the refinement that a passing run checks has a theorem.
Of what the runs' modules assume (`MCPairRun`, `MCDocuments`, `MCCalibration`), the
evaluations on examples and the arithmetic of rates and of the sign test are
TLC's alone.

## Abstractions

- *Bytes.* Digests and sizes compare the content itself (`prefix`, `identity`):
  collisions are not modelled. JSON and its canonical form are records. The byte
  limit of the generator journal is a number of records.
- *Unsynced appends* survive a power loss as a prefix, the last one possibly cut;
  they do not survive out of order. After a power loss what is left is taken to
  be on storage.
- *The directory entry* of a result root and of `comparator-spend` is taken to
  survive a power loss; those of the ledger files and of the consumption record
  are not.
- *`Unlinked`* separates the spend journal's directory gap from the rest, so that
  the other properties are checked with torn writes and without it;
  `SpendLedgerUnlinked.cfg` has it.
- *One process at a time* holds a spend ledger: it has no lifetime lock of its
  own; a run's spend directory must be absent when the run starts, and the
  run's generator lock serializes the runs. The collector is the exception, and
  `Collector` has two on one journal.
- *The cost of a call* is within the per-call ceiling, which is passed to the
  provider as its budget. The code forfeits the ceiling for a reported cost
  above it.
- *The cleanup record* is in `/run/user`, which a reboot empties together with
  the units: `CodexCleanup` has deaths of evaluators and no power loss. The
  request of systemd-run to the user manager is one step.
- *Calibration*: every pair has the same requirements; a label lists violations in
  their order, so that lists are sets. Costs are whole numbers.
- *Messages of the app server* are reduced to whom they are about and what they
  say of it: metadata, prompts and snapshots that are checked are reasons for
  `Reject`. Receivers of an item are sets. The pending receiver of a spawn is
  always `None` in the code and is left out. The message limit, the selection of
  the final message and the merging of rate limits are not modelled.
- *A bounded call* has no clocks and counts output in chunks.
- *Sums* of amounts that have a bound each are counted dollar by dollar, as the
  number of pairs of an attempt and a dollar of its amount (`SpendLedger`,
  `Collector`). Attempt ids are drawn from a bounded set that the other bounds
  never exhaust.
- *The collector's appends and checkpoints* are whole or absent: torn writes and
  power loss are in `SpendLedger`, and the checkpoint is replaced by a rename.
- *The optimizer's processes* stay in the process group of the sidecar, which is
  killed and waited for before its result is read; the plan's content is there or it
  is not, whichever file differs, and a comparison sees it at one moment; the trainer does not write to the counter. The rollouts are
  complete or raise, and their scores are 0 or 1, as for the one selection case
  a plan has.
- *Documents* (`Suite`, `PlanDocument`, `SpendAccounting`, `PilotPlan`): a digest is
  what it is a digest of; a path is the sequence of its names with links resolved,
  a text its length, a file its size and content, an amount a natural number. The
  JSON types of fields are taken as right. A regular expression is left out where
  nothing else depends on what it admits.
- *Trees*: one read of a directory is one step, also where the code walks it, and
  the shared directory is read with the case, though the preflight snapshots it
  once before the cases. Index and files of a worktree are one. `SealedPlan` has
  the one selection a production plan may name.
- *Timeouts* may fire whenever their wait has not ended.
- *Data* that no property distinguishes (requests, responses, artifacts,
  verifier scores, hashes of sources) is left out; the steps that check it
  appear as steps that may raise.

## Not modelled

- `charge_historical` has no caller in the program.
- Artifact normalization and the JSON types of manifests: pure functions on texts,
  with no state to interleave. Of calibration, the texts: patches and their hunks,
  evidence items and their anchors, the JSON schemas, review rationales, and the
  migration of labels of an older protocol. Of `_aggregate`, the sums of the
  generator's costs and tokens and the report's descriptive fields; which arms
  count as invocations of unknown cost is stated (`Costed`).
- The integrity checks on provider identities and execution policies: they compare
  objects of the process with each other. `HoldoutRun` and `SealedPlan` have no dry
  run and no run without a plan; what `Suite` says of a selection covers both.
- Of the optimizer, `run_command` with its streams and deadlines, the classes given
  to the trainer and the reading of its replies.
- The cases, verifiers and site: data and assets.
- Command line wording, sandbox and `systemd-run` arguments.
- What is under *Plan*.

## Plan

1. The process of a verifier and its child, `_run_verifier`, and the processes of
   `run_command`, both next to `BoundedTransport`.
2. The normalization of artifacts, as far as two arms could be told apart by it.

Proofs, in order of worth: that `PairRun` and `HoldoutRun` use the generator ledger as
`AttemptAccounting` promises it, and `Collector` the spend ledger as `SpendLedger`
keeps it, which this document argues and no theorem states; then the case where a
collector is cut short while it restores, of which `EvidenceCoversSpend` holds but
no theorem bounds the overspending.
