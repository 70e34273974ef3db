------------------------------- MODULE PairRun -------------------------------
(***************************************************************************)
(* One pair of an evaluation run (EvalRunner._run_pair and _run_arm,       *)
(* skivolve/runner.py): the control and the treatment arm of a case, run   *)
(* by two threads that meet at a barrier, or one after the other when the  *)
(* provider serializes its calls.  Each arm accounts for its provider call *)
(* in the generator dispatch ledger, which may fail at any append; the     *)
(* pair ends with its verdict (PairVerdict), and the run with an audit of  *)
(* that ledger.                                                            *)
(*                                                                         *)
(* The ledger appears as GeneratorLedger promises it: an append succeeds,  *)
(* is refused with no effect, or leaves the instance poisoned.             *)
(***************************************************************************)
EXTENDS Naturals, FiniteSets, PairVerdict

CONSTANTS
  Providers,  \* provider kinds the run may be configured with
  Monitors,   \* whether the workspace may be monitored for writes
  MaxFaults   \* bound: failing appends of the ledger in a behaviour

ASSUME PairAssumption ==
  /\ Providers \subseteq {"fake", "claude", "codex"} /\ Providers # {}
  /\ Monitors \subseteq BOOLEAN /\ Monitors # {}
  /\ MaxFaults \in Nat

Peer(a) == CHOOSE b \in Roles : b # a

VARIABLES
  provider,   \* the kind of the agent provider
  monitored,  \* the artifact kind is not workspace_diff: writes are watched
  arm,        \* arm[a]: the local state of _run_arm
  barrier,    \* the start barrier: arrivals and departures of its two waits
  window,     \* window[a]: when the provider call started and finished
  clock,      \* time.monotonic, as the order of its readings
  phase,      \* phase[a]: the attempt of the arm in the journal
  verdict,    \* the pair's result, once both arms returned
  poisoned,   \* the ledger's file and memory disagree
  faults,     \* appends that failed so far
  run         \* "running", "finished" (run.json written) or "aborted"

ledger == <<phase, poisoned, faults>>
vars == <<provider, monitored, arm, barrier, window, clock, verdict, ledger, run>>

NoVerdict == [winner |-> "none", basis |-> "none", bias |-> FALSE, completed |-> FALSE]

Concurrent == provider # "codex"

Pcs == {"ready", "prepare", "plan", "sync1", "wait1", "start", "sync2", "wait2",
        "enter", "launch", "callback", "transmit", "answer", "account", "judge",
        "complete", "finally", "verify", "handler", "settle", "record", "done",
        "raised"}
Phases == {"unknown", "planned", "dispatched", "completed",
           "failed_observed", "failed_not_observed"}

\* Program counters before the provider may be entered, at the barrier.
Synchronizing == {"sync1", "wait1", "start", "sync2", "wait2"}

----------------------------------------------------------------------------
Init ==
  /\ provider \in Providers
  /\ monitored \in Monitors
  /\ \E first \in Roles :
       arm = [a \in Roles |->
               [pc |-> IF Concurrent \/ a = first THEN "prepare" ELSE "ready",
                exc |-> "none", synchronized |-> FALSE, entered |-> FALSE,
                sent |-> FALSE, dispatched |-> FALSE, journal |-> "none",
                evidence |-> FALSE, status |-> "none", passed |-> FALSE]]
  /\ barrier = [arrived |-> <<{}, {}>>, left |-> {}, broken |-> FALSE]
  /\ window = [a \in Roles |-> [started |-> 0, finished |-> 0]]
  /\ clock = 0
  /\ verdict = NoVerdict
  /\ phase = [a \in Roles |-> "unknown"]
  /\ poisoned = FALSE
  /\ faults = 0
  /\ run = "running"

At(a, pc) == run = "running" /\ arm[a].pc = pc

Goto(a, pc) == arm' = [arm EXCEPT ![a].pc = pc]

\* An exception leaves the statement for the enclosing finally or handler.
Raising(a, pc, exc) == [arm EXCEPT ![a].pc = pc, ![a].exc = exc]
Raise(a, pc) == arm' = Raising(a, pc, "other")

local == <<provider, monitored, verdict, run>>

----------------------------------------------------------------------------
(* One append to the ledger: done if it succeeds, failed if it raises.     *)

AppendTo(a, from, to, done, failed) ==
  \/ /\ ~poisoned /\ phase[a] = from
     /\ phase' = [phase EXCEPT ![a] = to]
     /\ arm' = done
     /\ UNCHANGED <<poisoned, faults>>
  \/ /\ poisoned \/ phase[a] # from
     /\ arm' = failed
     /\ UNCHANGED ledger
  \/ /\ ~poisoned /\ phase[a] = from /\ faults < MaxFaults
     /\ faults' = faults + 1
     /\ arm' = failed
     /\ \/ UNCHANGED <<phase, poisoned>>
        \/ /\ poisoned' = TRUE
           /\ phase' \in {phase, [phase EXCEPT ![a] = to]}

----------------------------------------------------------------------------
(* Up to the provider call.                                                *)

\* The second arm of a serialized pair starts when the first has returned.
StartSecond(a) ==
  /\ At(a, "ready")
  /\ arm[Peer(a)].pc = "done"
  /\ Goto(a, "prepare")
  /\ UNCHANGED <<local, barrier, window, clock, ledger>>

\* The directories of the arm are made, outside any handler, the fixture is
\* copied and the skill source materialized.
Prepare(a) ==
  /\ At(a, "prepare")
  /\ \/ Goto(a, "plan")
     \/ Raise(a, "handler")
     \/ Raise(a, "raised")
  /\ UNCHANGED <<local, barrier, window, clock, ledger>>

Plan(a) ==
  /\ At(a, "plan")
  /\ AppendTo(a, "unknown", "planned",
       [arm EXCEPT ![a].pc = IF Concurrent THEN "sync1" ELSE "start",
                   ![a].journal = "planned"],
       Raising(a, "handler", "journal"))
  /\ UNCHANGED <<local, barrier, window, clock>>

\* threading.Barrier.wait, entered: while the first use drains it blocks.
Arrive(a) ==
  /\ \E n \in {1, 2} :
       /\ At(a, IF n = 1 THEN "sync1" ELSE "sync2")
       /\ n = 2 => barrier.left = Roles \/ barrier.broken
       /\ IF barrier.broken
          THEN Raise(a, "handler") /\ UNCHANGED barrier
          ELSE /\ Goto(a, IF n = 1 THEN "wait1" ELSE "wait2")
               /\ barrier' = [barrier EXCEPT !.arrived[n] = @ \cup {a}]
  /\ UNCHANGED <<local, window, clock, ledger>>

\* Both arrived: the wait returns.
Leave(a) ==
  /\ \/ /\ At(a, "wait1") /\ barrier.arrived[1] = Roles
        /\ Goto(a, "start")
        /\ barrier' = [barrier EXCEPT !.left = @ \cup {a}]
     \/ /\ At(a, "wait2") /\ barrier.arrived[2] = Roles
        /\ arm' = [arm EXCEPT ![a].pc = "enter", ![a].synchronized = TRUE]
        /\ UNCHANGED barrier
  /\ ~barrier.broken
  /\ UNCHANGED <<local, window, clock, ledger>>

Waits(a) ==
  \/ At(a, "wait1") /\ barrier.arrived[1] # Roles
  \/ At(a, "wait2") /\ barrier.arrived[2] # Roles

\* Mutant of Timeout: Barrier.wait() without a timeout.
TimeoutNever(a) == FALSE

\* The wait's timeout of at most thirty seconds breaks the barrier.
Timeout(a) ==
  /\ Waits(a) /\ ~barrier.broken
  /\ barrier' = [barrier EXCEPT !.broken = TRUE]
  /\ Raise(a, "handler")
  /\ UNCHANGED <<local, window, clock, ledger>>

Broken(a) ==
  /\ At(a, "wait1") \/ At(a, "wait2")
  /\ barrier.broken
  /\ Raise(a, "handler")
  /\ UNCHANGED <<local, barrier, window, clock, ledger>>

\* Mutant of Start: the provider is entered after a single wait.
StartOnce(a) ==
  /\ At(a, "start")
  /\ clock' = clock + 1
  /\ window' = [window EXCEPT ![a].started = clock']
  /\ arm' = [arm EXCEPT ![a].pc = "enter", ![a].synchronized = TRUE]
  /\ UNCHANGED <<local, barrier, ledger>>

\* The window opens between the two waits.
Start(a) ==
  /\ At(a, "start")
  /\ clock' = clock + 1
  /\ window' = [window EXCEPT ![a].started = clock']
  /\ arm' = IF Concurrent
            THEN [arm EXCEPT ![a].pc = "sync2"]
            ELSE [arm EXCEPT ![a].pc = "enter", ![a].synchronized = TRUE]
  /\ UNCHANGED <<local, barrier, ledger>>

\* The mutation monitor is set up, outside the inner try, and the provider
\* is entered.
Enter(a) ==
  /\ At(a, "enter")
  /\ \/ arm' = [arm EXCEPT ![a].pc = "launch", ![a].entered = TRUE]
     \/ monitored /\ Raise(a, "handler")
  /\ UNCHANGED <<local, barrier, window, clock, ledger>>

----------------------------------------------------------------------------
(* The provider call.                                                      *)

\* Mutant of Launch: the prompt does not wait for the callback.
LaunchUnaccounted(a) ==
  /\ At(a, "launch")
  /\ \/ Goto(a, "transmit")
     \/ Raise(a, "finally")
  /\ UNCHANGED <<local, barrier, window, clock, ledger>>

\* Claude's process exists and has not read its prompt when the callback
\* runs; a Codex app server is up and idle; a fake calls its handler.
Launch(a) ==
  /\ At(a, "launch")
  /\ \/ Goto(a, IF provider = "claude" THEN "callback" ELSE "transmit")
     \/ Raise(a, "finally")
  /\ UNCHANGED <<local, barrier, window, clock, ledger>>

\* The prompt goes out: to Claude's standard input after the callback, as
\* Codex's turn/start before it.  A fake's handler may use the callback.
Transmit(a) ==
  /\ At(a, "transmit")
  /\ \/ \E pc \in CASE provider = "claude" -> {"answer"}
                    [] provider = "codex"  -> {"callback"}
                    [] provider = "fake"   -> {"callback", "answer"} :
          arm' = [arm EXCEPT ![a].pc = pc, ![a].sent = TRUE]
     \/ Raise(a, "finally")
  /\ UNCHANGED <<local, barrier, window, clock, ledger>>

\* account_dispatch, called by the provider.  A Codex session turns any
\* exception of the callback into a ProviderError.
Callback(a) ==
  /\ At(a, "callback")
  /\ \/ AppendTo(a, "planned", "dispatched",
          [arm EXCEPT ![a].dispatched = TRUE,
                      ![a].pc = IF provider = "claude" THEN "transmit" ELSE "answer"],
          Raising(a, "finally", IF provider = "codex" THEN "other" ELSE "journal"))
     \/ monitored /\ Raise(a, "finally") /\ UNCHANGED ledger
  /\ UNCHANGED <<local, barrier, window, clock>>

\* The provider returns a result, or raises: an error or its own timeout.
Answer(a) ==
  /\ At(a, "answer")
  /\ \/ Goto(a, IF arm[a].dispatched THEN "judge" ELSE "account")
     \/ Raise(a, "finally")
  /\ UNCHANGED <<local, barrier, window, clock, ledger>>

\* A provider that never called back is accounted for when it returns.
Account(a) ==
  /\ At(a, "account")
  /\ AppendTo(a, "planned", "dispatched",
       [arm EXCEPT ![a].dispatched = TRUE, ![a].pc = "judge"],
       Raising(a, "finally", "journal"))
  /\ UNCHANGED <<local, barrier, window, clock>>

\* The result is checked and becomes the arm's provider evidence; the skill
\* snapshot is checked after that.
Judge(a) ==
  /\ At(a, "judge")
  /\ \E ok, evidence \in BOOLEAN :
       /\ ok => evidence
       /\ arm' = [arm EXCEPT ![a].pc = IF ok THEN "complete" ELSE "finally",
                             ![a].exc = IF ok THEN "none" ELSE "other",
                             ![a].journal = "dispatched",
                             ![a].evidence = evidence]
  /\ UNCHANGED <<local, barrier, window, clock, ledger>>

Complete(a) ==
  /\ At(a, "complete")
  /\ AppendTo(a, "dispatched", "completed",
       [arm EXCEPT ![a].pc = "finally", ![a].journal = "completed"],
       Raising(a, "finally", "journal"))
  /\ UNCHANGED <<local, barrier, window, clock>>

\* The inner finally: an error of the monitor, or of restoring the snapshot,
\* replaces the exception in flight.
Finally(a) ==
  /\ At(a, "finally")
  /\ clock' = clock + 1
  /\ window' = [window EXCEPT ![a].finished = clock']
  /\ \/ arm' = IF arm[a].exc = "none"
               THEN [arm EXCEPT ![a].pc = "verify"]
               ELSE [arm EXCEPT ![a].pc = "handler"]
     \/ Raise(a, "handler")
  /\ UNCHANGED <<local, barrier, ledger>>

\* Artifact normalization, the workspace scan and the verifier's result.
Verify(a) ==
  /\ At(a, "verify")
  /\ \/ \E passed \in BOOLEAN :
          arm' = [arm EXCEPT ![a].pc = "record", ![a].status = "completed",
                             ![a].passed = passed]
     \/ Raise(a, "handler")
  /\ UNCHANGED <<local, barrier, window, clock, ledger>>

----------------------------------------------------------------------------
(* The outer exception handler.                                            *)

\* Mutant of Handler: breaks the barrier whenever the arm fails.
HandlerAborts(a) ==
  /\ At(a, "handler")
  /\ barrier' = [barrier EXCEPT !.broken = @ \/ Concurrent]
  /\ Goto(a, IF arm[a].exc = "journal" THEN "raised" ELSE "settle")
  /\ UNCHANGED <<local, window, clock, ledger>>

\* An arm that fails before it synchronized frees its peer; a ledger error
\* leaves the arm, and with it the pair and the run.
Handler(a) ==
  /\ At(a, "handler")
  /\ barrier' = [barrier EXCEPT
       !.broken = @ \/ (Concurrent /\ ~arm[a].synchronized)]
  /\ Goto(a, IF arm[a].exc = "journal" THEN "raised" ELSE "settle")
  /\ UNCHANGED <<local, window, clock, ledger>>

\* Mutants of Settle: a ledger error is suppressed; no result is recorded.
SettleSuppressed(a) ==
  /\ At(a, "settle")
  /\ LET returned == [arm EXCEPT ![a].pc = "record", ![a].status = "error"]
     IN IF arm[a].journal \in {"none", "completed"}
        THEN arm' = returned /\ UNCHANGED ledger
        ELSE AppendTo(a,
               IF arm[a].dispatched THEN "dispatched" ELSE "planned",
               IF arm[a].dispatched THEN "failed_observed" ELSE "failed_not_observed",
               [returned EXCEPT ![a].journal = "failed"],
               returned)
  /\ UNCHANGED <<local, barrier, window, clock>>

SettleEmpty(a) ==
  /\ At(a, "settle")
  /\ Goto(a, "record")
  /\ UNCHANGED <<local, barrier, window, clock, ledger>>

\* Any other error is recorded with what is known of the dispatch.
Settle(a) ==
  /\ At(a, "settle")
  /\ LET returned == [arm EXCEPT ![a].pc = "record", ![a].status = "error"]
     IN IF arm[a].journal \in {"none", "completed"}
        THEN arm' = returned /\ UNCHANGED ledger
        ELSE AppendTo(a,
               IF arm[a].dispatched THEN "dispatched" ELSE "planned",
               IF arm[a].dispatched THEN "failed_observed" ELSE "failed_not_observed",
               [returned EXCEPT ![a].journal = "failed"],
               Raising(a, "raised", "journal"))
  /\ UNCHANGED <<local, barrier, window, clock>>

\* verifier.json and arm.json are written, outside any handler.
Record(a) ==
  /\ At(a, "record")
  /\ Goto(a, "done") \/ Raise(a, "raised")
  /\ UNCHANGED <<local, barrier, window, clock, ledger>>

----------------------------------------------------------------------------
(* The end of the pair and of the run.                                     *)

\* The provider windows of a concurrent pair overlapped.
Overlapped == \A a, b \in Roles : window[a].started <= window[b].finished

\* Both arms returned: their models, prompts and fixtures are compared (they
\* may differ), and the verdict is recorded.
Conclude ==
  /\ run = "running" /\ verdict = NoVerdict
  /\ \A a \in Roles : arm[a].pc = "done"
  /\ \E mode \in Modes, differ \in BOOLEAN :
       LET passed == {a \in Roles : arm[a].passed}
           errors == \/ \E a \in Roles : arm[a].status # "completed"
                     \/ differ
                     \/ Concurrent /\ ~Overlapped
       IN \E answers \in [Orders -> IF ~errors /\ IsJudged(passed, mode)
                                      THEN Answers \cup {NoAnswer} ELSE {NoAnswer}] :
            verdict' = VerdictOf(errors, passed, mode, answers)
  /\ UNCHANGED <<provider, monitored, arm, barrier, window, clock, ledger, run>>

\* The audit must find the ledger in sync and every attempt resolved; writing
\* the pair, the aggregate or run.json may raise.
Audit ==
  /\ run = "running"
  /\ \A a \in Roles : arm[a].pc = "done"
  /\ \/ run' = "aborted"
     \/ /\ verdict # NoVerdict
        /\ ~poisoned /\ \A a \in Roles : phase[a] \notin {"planned", "dispatched"}
        /\ run' = "finished"
  /\ UNCHANGED <<provider, monitored, arm, barrier, window, clock, verdict, ledger>>

\* An arm raised: the executor waits for its peer, a serialized pair stops.
Abort ==
  /\ run = "running"
  /\ \E a \in Roles : arm[a].pc = "raised"
  /\ \A a \in Roles : arm[a].pc \in {"done", "raised", "ready"}
  /\ run' = "aborted"
  /\ UNCHANGED <<provider, monitored, arm, barrier, window, clock, verdict, ledger>>

Ended == run # "running" /\ UNCHANGED vars

ArmStep(a) ==
  \/ StartSecond(a) \/ Prepare(a) \/ Plan(a)
  \/ Arrive(a) \/ Leave(a) \/ Timeout(a) \/ Broken(a) \/ Start(a) \/ Enter(a)
  \/ Launch(a) \/ Transmit(a) \/ Callback(a) \/ Answer(a) \/ Account(a)
  \/ Judge(a) \/ Complete(a) \/ Finally(a) \/ Verify(a)
  \/ Handler(a) \/ Settle(a) \/ Record(a)

Next == Conclude \/ Audit \/ Abort \/ Ended \/ \E a \in Roles : ArmStep(a)

\* The interpreter runs a thread that is ready and fires a timeout that is
\* due; nothing bounds how long a fixture copy or a source takes, nor is a
\* provider assumed to answer.
Fairness ==
  \A a \in Roles :
    WF_vars(Arrive(a) \/ Leave(a) \/ Timeout(a) \/ Broken(a) \/ Start(a))

Spec == Init /\ [][Next]_vars /\ Fairness

----------------------------------------------------------------------------
(* Properties.                                                             *)

\* Types of the state; an arm that is done left a result.
TypeOK ==
  /\ provider \in Providers /\ monitored \in Monitors
  /\ arm \in [Roles ->
       [pc : Pcs, exc : {"none", "journal", "other"},
        synchronized : BOOLEAN, entered : BOOLEAN, sent : BOOLEAN,
        dispatched : BOOLEAN, evidence : BOOLEAN,
        journal : {"none", "planned", "dispatched", "completed", "failed"},
        status : {"none", "completed", "error"}, passed : BOOLEAN]]
  /\ \A a \in Roles : arm[a].pc \in {"record", "done"} => arm[a].status # "none"
  /\ barrier \in [arrived : [{1, 2} -> SUBSET Roles], left : SUBSET Roles,
                  broken : BOOLEAN]
  /\ window \in [Roles -> [started : 0..4, finished : 0..4]]
  /\ clock \in 0..4
  /\ verdict \in [winner : Roles \cup {"none", "tie", "tradeoff", "unqualified",
                                      "inconclusive"},
                 basis : {"none", "infrastructure_error", "verifier-pass-v1",
                          "objective_verifier", "verifier_only",
                          "canonical_comparator"},
                 bias : BOOLEAN, completed : BOOLEAN]
  /\ phase \in [Roles -> Phases]
  /\ poisoned \in BOOLEAN
  /\ faults \in 0..MaxFaults
  /\ run \in {"running", "finished", "aborted"}

\* Both arms of a concurrent pair pass the start barrier or neither does: when
\* one is past it the other cannot fail before it is past it too.  So the
\* provider windows of two completed arms overlapped, which _run_pair demands of
\* a valid comparison.  Past the barrier an arm is on its own: where the artifact
\* is monitored the monitor may fail in one arm, and the other enters alone.
StartTogether ==
  Concurrent =>
    /\ \A a \in Roles : arm[a].synchronized =>
         /\ ~barrier.broken
         /\ arm[Peer(a)].synchronized \/ arm[Peer(a)].pc = "wait2"
    /\ (\A a \in Roles : arm[a].status = "completed") =>
         \A a, b \in Roles : window[a].started <= window[b].finished

\* An arm that returns a result has its attempt resolved in the journal the
\* way the result says, so the audit that ends the run never finds one open.
ReturnedIsAccounted ==
  \A a \in Roles : arm[a].status # "none" =>
    /\ arm[a].status = "completed" => phase[a] = "completed"
    /\ arm[a].journal = "failed" =>
         phase[a] = IF arm[a].dispatched THEN "failed_observed"
                                         ELSE "failed_not_observed"
    /\ phase[a] \notin {"planned", "dispatched"}
    /\ phase[a] = "unknown" => ~arm[a].entered

\* A prompt never leaves before its attempt is durably planned; Claude's not
\* before it is durably dispatched.
SentIsRecorded ==
  \A a \in Roles : arm[a].sent =>
    /\ phase[a] # "unknown"
    /\ provider = "claude" => phase[a] \notin {"planned", "failed_not_observed"}

\* Mutant of Costed: trusts the dispatch callback alone.
CostedIfDispatched(a) == arm[a].evidence \/ arm[a].dispatched

\* _aggregate: an arm adds its cost, or one invocation of unknown cost.
Costed(a) ==
  \/ arm[a].evidence
  \/ arm[a].dispatched \/ arm[a].entered

\* Whatever failed after it, a transmitted prompt never disappears from the
\* cost evidence of a finished run.
SentIsCosted ==
  run = "finished" => \A a \in Roles : arm[a].sent => Costed(a)

\* A pair that counts as completed compares two calls that both took place on
\* record: both prompts were sent, both attempts are completed in the journal,
\* and a concurrent pair's windows overlapped.  Its winner passed the verifier,
\* and what the judge decided it decided of two that passed (_run_pair).  So no
\* crash, timeout or ledger error of one arm ever makes the other one win.
VerdictIsEarned ==
  verdict.completed =>
    /\ \A a \in Roles : arm[a].sent /\ phase[a] = "completed"
    /\ Concurrent => Overlapped
    /\ verdict.winner \in Roles => arm[verdict.winner].passed
    /\ verdict.basis = "canonical_comparator" => \A a \in Roles : arm[a].passed

\* An arm never waits for its peer for ever, however long the peer prepares.
SyncEnds ==
  \A a \in Roles :
    (arm[a].pc \in Synchronizing) ~> (arm[a].pc \notin Synchronizing)

\* A failing append of the dispatch accounting aborts the run.
DispatchFaultAborts == faults > 0 => run # "finished"
=============================================================================
