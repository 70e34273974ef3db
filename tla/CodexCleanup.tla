----------------------------- MODULE CodexCleanup -----------------------------
(***************************************************************************)
(* The life of one Codex sandbox and its cleanup-poison record             *)
(* (codex_app_server.py: CodexAppServerProvider.run_agent,                 *)
(* _CleanupPoisonStore, _ProcessTransport and the launch gate script).     *)
(*                                                                         *)
(* Evaluator processes take turns under one flock.  Each arms a record on  *)
(* disk, starts a gated launcher, writes the launcher's identity into the  *)
(* record, releases the gate so that the launcher becomes systemd-run, and *)
(* removes the record only once the transient unit is proven dead.  An     *)
(* evaluator may die between any two steps: the record it leaves makes the *)
(* next one prove that nothing of it still runs before it clears the       *)
(* mountpoint all units share.                                             *)
(*                                                                         *)
(* The record lives in /run/user, which a reboot empties together with the *)
(* units, so power loss is not modelled.  The request of systemd-run to    *)
(* the user manager is one step: the unit exists when it returns.          *)
(***************************************************************************)
EXTENDS Naturals

CONSTANTS
  Controllers,   \* evaluator processes (or arms of one) that use the provider
  Launches,      \* unit names: each launch draws a fresh one
  NoController,  \* the provider lock is free
  NoLaunch,      \* the controller has not chosen a unit name
  NoMarker,      \* there is no cleanup-poison record
  MaxFaults,     \* bound: deaths of evaluators and failing calls
  MaxLogins      \* bound: how often auth.json is replaced by a new login

ASSUME CleanupAssumption ==
  /\ NoController \notin Controllers
  /\ NoLaunch \notin Launches
  /\ MaxFaults \in Nat /\ MaxLogins \in Nat

VARIABLES
  pc,        \* pc[c]: where run_agent of evaluator c stands
  lock,      \* the holder of the provider flock
  cred,      \* cred[c]: auth.json as c identified it when it took the lock
  at,        \* at[c]: the launch c works on
  built,     \* built[c]: the constructor of _ProcessTransport returned
  reaped,    \* reaped[c]: close() waited for the launcher
  marker,    \* the cleanup-poison record
  launcher,  \* launcher[l]: the process started by Popen
  gate,      \* gate[l]: the pipe the launcher reads its token from
  unit,      \* unit[l]: the transient unit as systemctl shows it
  auth,      \* the identity of auth.json
  faults     \* how many faults happened

local == <<pc, cred, at, built, reaped>>
world == <<launcher, gate, unit>>
vars == <<local, lock, marker, world, auth, faults>>

Recovering == {"read", "scanGate", "scanCommand", "probe", "probeAgain",
               "pid", "clear"}
Constructing == {"bind", "spawn", "popen", "identify", "release", "confirm",
                 "identifyUnit"}
Closing == {"stop", "reap", "observe", "observeAgain", "disarm"}
Pcs == {"idle", "prepare", "arm", "linked", "session"}
         \cup Recovering \cup Constructing \cup Closing

Markers == [unit : Launches, auth : Nat, links : 1..2,
            gate : BOOLEAN, pid : BOOLEAN, group : BOOLEAN]

ASSUME MarkerAssumption == NoMarker \notin Markers

Live(l) == unit[l] \in {"starting", "active"}

----------------------------------------------------------------------------
Init ==
  /\ pc = [c \in Controllers |-> "idle"]
  /\ lock = NoController
  /\ cred = [c \in Controllers |-> 0]
  /\ at = [c \in Controllers |-> NoLaunch]
  /\ built = [c \in Controllers |-> FALSE]
  /\ reaped = [c \in Controllers |-> FALSE]
  /\ marker = NoMarker
  /\ launcher = [l \in Launches |-> "unused"]
  /\ gate = [l \in Launches |-> "none"]
  /\ unit = [l \in Launches |-> "absent"]
  /\ auth = 0
  /\ faults = 0

Goto(c, p) == pc' = [pc EXCEPT ![c] = p]

\* The invocation is over, by a result or by an exception: the flock is freed.
Leave(c) ==
  /\ Goto(c, "idle")
  /\ lock' = NoController
  /\ at' = [at EXCEPT ![c] = NoLaunch]
  /\ built' = [built EXCEPT ![c] = FALSE]
  /\ reaped' = [reaped EXCEPT ![c] = FALSE]
  /\ UNCHANGED cred

\* One of the calls a step makes fails, or the process is killed.
Fault == faults < MaxFaults /\ faults' = faults + 1

Step(c, from, to) ==
  /\ pc[c] = from
  /\ Goto(c, to)
  /\ UNCHANGED <<lock, cred, at, built, reaped, auth, faults>>

Stay == UNCHANGED <<auth, faults>>

----------------------------------------------------------------------------
\* The record after the write a step makes, arm excepted.
Identified(c) ==
  /\ marker # NoMarker /\ marker.unit = at[c] /\ marker.auth = cred[c]
  /\ marker.gate /\ marker.pid /\ marker.group

Written(c) ==
  CASE pc[c] = "linked" -> [marker EXCEPT !.links = 1]
    [] pc[c] = "bind" -> [marker EXCEPT !.gate = TRUE]
    [] pc[c] = "identify" -> [marker EXCEPT !.pid = TRUE]
    [] pc[c] = "identifyUnit" -> [marker EXCEPT !.group = TRUE]
    [] pc[c] = "clear" -> NoMarker
    [] pc[c] = "disarm" /\ Identified(c) -> NoMarker
    [] OTHER -> marker

----------------------------------------------------------------------------
\* Taking over: the provider lock, then recovery of what a dead one left.

Lock(c) ==
  /\ pc[c] = "idle" /\ lock = NoController
  /\ lock' = c
  /\ cred' = [cred EXCEPT ![c] = auth]
  /\ Goto(c, "read")
  /\ UNCHANGED <<at, built, reaped, marker, world>> /\ Stay

\* Mutant of Read: an interrupted publication is not healed.
ReadNoHeal(c) ==
  /\ pc[c] = "read"
  /\ IF marker = NoMarker THEN Step(c, "read", "prepare")
     ELSE IF marker.links = 1 /\ marker.auth = cred[c]
       THEN Step(c, "read", "scanGate")
     ELSE Leave(c) /\ Stay
  /\ UNCHANGED <<marker, world>>

\* recover loads the record, completing a publication that was cut between its
\* link and its unlink, and compares the binding.
Read(c) ==
  /\ pc[c] = "read"
  /\ IF marker = NoMarker
       THEN Step(c, "read", "prepare") /\ UNCHANGED marker
       ELSE /\ marker' = [marker EXCEPT !.links = 1]
            /\ IF marker.auth = cred[c]
                 THEN Step(c, "read", "scanGate")
                 ELSE Leave(c) /\ Stay
  /\ UNCHANGED world

\* No process may carry the argument vector of the gated launcher ...
ScanGate(c) ==
  /\ pc[c] = "scanGate"
  /\ IF marker.gate /\ launcher[marker.unit] = "gated"
       THEN Leave(c) /\ Stay
       ELSE Step(c, "scanGate", "scanCommand")
  /\ UNCHANGED <<marker, world>>

\* ... nor, looked for second because the launcher only moves from the one to
\* the other, that of systemd-run.
ScanCommand(c) ==
  /\ pc[c] = "scanCommand"
  /\ IF launcher[marker.unit] \in {"client", "waiting"}
       THEN Leave(c) /\ Stay
       ELSE Step(c, "scanCommand", "probe")
  /\ UNCHANGED <<marker, world>>

\* confirm_unit_clean: two clean observations in a row, or the deadline.
Probe(c) ==
  /\ pc[c] = "probe"
  /\ IF Live(marker.unit) THEN Leave(c) /\ Stay ELSE Step(c, "probe", "probeAgain")
  /\ UNCHANGED <<marker, world>>

\* A launcher that was never identified is only excluded by a unit the manager
\* does not know.
ProbeAgain(c) ==
  /\ pc[c] = "probeAgain"
  /\ IF Live(marker.unit) THEN Step(c, "probeAgain", "probe")
     ELSE IF ~marker.pid /\ unit[marker.unit] # "absent" THEN Leave(c) /\ Stay
     ELSE Step(c, "probeAgain", IF marker.pid THEN "pid" ELSE "clear")
  /\ UNCHANGED <<marker, world>>

\* The recorded process must be gone, or its number be another's by now.
CheckPid(c) ==
  /\ pc[c] = "pid"
  /\ IF launcher[marker.unit] # "gone"
       THEN Leave(c) /\ Stay
       ELSE Step(c, "pid", "clear")
  /\ UNCHANGED <<marker, world>>

Clear(c) ==
  /\ Step(c, "clear", "prepare")
  /\ marker' = Written(c)
  /\ UNCHANGED world

----------------------------------------------------------------------------
\* Preparing and arming.

\* Everything below the shared mountpoint is removed and laid out anew.
Prepare(c) == Step(c, "prepare", "arm") /\ UNCHANGED <<marker, world>>

\* The bundle drifted, the workspace is refused, a tool is not attested.
Refuse(c) ==
  /\ pc[c] = "arm"
  /\ Leave(c)
  /\ UNCHANGED <<marker, world>> /\ Stay

\* Mutant of Arm: the unit name is not put on record.
ArmUnnamed(c) ==
  /\ pc[c] = "arm" /\ marker = NoMarker
  /\ \E l \in Launches :
       /\ launcher[l] = "unused"
       /\ launcher' = [launcher EXCEPT ![l] = "named"]
       /\ at' = [at EXCEPT ![c] = l]
       /\ marker' = [unit |-> NoLaunch, auth |-> cred[c], links |-> 2,
                     gate |-> FALSE, pid |-> FALSE, group |-> FALSE]
  /\ Goto(c, "linked")
  /\ UNCHANGED <<lock, cred, built, reaped, gate, unit>> /\ Stay

\* The record is published by a link, which fails where one exists; a
\* temporary file that was never linked is nothing to later readers.
Arm(c) ==
  /\ pc[c] = "arm" /\ marker = NoMarker
  /\ \E l \in Launches :
       /\ launcher[l] = "unused"
       /\ launcher' = [launcher EXCEPT ![l] = "named"]
       /\ at' = [at EXCEPT ![c] = l]
       /\ marker' = [unit |-> l, auth |-> cred[c], links |-> 2,
                     gate |-> FALSE, pid |-> FALSE, group |-> FALSE]
  /\ Goto(c, "linked")
  /\ UNCHANGED <<lock, cred, built, reaped, gate, unit>> /\ Stay

Unlink(c) ==
  /\ Step(c, "linked", "bind")
  /\ marker' = Written(c)
  /\ UNCHANGED world

----------------------------------------------------------------------------
\* The constructor of _ProcessTransport.

BindGate(c) ==
  /\ Step(c, "bind", "spawn")
  /\ marker' = Written(c)
  /\ UNCHANGED world

Spawn(c) ==
  /\ Step(c, "spawn", "popen")
  /\ launcher' = [launcher EXCEPT ![at[c]] = "forked"]
  /\ gate' = [gate EXCEPT ![at[c]] = "open"]
  /\ UNCHANGED <<marker, unit>>

\* Popen returns once the child runs the gate script.
Started(c) ==
  /\ pc[c] = "popen" /\ launcher[at[c]] # "forked"
  /\ Step(c, "popen", "identify")
  /\ UNCHANGED <<marker, world>>

IdentifyLauncher(c) ==
  /\ Step(c, "identify", "release")
  /\ marker' = Written(c)
  /\ UNCHANGED world

ReleaseGate(c) ==
  /\ Step(c, "release", "confirm")
  /\ gate' = [gate EXCEPT ![at[c]] = "go"]
  /\ UNCHANGED <<marker, launcher, unit>>

ConfirmActive(c) ==
  /\ pc[c] = "confirm" /\ unit[at[c]] = "active"
  /\ Step(c, "confirm", "identifyUnit")
  /\ UNCHANGED <<marker, world>>

\* The launcher exited or five seconds went by: the constructor rolls back.
ConfirmFails(c) ==
  /\ Step(c, "confirm", "stop")
  /\ UNCHANGED <<marker, world>>

IdentifyUnit(c) ==
  /\ pc[c] = "identifyUnit"
  /\ Goto(c, "session")
  /\ built' = [built EXCEPT ![c] = TRUE]
  /\ marker' = Written(c)
  /\ UNCHANGED <<lock, cred, at, reaped, world>> /\ Stay

\* The turn ends, with an outcome, a timeout or an error.
Session(c) == Step(c, "session", "stop") /\ UNCHANGED <<marker, world>>

----------------------------------------------------------------------------
\* _ProcessTransport.close, by the session's end or as the rollback.

CloseGate(l) == IF gate[l] = "open" THEN [gate EXCEPT ![l] = "closed"] ELSE gate
Stopped(l) == IF Live(l) THEN [unit EXCEPT ![l] = "ended"] ELSE unit

\* The writer is closed before systemctl stop; the stop may not work.
Stop(c) ==
  /\ Step(c, "stop", "reap")
  /\ gate' = CloseGate(at[c])
  /\ unit' \in {unit, Stopped(at[c])}
  /\ UNCHANGED <<marker, launcher>>

\* wait() returns, or times out: kill and stop, terminate, kill.
Reap(c) ==
  /\ pc[c] = "reap"
  /\ Goto(c, "observe")
  /\ \/ /\ launcher[at[c]] = "gone"
        /\ reaped' = [reaped EXCEPT ![c] = TRUE]
        /\ UNCHANGED <<launcher, unit>>
     \/ /\ launcher[at[c]] # "gone"
        /\ unit' \in {unit, Stopped(at[c])}
        /\ \/ /\ launcher' = [launcher EXCEPT ![at[c]] = "gone"]
              /\ reaped' = [reaped EXCEPT ![c] = TRUE]
           \/ UNCHANGED <<launcher, reaped>>
  /\ UNCHANGED <<lock, cred, at, built, marker, gate>> /\ Stay

\* Mutant of Observe: a cleanup that could not be confirmed disarms as well.
Unconfirmed(c) ==
  /\ pc[c] = "observe"
  /\ Step(c, "observe", IF Live(at[c]) THEN "disarm" ELSE "observeAgain")
  /\ UNCHANGED <<marker, world>>

\* A unit that is not clean is killed once more, then given up on: the error
\* leaves the record behind.
Observe(c) ==
  /\ pc[c] = "observe"
  /\ IF Live(at[c])
       THEN \/ Leave(c) /\ Stay /\ UNCHANGED unit
            \/ Step(c, "observe", "observe") /\ unit' = Stopped(at[c])
       ELSE Step(c, "observe", "observeAgain") /\ UNCHANGED unit
  /\ UNCHANGED <<marker, launcher, gate>>

\* Only a transport that was built and is confirmed clean disarms; the error
\* of a constructor escapes before it.
ObserveAgain(c) ==
  /\ pc[c] = "observeAgain"
  /\ IF Live(at[c]) THEN Step(c, "observeAgain", "observe")
     ELSE IF built[c] /\ reaped[c] THEN Step(c, "observeAgain", "disarm")
     ELSE Leave(c) /\ Stay
  /\ UNCHANGED <<marker, world>>

\* The record must be the one of this launch, fully identified.
Disarm(c) ==
  /\ pc[c] = "disarm"
  /\ Leave(c)
  /\ marker' = Written(c)
  /\ UNCHANGED world /\ Stay

----------------------------------------------------------------------------
\* Faults of an evaluator.

\* A call fails where no launcher is left to take down: the error passes
\* through run_agent.  The write it was to make may have happened.
Abandon(c) ==
  /\ Fault
  /\ pc[c] \in Recovering \cup {"prepare", "linked", "bind", "spawn",
                               "observeAgain", "disarm"}
  /\ Leave(c)
  /\ marker' \in {marker, Written(c)}
  /\ UNCHANGED <<world, auth>>

\* A call fails after Popen: the constructor rolls back through close.
RollBack(c) ==
  /\ Fault
  /\ pc[c] \in {"identify", "release", "identifyUnit"}
  /\ Goto(c, "stop")
  /\ marker' \in {marker, Written(c)}
  /\ UNCHANGED <<lock, cred, at, built, reaped, world, auth>>

\* The process dies: the kernel frees its flock and closes the pipe.
Die(c) ==
  /\ Fault
  /\ pc[c] # "idle"
  /\ Leave(c)
  /\ gate' = IF at[c] = NoLaunch THEN gate ELSE CloseGate(at[c])
  /\ UNCHANGED <<marker, launcher, unit, auth>>

----------------------------------------------------------------------------
\* The launcher, the unit and the user.

Frame == UNCHANGED <<local, lock, marker, auth>>

Exec(l) ==
  /\ launcher[l] = "forked"
  /\ launcher' = [launcher EXCEPT ![l] = "gated"]
  /\ UNCHANGED <<gate, unit, faults>> /\ Frame

\* Mutant of ReadToken: the script does not look at what it read.
AnyToken(l) ==
  /\ launcher[l] = "gated" /\ gate[l] \in {"go", "closed"}
  /\ launcher' = [launcher EXCEPT ![l] = "client"]
  /\ UNCHANGED <<gate, unit, faults>> /\ Frame

\* The gate script: GO starts systemd-run in its place, end of file exits.
ReadToken(l) ==
  /\ launcher[l] = "gated" /\ gate[l] \in {"go", "closed"}
  /\ launcher' = [launcher EXCEPT ![l] = IF gate[l] = "go" THEN "client" ELSE "gone"]
  /\ UNCHANGED <<gate, unit, faults>> /\ Frame

StartUnit(l) ==
  /\ launcher[l] = "client"
  /\ launcher' = [launcher EXCEPT ![l] = "waiting"]
  /\ unit' = [unit EXCEPT ![l] = "starting"]
  /\ UNCHANGED <<gate, faults>> /\ Frame

Activate(l) ==
  /\ unit[l] = "starting"
  /\ unit' = [unit EXCEPT ![l] = "active"]
  /\ UNCHANGED <<launcher, gate, faults>> /\ Frame

\* End of input, failure, RuntimeMaxSec.
UnitEnds(l) ==
  /\ Live(l)
  /\ unit' = [unit EXCEPT ![l] = "ended"]
  /\ UNCHANGED <<launcher, gate, faults>> /\ Frame

\* --collect: the manager forgets the unit.
Collect(l) ==
  /\ unit[l] = "ended"
  /\ unit' = [unit EXCEPT ![l] = "absent"]
  /\ UNCHANGED <<launcher, gate, faults>> /\ Frame

\* systemd-run --wait returns when the unit has ended.
ClientReturns(l) ==
  /\ launcher[l] = "waiting" /\ ~Live(l)
  /\ launcher' = [launcher EXCEPT ![l] = "gone"]
  /\ UNCHANGED <<gate, unit, faults>> /\ Frame

\* It is refused by the manager, or killed beside a unit that goes on.
ClientFails(l) ==
  /\ Fault
  /\ launcher[l] \in {"gated", "client", "waiting"}
  /\ launcher' = [launcher EXCEPT ![l] = "gone"]
  /\ UNCHANGED <<gate, unit>> /\ Frame

\* codex login replaces auth.json.
Login ==
  /\ auth < MaxLogins
  /\ auth' = auth + 1
  /\ UNCHANGED <<local, lock, marker, world, faults>>

Recover(c) ==
  \/ Lock(c) \/ Read(c) \/ ScanGate(c) \/ ScanCommand(c) \/ Probe(c)
  \/ ProbeAgain(c) \/ CheckPid(c) \/ Clear(c) \/ Prepare(c)
Construct(c) ==
  \/ Refuse(c) \/ Arm(c) \/ Unlink(c) \/ BindGate(c) \/ Spawn(c) \/ Started(c)
  \/ IdentifyLauncher(c) \/ ReleaseGate(c) \/ ConfirmActive(c)
  \/ ConfirmFails(c) \/ IdentifyUnit(c)
Finish(c) ==
  Session(c) \/ Stop(c) \/ Reap(c) \/ Observe(c) \/ ObserveAgain(c) \/ Disarm(c)
Fail(c) == Abandon(c) \/ RollBack(c) \/ Die(c)
Progress(l) ==
  \/ Exec(l) \/ ReadToken(l) \/ StartUnit(l) \/ Activate(l) \/ UnitEnds(l)
  \/ Collect(l) \/ ClientReturns(l)

Next ==
  \/ \E c \in Controllers : Recover(c) \/ Construct(c) \/ Finish(c) \/ Fail(c)
  \/ \E l \in Launches : Progress(l) \/ ClientFails(l)
  \/ Login

\* Evaluators keep working and are started again and again, each call has a
\* deadline, and RuntimeMaxSec ends every unit.
Fairness ==
  /\ \A c \in Controllers : WF_vars(Recover(c) \/ Construct(c) \/ Finish(c))
  /\ \A l \in Launches : WF_vars(Progress(l))

Spec == Init /\ [][Next]_vars /\ Fairness

----------------------------------------------------------------------------
TypeOK ==
  /\ pc \in [Controllers -> Pcs]
  /\ lock \in Controllers \cup {NoController}
  /\ cred \in [Controllers -> Nat]
  /\ at \in [Controllers -> Launches \cup {NoLaunch}]
  /\ built \in [Controllers -> BOOLEAN]
  /\ reaped \in [Controllers -> BOOLEAN]
  /\ marker \in Markers \cup {NoMarker}
  /\ launcher \in [Launches -> {"unused", "named", "forked", "gated", "client",
                                "waiting", "gone"}]
  /\ gate \in [Launches -> {"none", "open", "go", "closed"}]
  /\ unit \in [Launches -> {"absent", "starting", "active", "ended"}]
  /\ auth \in Nat /\ faults \in Nat

\* A unit of launch l runs, or something is left that will start it without
\* any evaluator's help.
Dangerous(l) ==
  \/ Live(l)
  \/ launcher[l] = "client"
  \/ launcher[l] \in {"forked", "gated"} /\ gate[l] = "go"

\* Whatever evaluator died where, a sandbox that runs or may still start is
\* named by the record on disk, with the identity of its launcher: the next
\* evaluator knows what to look for (arm, identify_launcher before the gate is
\* released, disarm and recover after the unit is proven dead).
DangerIsOnRecord ==
  \A l \in Launches :
    Dangerous(l) => marker # NoMarker /\ marker.unit = l /\ marker.pid

\* An evaluator that clears and lays out the shared mountpoint, or works in
\* it, is alone: no sandbox of another launch runs or may still start.
OneTenant ==
  \A c \in Controllers :
    pc[c] \notin Recovering \cup {"idle"} =>
      \A l \in Launches : Dangerous(l) => l = at[c]

\* A record an evaluator left behind does not stay: a later invocation removes
\* it, unless the login it is bound to was replaced, which the code leaves to
\* manual remediation.
RecordsGoAway ==
  \A l \in Launches :
    (marker # NoMarker /\ marker.unit = l)
      ~> (\/ marker = NoMarker
          \/ marker # NoMarker /\ (marker.unit # l \/ marker.auth # auth))
=============================================================================
