--------------------------- MODULE BoundedTransport ---------------------------
(***************************************************************************)
(* One call of execute_bounded_transport (comparator_runtime.py), which    *)
(* the comparator, the Claude provider and the collector run systemd-run   *)
(* with.  The caller polls the client, two threads read its output up to a *)
(* limit and one writes its input; a deadline or too much output stops the *)
(* unit, and a cleanup of five seconds waits for the client and joins the  *)
(* threads.  The unit inherits the pipes (--pipe): it may hold their ends  *)
(* open when the client is gone.                                           *)
(*                                                                         *)
(* Clocks are not modelled: a wait with a deadline may end before what it  *)
(* waits for, at any time.                                                 *)
(***************************************************************************)
EXTENDS Naturals

CONSTANT limit  \* stdout_limit and stderr_limit, in chunks of output

ASSUME LimitAssumption == limit \in Nat

VARIABLES
  phase,     \* where the call stands
  client,    \* the process of systemd-run
  unit,      \* the processes of its unit, which hold the pipes too
  pipe,      \* pipe[s]: output that was not read yet
  reader,    \* reader[s]: the thread that reads stream s
  kept,      \* kept[s]: the chunks in the buffer of stream s
  writer,    \* the thread that writes the input
  closed,    \* the pipes the caller closed
  timedOut,  \* timed_out
  asked,     \* the unit was asked to terminate
  result     \* how the call ended

Streams == {"stdout", "stderr"}
call == <<phase, timedOut, asked, result>>
sandbox == <<client, unit, pipe>>
threads == <<reader, kept, writer>>
transportVars == <<call, sandbox, threads, closed>>

Phases == {"idle", "started", "polling", "cut", "waiting", "waitingAgain",
           "closing", "joining", "closingAll", "judging"}
Results == {"none", "ok", "unstarted", "unregistered", "incomplete", "overflow",
            "timeout", "error"}

\* Someone has the other end of the pipes.
Peers == client \in {"running", "killed"} \/ unit = "running"

Overflow == \E s \in Streams : reader[s] = "over"
ReaderAlive(s) == reader[s] \in {"reading", "between"}
ThreadAlive == writer = "writing" \/ \E s \in Streams : ReaderAlive(s)

TransportInit ==
  /\ phase = "idle" /\ timedOut = FALSE /\ asked = FALSE /\ result = "none"
  /\ client = "none" /\ unit = "none"
  /\ pipe = [s \in Streams |-> FALSE]
  /\ reader = [s \in Streams |-> "none"] /\ writer = "none"
  /\ kept = [s \in Streams |-> 0]
  /\ closed = {}

----------------------------------------------------------------------------
(* The caller.                                                             *)

Return(r) == phase' = "idle" /\ result' = r

\* Popen raises, or the client runs in a session of its own.
Launch ==
  /\ phase = "idle" /\ result = "none"
  /\ \/ Return("unstarted") /\ UNCHANGED client
     \/ phase' = "started" /\ client' = "running" /\ UNCHANGED result
  /\ UNCHANGED <<timedOut, asked, unit, pipe, threads, closed>>

\* stop_process: terminate, whose failure is suppressed, then SIGKILL.
StopProcess ==
  /\ asked' = TRUE
  /\ unit' \in {unit, IF unit = "running" THEN "ended" ELSE unit}
  /\ client' = IF client = "running" THEN "killed" ELSE client

\* on_started raises: no thread was started, and the wait may time out.
NotRegistered ==
  /\ phase = "started"
  /\ StopProcess
  /\ Return("unregistered")
  /\ closed' = Streams \cup {"stdin"}
  /\ UNCHANGED <<timedOut, pipe, threads>>

Registered ==
  /\ phase = "started"
  /\ phase' = "polling"
  /\ reader' = [s \in Streams |-> "reading"] /\ writer' = "writing"
  /\ UNCHANGED kept
  /\ UNCHANGED <<timedOut, asked, result, sandbox, closed>>

\* The loop ends because the client did, on an overflow or at the deadline.
PollExited ==
  /\ phase = "polling" /\ client = "exited"
  /\ phase' = "waiting"
  /\ UNCHANGED <<timedOut, asked, result, sandbox, threads, closed>>

\* Mutant of PollCut: only an overflow ends the loop.
PollOverflow ==
  /\ phase = "polling" /\ client # "exited" /\ Overflow
  /\ phase' = "cut"
  /\ timedOut' = FALSE
  /\ UNCHANGED <<asked, result, sandbox, threads, closed>>

PollCut ==
  /\ phase = "polling" /\ client # "exited"
  /\ phase' = "cut"
  /\ timedOut' = ~Overflow
  /\ UNCHANGED <<asked, result, sandbox, threads, closed>>

\* A client that exited since the poll is not stopped.
Cut ==
  /\ phase = "cut"
  /\ phase' = "waiting"
  /\ IF client = "exited" THEN UNCHANGED <<client, unit, asked>> ELSE StopProcess
  /\ UNCHANGED <<timedOut, result, pipe, threads, closed>>

Waited ==
  /\ phase \in {"waiting", "waitingAgain"} /\ client = "exited"
  /\ phase' = "joining"
  /\ UNCHANGED <<timedOut, asked, result, sandbox, threads, closed>>

\* The first wait times out: stop again, wait for what is left of five seconds.
WaitAgain ==
  /\ phase = "waiting" /\ client # "exited"
  /\ phase' = "waitingAgain"
  /\ StopProcess
  /\ UNCHANGED <<timedOut, result, pipe, threads, closed>>

\* The second times out as well: the pipes are closed under the threads.
GiveUp ==
  /\ phase = "waitingAgain" /\ client # "exited"
  /\ phase' = "closing"
  /\ UNCHANGED <<timedOut, asked, result, sandbox, threads, closed>>

\* close() of a buffered pipe waits for the thread that is inside a read or a
\* write on it.
Closable(p) == IF p = "stdin" THEN writer # "writing" ELSE reader[p] # "reading"

ClosePipe(p) ==
  /\ phase \in {"closing", "closingAll"}
  /\ p \notin closed
  /\ \A q \in {"stdin", "stdout"} :
       (q # p /\ <<q, p>> # <<"stdout", "stdin">>) => q \in closed
  /\ Closable(p)
  /\ closed' = closed \cup {p}
  /\ UNCHANGED <<call, sandbox, threads>>

AllClosed ==
  /\ phase \in {"closing", "closingAll"}
  /\ closed = Streams \cup {"stdin"}
  /\ phase' = IF phase = "closing" THEN "joining" ELSE "judging"
  /\ UNCHANGED <<timedOut, asked, result, sandbox, threads, closed>>

\* The three joins end with their threads or at the cleanup deadline.
Join ==
  /\ phase = "joining"
  /\ phase' = "closingAll"
  /\ UNCHANGED <<timedOut, asked, result, sandbox, threads, closed>>

\* Mutant of Outcome: what overflowed after the client exited goes unnoticed.
OutcomeOfPoll ==
  IF client # "exited" \/ ThreadAlive THEN "incomplete"
  ELSE IF Overflow /\ asked THEN "overflow"
  ELSE IF timedOut THEN "timeout"
  ELSE IF \E s \in Streams : reader[s] = "error" THEN "error"
  ELSE "ok"

Outcome ==
  IF client # "exited" \/ ThreadAlive THEN "incomplete"
  ELSE IF Overflow THEN "overflow"
  ELSE IF timedOut THEN "timeout"
  ELSE IF \E s \in Streams : reader[s] = "error" THEN "error"
  ELSE "ok"

\* An overflow that was not stopped yet is stopped now.
Judge ==
  /\ phase = "judging"
  /\ Return(Outcome)
  /\ IF Outcome = "overflow" /\ ~asked
       THEN asked' = TRUE /\ unit' \in {unit, IF unit = "running" THEN "ended" ELSE unit}
       ELSE UNCHANGED <<asked, unit>>
  /\ UNCHANGED <<timedOut, client, pipe, threads, closed>>

----------------------------------------------------------------------------
(* The threads.                                                            *)

\* Mutant of Chunk: the chunk that reaches the limit is kept whole.
ChunkWhole(s) ==
  /\ reader[s] = "reading" /\ pipe[s]
  /\ pipe' = [pipe EXCEPT ![s] = FALSE]
  /\ kept' = [kept EXCEPT ![s] = @ + 1]
  /\ reader' = [reader EXCEPT ![s] = IF kept[s] < limit THEN "between" ELSE "over"]
  /\ UNCHANGED <<call, client, unit, writer, closed>>

\* A chunk is kept as long as there is room; the first that exceeds the limit
\* ends the reader.
Chunk(s) ==
  /\ reader[s] = "reading" /\ pipe[s]
  /\ pipe' = [pipe EXCEPT ![s] = FALSE]
  /\ IF kept[s] < limit
       THEN /\ kept' = [kept EXCEPT ![s] = @ + 1]
            /\ reader' = [reader EXCEPT ![s] = "between"]
       ELSE /\ reader' = [reader EXCEPT ![s] = "over"]
            /\ UNCHANGED kept
  /\ UNCHANGED <<call, client, unit, writer, closed>>

ReadOn(s) ==
  /\ reader[s] = "between"
  /\ reader' = [reader EXCEPT ![s] = IF s \in closed THEN "error" ELSE "reading"]
  /\ UNCHANGED <<call, sandbox, kept, writer, closed>>

EndOfFile(s) ==
  /\ reader[s] = "reading" /\ ~pipe[s] /\ ~Peers
  /\ reader' = [reader EXCEPT ![s] = "eof"]
  /\ UNCHANGED <<call, sandbox, kept, writer, closed>>

\* The input is taken, or nobody is left to take it.
InputTaken ==
  /\ writer = "writing"
  /\ writer' = "done"
  /\ closed' = closed \cup {"stdin"}
  /\ UNCHANGED <<call, sandbox, reader, kept>>

----------------------------------------------------------------------------
(* The client and its unit.                                                *)

UnitStarts ==
  /\ client \in {"running", "killed"} /\ unit = "none"
  /\ unit' = "running"
  /\ UNCHANGED <<call, client, pipe, threads, closed>>

Output(s) ==
  /\ Peers /\ ~pipe[s] /\ ReaderAlive(s)
  /\ pipe' = [pipe EXCEPT ![s] = TRUE]
  /\ UNCHANGED <<call, client, unit, threads, closed>>

\* By itself, or by RuntimeMaxSec with KillMode=control-group.
UnitEnds ==
  /\ unit = "running"
  /\ unit' = "ended"
  /\ UNCHANGED <<call, client, pipe, threads, closed>>

\* With its unit (--wait), or before it: refused, killed or failed.
ClientExits ==
  /\ client \in {"running", "killed"}
  /\ client' = "exited"
  /\ UNCHANGED <<call, unit, pipe, threads, closed>>

----------------------------------------------------------------------------
Caller ==
  \/ Launch \/ NotRegistered \/ Registered \/ PollExited \/ PollCut \/ Cut
  \/ Waited \/ WaitAgain \/ GiveUp \/ AllClosed \/ Join \/ Judge
  \/ \E p \in Streams \cup {"stdin"} : ClosePipe(p)
Reading(s) == Chunk(s) \/ ReadOn(s) \/ EndOfFile(s)
Outside == UnitStarts \/ UnitEnds \/ ClientExits \/ \E s \in Streams : Output(s)

TransportNext == Caller \/ InputTaken \/ Outside \/ \E s \in Streams : Reading(s)

\* The caller and the threads run; a killed client dies; a writer that nobody
\* listens to gets an error.  Nothing is said of when a unit ends.
Fairness ==
  /\ WF_transportVars(Caller)
  /\ \A s \in Streams : WF_transportVars(Reading(s))
  /\ WF_transportVars(~Peers /\ InputTaken)
  /\ WF_transportVars(client = "killed" /\ ClientExits)

TransportSpec == TransportInit /\ [][TransportNext]_transportVars /\ Fairness

----------------------------------------------------------------------------
TransportTypeOK ==
  /\ phase \in Phases /\ result \in Results
  /\ timedOut \in BOOLEAN /\ asked \in BOOLEAN
  /\ client \in {"none", "running", "killed", "exited"}
  /\ unit \in {"none", "running", "ended"}
  /\ pipe \in [Streams -> BOOLEAN]
  /\ reader \in [Streams -> {"none", "reading", "between", "eof", "over", "error"}]
  /\ kept \in [Streams -> 0..limit]
  /\ writer \in {"none", "writing", "done"}
  /\ closed \subseteq Streams \cup {"stdin"}

\* A result is the whole output of a call nobody interfered with: however the
\* deadline, the limits, the joins and the exit race, it was not cut, nothing
\* was dropped or is still to come, and no process of the unit is left.  A call
\* that broke a limit has asked its unit to stop, also when the limit was found
\* broken only after the client had exited.
ResultIsWhole ==
  /\ result = "ok" =>
       /\ ~timedOut /\ ~asked
       /\ client = "exited" /\ unit # "running"
       /\ \A s \in Streams : reader[s] = "eof" /\ ~pipe[s]
  /\ result = "overflow" => asked

\* The unit still holds a pipe the caller is closing.
Held == phase \in {"closing", "closingAll"} /\ unit = "running"

\* The deadline ends a call, whatever the client, the output and the joins do,
\* unless the unit outlives it: then it ends with the unit at the latest.  (The
\* joins give up at the cleanup deadline, but close() of a pipe waits for the
\* thread that reads it.)
CallEnds ==
  /\ phase = "polling" ~> (result # "none" \/ Held)
  /\ (phase = "closingAll" /\ unit = "ended") ~> result # "none"
=============================================================================
