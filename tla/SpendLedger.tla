----------------------------- MODULE SpendLedger -----------------------------
(***************************************************************************)
(* The comparator spend ledger (SpendLedger and SpendReservation,          *)
(* skivolve/comparator_runtime.py) and the paid call it brackets           *)
(* (ComparatorRuntime.run_transport): a run-level ceiling kept in memory   *)
(* under a lock, and a journal of reservations, each closed by a           *)
(* reconciliation or a forfeit, from which a restarted process restores    *)
(* what was charged.  The AB and the BA comparison of a pair share it.     *)
(***************************************************************************)
EXTENDS Naturals, Sequences, FiniteSets, FiniteSetsExt

CONSTANTS
  Callers,      \* comparator threads
  maximum_usd,  \* the run ceiling
  per_call,     \* the ceiling of one invocation
  Torn,         \* TRUE: a write or a power loss may leave part of a record
  Unlinked,     \* TRUE: the file is lost if its directory was never fsynced
  None,         \* no caller, no identity
  MaxAttempts,  \* bound: reservations in a behaviour
  MaxOpens      \* bound: openings of the ledger in a behaviour

ASSUME SpendAssumption ==
  /\ maximum_usd \in Nat \ {0} /\ per_call \in Nat \ {0}
  /\ Torn \in BOOLEAN /\ Unlinked \in BOOLEAN
  /\ None \notin Callers
  /\ MaxAttempts \in Nat /\ MaxOpens \in Nat

VARIABLES
  journal,   \* what each append wrote to the file, in order, see Chunk
  exists,    \* the file is there
  stable,    \* how many leading appends are on storage
  linked,    \* the file's directory entry is on storage
  open,      \* a process holds the ledger
  identity,  \* the file as last attested (_journal_identity), or None
  spent,     \* _spent_usd
  reserved,  \* _reserved_usd
  lock,      \* the caller inside the ledger
  step,      \* how far its append is
  pending,   \* the record it appends
  created,   \* its append created the file
  call,      \* call[c]: the invocation of the caller
  incurred,  \* history: what the provider really charged, ever
  acked,     \* history: the records whose append returned
  attempts,  \* history: reservations so far
  opens      \* history: openings so far

file == <<journal, exists, stable, linked>>
memory == <<identity, spent, reserved>>
append == <<lock, step, pending, created>>
vars == <<file, open, memory, append, call, incurred, acked, attempts, opens>>

----------------------------------------------------------------------------
(* The journal's lines.                                                    *)

Ids == 1..MaxAttempts
Record == [ev : {"reserve", "reconcile", "forfeit"}, id : Ids, usd : 0..per_call]

\* What one append left: its whole line, a record that lacks nothing but its
\* newline, or less.
Chunk == [rec : Record, part : {"line", "bare", "piece"}]

\* None is not the content of a file.
ASSUME NoneAssumption == None \notin Seq(Chunk)

\* The records that splitlines and the canonical check accept: no line is a
\* piece of one, and only the last may lack its newline.
OnALine(j, n) ==
  /\ j[n].part = "line" \/ (j[n].part = "bare" /\ n = Len(j))
  /\ n > 1 => j[n - 1].part = "line"

LinesAbout(j, id, evs) == {n \in 1..Len(j) : j[n].rec.ev \in evs /\ j[n].rec.id = id}
Reserves(j, id) == LinesAbout(j, id, {"reserve"})
Closes(j, id) == LinesAbout(j, id, {"reconcile", "forfeit"})

\* _restore_journal accepts the file: every attempt is reserved once and
\* then closed at most once, within its reservation.
Readable(j) ==
  /\ \A n \in 1..Len(j) : OnALine(j, n)
  /\ \A id \in Ids : \A m, n \in Reserves(j, id) : m = n
  /\ \A id \in Ids : \A m \in Closes(j, id) :
       /\ Closes(j, id) = {m}
       /\ \E n \in Reserves(j, id) :
            /\ n < m /\ j[m].rec.usd <= j[n].rec.usd
            /\ j[m].rec.ev = "forfeit" => j[m].rec.usd = j[n].rec.usd

\* Mutant of ChargeOf: an interrupted call is taken to have cost nothing.
ChargeIfClosed(j, id) ==
  IF Closes(j, id) = {} THEN 0 ELSE j[Max(Closes(j, id))].rec.usd

\* A reservation that was never closed is charged in full.
ChargeOf(j, id) ==
  LET lines == IF Closes(j, id) # {} THEN Closes(j, id) ELSE Reserves(j, id)
  IN IF lines = {} THEN 0 ELSE j[Max(lines)].rec.usd

\* The sum of the amounts, none above per_call, counted dollar by dollar.
Dollars(amount) == Cardinality({d \in Ids \X (1..per_call) : d[2] <= amount[d[1]]})

Charged(j) == Dollars([id \in Ids |-> ChargeOf(j, id)])

----------------------------------------------------------------------------
Idle == [pc |-> "idle", id |-> 0, cost |-> 0]

Init ==
  /\ journal = <<>> /\ exists = FALSE
  /\ stable = 0 /\ linked = FALSE
  /\ open = FALSE /\ identity = None
  /\ spent = 0 /\ reserved = 0
  /\ lock = None /\ step = "none" /\ pending = None /\ created = FALSE
  /\ call = [c \in Callers |-> Idle]
  /\ incurred = 0 /\ acked = {} /\ attempts = 0 /\ opens = 0

\* What _validate_private_file compares: size and times change with content.
Stat == journal

\* SpendLedger.__init__: restore the journal, or raise.
Open ==
  /\ ~open /\ opens < MaxOpens
  /\ Readable(journal) /\ Charged(journal) <= maximum_usd
  /\ spent' = Charged(journal)
  /\ open' = TRUE
  /\ reserved' = 0
  /\ identity' = IF exists THEN Stat ELSE None
  /\ opens' = opens + 1
  /\ UNCHANGED <<file, append, call, incurred, acked, attempts>>

----------------------------------------------------------------------------
(* One append, under the ledger's lock.                                    *)

Begin(c, r) ==
  /\ open /\ lock = None
  /\ lock' = c /\ step' = "checked" /\ pending' = r
  /\ UNCHANGED <<file, memory, open, created, incurred, acked, opens>>

Unlock == lock' = None /\ step' = "none" /\ pending' = None /\ created' = FALSE

\* The append raises.  A reservation that fails ends the call; after a
\* reconciliation that fails run_transport's finally clause forfeits; a
\* forfeit that fails ends the call too.
Raised ==
  /\ Unlock
  /\ call' = [call EXCEPT ![lock] = IF pending.ev = "reconcile"
                                    THEN [@ EXCEPT !.pc = "failed"] ELSE Idle]

\* Mutant of Attested: appends to whatever is there.
AnyFile == TRUE

\* The file is the one last attested, or none was attested yet.
Attested == identity = None \/ identity = Stat

\* It raises before it wrote, as it must when the file is another one.
Refuse ==
  /\ step = "checked"
  /\ Raised
  /\ UNCHANGED <<file, open, memory, incurred, acked, attempts, opens>>

Write ==
  /\ step = "checked" /\ Attested
  /\ journal' = Append(journal, [rec |-> pending, part |-> "line"])
  /\ exists' = TRUE
  /\ created' = ~exists
  /\ step' = "written"
  /\ UNCHANGED <<stable, linked, open, memory, lock, pending, call, incurred,
                 acked, attempts, opens>>

\* os.write stops before, inside or one byte short of the record's end and
\* cannot go on.
WriteFails ==
  /\ Torn
  /\ step = "checked" /\ Attested
  /\ exists' = TRUE
  /\ \/ journal' = journal
     \/ \E part \in {"bare", "piece"} :
          journal' = Append(journal, [rec |-> pending, part |-> part])
  /\ Raised
  /\ UNCHANGED <<stable, linked, open, memory, incurred, acked, attempts, opens>>

\* Mutant of Fsync: the record is left in the page cache.
FsyncSkipped ==
  /\ step = "written"
  /\ identity' = Stat
  /\ step' = IF created THEN "synced" ELSE "rooted"
  /\ UNCHANGED <<file, open, spent, reserved, lock, pending, created, call,
                 incurred, acked, attempts, opens>>

Fsync ==
  /\ step = "written"
  /\ stable' = Len(journal)
  /\ identity' = Stat
  /\ step' = IF created THEN "synced" ELSE "rooted"
  /\ UNCHANGED <<journal, exists, linked, open, spent, reserved, lock,
                 pending, created, call, incurred, acked, attempts, opens>>

\* The directory of a new file is fsynced too.
FsyncDirectory ==
  /\ step = "synced"
  /\ linked' = TRUE
  /\ step' = "rooted"
  /\ UNCHANGED <<journal, exists, stable, open, memory, lock, pending,
                 created, call, incurred, acked, attempts, opens>>

\* Either fsync raises: the record is in the file, memory does not have it.
FsyncFails ==
  /\ step \in {"written", "synced"}
  /\ Raised
  /\ UNCHANGED <<file, open, memory, incurred, acked, attempts, opens>>

\* Mutant of Settle: closing a reservation does not release it.
SettleUnreleased ==
  /\ step = "rooted"
  /\ acked' = acked \cup {pending}
  /\ IF pending.ev = "reserve"
     THEN /\ reserved' = reserved + pending.usd
          /\ spent' = spent
          /\ call' = [call EXCEPT ![lock].pc = "reserved"]
     ELSE /\ reserved' = reserved
          /\ spent' = spent + pending.usd
          /\ call' = [call EXCEPT ![lock] = Idle]
  /\ Unlock
  /\ UNCHANGED <<file, open, identity, incurred, attempts, opens>>

\* The append returns and its caller settles the amounts in memory.
Settle ==
  /\ step = "rooted"
  /\ acked' = acked \cup {pending}
  /\ IF pending.ev = "reserve"
     THEN /\ reserved' = reserved + pending.usd
          /\ spent' = spent
          /\ call' = [call EXCEPT ![lock].pc = "reserved"]
     ELSE /\ reserved' = reserved - per_call
          /\ spent' = spent + pending.usd
          /\ call' = [call EXCEPT ![lock] = Idle]
  /\ Unlock
  /\ UNCHANGED <<file, open, identity, incurred, attempts, opens>>

----------------------------------------------------------------------------
(* run_transport.                                                          *)

Reservation(id) == [ev |-> "reserve", id |-> id, usd |-> per_call]

\* Mutant of Reserve: only what is already spent counts.
ReserveUncommitted(c) ==
  /\ call[c].pc = "idle" /\ attempts < MaxAttempts
  /\ spent + per_call <= maximum_usd
  /\ attempts' = attempts + 1
  /\ call' = [call EXCEPT ![c] = [pc |-> "reserving", id |-> attempts', cost |-> 0]]
  /\ Begin(c, Reservation(attempts'))

\* The full per-call ceiling must fit what is spent and reserved.
Reserve(c) ==
  /\ call[c].pc = "idle" /\ attempts < MaxAttempts
  /\ spent + reserved + per_call <= maximum_usd
  /\ attempts' = attempts + 1
  /\ call' = [call EXCEPT ![c] = [pc |-> "reserving", id |-> attempts', cost |-> 0]]
  /\ Begin(c, Reservation(attempts'))

\* The provider is paid, and either answers with its cost or the call fails
\* without one that is known.
Execute(c) ==
  /\ call[c].pc = "reserved"
  /\ \E cost \in 0..per_call :
       /\ incurred' = incurred + cost
       /\ \/ call' = [call EXCEPT ![c].pc = "executed", ![c].cost = cost]
          \/ call' = [call EXCEPT ![c].pc = "failed"]
  /\ UNCHANGED <<file, open, memory, append, acked, attempts, opens>>

Reconcile(c) ==
  /\ call[c].pc = "executed"
  /\ Begin(c, [ev |-> "reconcile", id |-> call[c].id, usd |-> call[c].cost])
  /\ UNCHANGED <<call, attempts>>

Forfeit(c) ==
  /\ call[c].pc = "failed"
  /\ Begin(c, [ev |-> "forfeit", id |-> call[c].id, usd |-> per_call])
  /\ UNCHANGED <<call, attempts>>

----------------------------------------------------------------------------
\* The process ends or dies, at any point.
Gone ==
  /\ open' = FALSE /\ identity' = None /\ spent' = 0 /\ reserved' = 0
  /\ Unlock
  /\ call' = [c \in Callers |-> Idle]
  /\ UNCHANGED <<incurred, acked, attempts, opens>>

Crash == open /\ Gone /\ UNCHANGED file

\* The files a power loss may leave: an append that was not on storage goes,
\* or survives in part.
Survivors ==
  {SubSeq(journal, 1, n) : n \in stable..Len(journal)}
  \cup {Append(SubSeq(journal, 1, n - 1), [journal[n] EXCEPT !.part = part]) :
          n \in {m \in (stable + 1)..Len(journal) : Torn /\ journal[m].part = "line"},
          part \in {"bare", "piece"}}

PowerLoss ==
  /\ Gone
  /\ \/ /\ journal' \in Survivors
        /\ stable' = Len(journal') /\ exists' = exists /\ linked' = exists
     \/ /\ Unlinked /\ ~linked
        /\ journal' = <<>> /\ exists' = FALSE
        /\ stable' = 0 /\ linked' = FALSE

Next ==
  \/ Open \/ Refuse \/ Write \/ WriteFails \/ Fsync \/ FsyncDirectory \/ FsyncFails
  \/ Settle
  \/ \E c \in Callers : Reserve(c) \/ Execute(c) \/ Reconcile(c) \/ Forfeit(c)
  \/ Crash \/ PowerLoss

Spec == Init /\ [][Next]_vars

----------------------------------------------------------------------------
(* Properties.                                                             *)

\* Types; between appends an open ledger commits no more than the ceiling.
TypeOK ==
  /\ journal \in Seq(Chunk)
  /\ exists \in BOOLEAN /\ linked \in BOOLEAN /\ open \in BOOLEAN
  /\ stable \in 0..Len(journal)
  /\ spent \in Nat /\ reserved \in Nat /\ spent + reserved <= maximum_usd
  /\ lock \in Callers \cup {None}
  /\ step \in {"none", "checked", "written", "synced", "rooted"}
  /\ pending \in Record \cup {None} /\ created \in BOOLEAN
  /\ call \in [Callers ->
       [pc : {"idle", "reserving", "reserved", "executed", "failed"},
        id : Ids \cup {0}, cost : 0..per_call]]
  /\ incurred \in Nat /\ acked \in SUBSET Record
  /\ attempts \in 0..MaxAttempts /\ opens \in 0..MaxOpens

\* Over every crash, restart and failed append the provider is never paid
\* more than the run ceiling.
CeilingHolds == incurred <= maximum_usd

\* Whatever a power loss now would leave, a restart either refuses it or
\* charges at least what was really spent: no failure disappears from the
\* cost evidence.
DurablyCovered ==
  /\ \A j \in Survivors : Readable(j) => Charged(j) >= incurred
  /\ Unlinked /\ ~linked => incurred = 0

\* Memory never claims more than a restart would restore from a file it
\* still attests.
MemoryWithinJournal ==
  (open /\ lock = None /\ identity = Stat /\ Readable(journal))
    => spent + reserved <= Charged(journal)

\* A reservation is closed by one line, also when the append of its
\* reconciliation fails half way and the finally clause forfeits it.
ClosedOnce ==
  \A id \in Ids : \A m, n \in Closes(journal, id) : m = n

\* A record whose append returned can be read back.
AckedIsJournaled ==
  \A r \in acked : \E n \in 1..Len(journal) : journal[n].rec = r /\ OnALine(journal, n)
=============================================================================
