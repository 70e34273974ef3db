--------------------------- MODULE GeneratorLedger ---------------------------
(***************************************************************************)
(* The generator dispatch ledger of an evaluation run                      *)
(* (_GeneratorDispatchLedger, skivolve/runner.py): an append-only journal, *)
(* fsynced record by record, that accounts for every attempt to run a      *)
(* generator arm.  Several runner processes may open the ledger of the     *)
(* same result root, one after the other or at the same time; each may     *)
(* fail in the middle of an append or crash, and the machine may lose      *)
(* whatever was not yet on storage.                                        *)
(*                                                                         *)
(* A record is what its JSON line says to a replay: its event, its attempt *)
(* and the key it binds (the logical arm of a planned record, the suite,   *)
(* manifest and provider binding of the header).                           *)
(***************************************************************************)
EXTENDS Naturals, Sequences

CONSTANTS
  Arms,        \* logical arms: (comparison, case, repetition, role)
  Ids,         \* attempt ids (uuid4)
  Processes,   \* runner processes that open this result root
  Bindings,    \* distinct header bindings
  BindingOf,   \* the binding each process opens the ledger with
  None,        \* no id, no key, no owner
  MaxRecords,  \* the journal's size limit, in records
  MaxOpens     \* bound: openings of the ledger in a behaviour

ASSUME LedgerAssumption ==
  /\ BindingOf \in [Processes -> Bindings]
  /\ None \notin Arms \cup Ids \cup Processes \cup Bindings
  /\ MaxRecords \in Nat \ {0}
  /\ MaxOpens \in Nat

VARIABLES
  journal,  \* the complete records of the journal file, header first
  torn,     \* a fragment of a record follows them
  exists,   \* the journal file is in the result root
  stable,   \* how many leading records are on storage
  linked,   \* the file's directory entry is on storage
  owner,    \* the process holding the lifetime lock
  mode,     \* mode[p]: "closed", "opening" (lock held) or "open"
  step,     \* step[p]: how far the append in progress is
  pending,  \* pending[p]: the record being appended
  prefix,   \* prefix[p]: the journal as attested by size and digest
  view,     \* view[p]: the records the in-memory attempts come from
  acked,    \* history: the records whose append returned to its caller
  opens     \* history: openings so far

file == <<journal, torn, exists, stable, linked>>
memory == <<prefix, view>>
vars == <<journal, torn, exists, stable, linked, owner, mode, step, pending,
          prefix, view, acked, opens>>

----------------------------------------------------------------------------
(* Records and their replay.                                               *)

Failures == {"failed_observed", "failed_not_observed"}
Terminal == {"completed"} \cup Failures
Events == {"header", "planned", "dispatched"} \cup Terminal

Record == [ev  : Events,
           id  : Ids \cup {None},
           key : Arms \cup Bindings \cup {None}]

Header(p) == [ev |-> "header", id |-> None, key |-> BindingOf[p]]

\* The phase an attempt must be in for an event to be accepted.
Expected == [dispatched          |-> "planned",
             completed           |-> "dispatched",
             failed_observed     |-> "dispatched",
             failed_not_observed |-> "planned"]

\* One of the first n records of j is an event of E for the attempt.
Occurs(j, n, id, E) == \E i \in 1..n : j[i].id = id /\ j[i].ev \in E

\* The phase of an attempt, given which events it had.
PhaseOf(had(_)) ==
  IF had({"completed"}) THEN "completed"
  ELSE IF had(Failures) THEN "failed"
  ELSE IF had({"dispatched"}) THEN "dispatched"
  ELSE IF had({"planned"}) THEN "planned"
  ELSE "unknown"

\* The phase of an attempt after the first n records of j.
PhaseAt(j, n, id) == PhaseOf(LAMBDA E : Occurs(j, n, id, E))

Phase(j, id) == PhaseAt(j, Len(j), id)

\* Mutant of Admits: forgets the check of the logical arm.
AdmitsArmTwice(j, n, r) ==
  \/ /\ r.ev = "planned"
     /\ \A i \in 1..n : j[i].id # r.id
  \/ /\ r.ev \in DOMAIN Expected
     /\ PhaseAt(j, n, r.id) = Expected[r.ev]

\* Replay accepts r after the first n records of j: an attempt id and a
\* logical arm are planned once, a transition leaves the expected phase.
Admits(j, n, r) ==
  \/ /\ r.ev = "planned"
     /\ \A i \in 1..n : j[i].ev = "planned" => j[i].id # r.id /\ j[i].key # r.key
  \/ /\ r.ev \in DOMAIN Expected
     /\ PhaseAt(j, n, r.id) = Expected[r.ev]

\* A whole journal replays: the header, then records each admitted in turn.
Legal(j) ==
  \A n \in 1..Len(j) :
    IF n = 1 THEN j[n].ev = "header" ELSE Admits(j, n - 1, j[n])

\* Mutant of Replays: forgets the header binding.
ReplaysUnbound(p) == ~torn /\ journal # <<>> /\ Legal(journal)

\* What _replay demands of the file that process p finds.
Replays(p) ==
  /\ ~torn
  /\ journal # <<>>
  /\ journal[1] = Header(p)
  /\ Legal(journal)

\* _sync: the file still is what memory attests and what memory replays to.
InSync(p) == ~torn /\ journal = prefix[p] /\ prefix[p] = view[p]

----------------------------------------------------------------------------
Init ==
  /\ journal = <<>> /\ torn = FALSE /\ exists = FALSE
  /\ stable = 0 /\ linked = FALSE
  /\ owner = None
  /\ mode = [p \in Processes |-> "closed"]
  /\ step = [p \in Processes |-> "idle"]
  /\ pending = [p \in Processes |-> None]
  /\ prefix = [p \in Processes |-> <<>>]
  /\ view = [p \in Processes |-> <<>>]
  /\ acked = {}
  /\ opens = 0

\* The instance of p is gone and its lock with it.
Discard(p) ==
  /\ owner' = IF owner = p THEN None ELSE owner
  /\ mode' = [mode EXCEPT ![p] = "closed"]
  /\ step' = [step EXCEPT ![p] = "idle"]
  /\ prefix' = [prefix EXCEPT ![p] = <<>>]
  /\ view' = [view EXCEPT ![p] = <<>>]
  /\ pending' = [pending EXCEPT ![p] = None]

\* Mutants of Acquire: without the lock, without the directory fsync.
AcquireShared(p) ==
  /\ mode[p] = "closed"
  /\ opens < MaxOpens
  /\ owner' = p
  /\ mode' = [mode EXCEPT ![p] = "opening"]
  /\ opens' = opens + 1
  /\ linked' = exists
  /\ UNCHANGED <<journal, torn, exists, stable, step, pending, memory, acked>>

AcquireUnsynced(p) ==
  /\ mode[p] = "closed"
  /\ opens < MaxOpens
  /\ owner = None
  /\ owner' = p
  /\ mode' = [mode EXCEPT ![p] = "opening"]
  /\ opens' = opens + 1
  /\ UNCHANGED <<file, step, pending, memory, acked>>

\* _acquire_lifetime_lock: a non-blocking flock (a second opener raises and
\* leaves no trace); its last act is to fsync the result root directory.
Acquire(p) ==
  /\ mode[p] = "closed"
  /\ opens < MaxOpens
  /\ owner = None
  /\ owner' = p
  /\ mode' = [mode EXCEPT ![p] = "opening"]
  /\ opens' = opens + 1
  /\ linked' = exists
  /\ UNCHANGED <<journal, torn, exists, stable, step, pending, memory, acked>>

\* __init__ without a journal: create it exclusively and append the header.
OpenFresh(p) ==
  /\ mode[p] = "opening" /\ step[p] = "idle"
  /\ ~exists
  /\ exists' = TRUE
  /\ pending' = [pending EXCEPT ![p] = Header(p)]
  /\ step' = [step EXCEPT ![p] = "checked"]
  /\ UNCHANGED <<journal, torn, stable, linked, owner, mode, memory, acked, opens>>

\* Mutant of OpenReplay: trusts the size and restores no attempt.
OpenBlank(p) ==
  /\ mode[p] = "opening" /\ step[p] = "idle"
  /\ exists
  /\ Replays(p)
  /\ mode' = [mode EXCEPT ![p] = "open"]
  /\ prefix' = [prefix EXCEPT ![p] = journal]
  /\ view' = [view EXCEPT ![p] = SubSeq(journal, 1, 1)]
  /\ UNCHANGED <<file, owner, step, pending, acked, opens>>

\* __init__ with a journal: replay it, or raise and release the lock.
OpenReplay(p) ==
  /\ mode[p] = "opening" /\ step[p] = "idle"
  /\ exists
  /\ Replays(p)
  /\ mode' = [mode EXCEPT ![p] = "open"]
  /\ prefix' = [prefix EXCEPT ![p] = journal]
  /\ view' = [view EXCEPT ![p] = journal]
  /\ UNCHANGED <<file, owner, step, pending, acked, opens>>

OpenReject(p) ==
  /\ mode[p] = "opening" /\ step[p] = "idle"
  /\ exists
  /\ ~Replays(p)
  /\ Discard(p)
  /\ UNCHANGED <<file, acked, opens>>

----------------------------------------------------------------------------
(* One append, under the instance's thread lock.                           *)

\* Mutants of Begin: without _sync and the prefix check, without the phase,
\* without the size limit.
BeginUnchecked(p, r) ==
  /\ mode[p] = "open" /\ step[p] = "idle"
  /\ Admits(view[p], Len(view[p]), r)
  /\ Len(journal) < MaxRecords
  /\ pending' = [pending EXCEPT ![p] = r]
  /\ step' = [step EXCEPT ![p] = "checked"]
  /\ UNCHANGED <<file, owner, mode, memory, acked, opens>>

BeginAnyPhase(p, r) ==
  /\ mode[p] = "open" /\ step[p] = "idle"
  /\ InSync(p)
  /\ Len(journal) < MaxRecords
  /\ pending' = [pending EXCEPT ![p] = r]
  /\ step' = [step EXCEPT ![p] = "checked"]
  /\ UNCHANGED <<file, owner, mode, memory, acked, opens>>

BeginUnlimited(p, r) ==
  /\ mode[p] = "open" /\ step[p] = "idle"
  /\ InSync(p)
  /\ Admits(view[p], Len(view[p]), r)
  /\ pending' = [pending EXCEPT ![p] = r]
  /\ step' = [step EXCEPT ![p] = "checked"]
  /\ UNCHANGED <<file, owner, mode, memory, acked, opens>>

\* The checks of plan_attempt and _transition, then those of _append, passed.
Begin(p, r) ==
  /\ mode[p] = "open" /\ step[p] = "idle"
  /\ InSync(p)
  /\ Admits(view[p], Len(view[p]), r)
  /\ Len(journal) < MaxRecords
  /\ pending' = [pending EXCEPT ![p] = r]
  /\ step' = [step EXCEPT ![p] = "checked"]
  /\ UNCHANGED <<file, owner, mode, memory, acked, opens>>

\* plan_attempt draws a fresh uuid for the arm.
PlanAttempt(p) ==
  \E a \in Arms, i \in Ids :
    Begin(p, [ev |-> "planned", id |-> i, key |-> a])

\* mark_dispatched, mark_completed and mark_failed.
MarkAttempt(p) ==
  \E e \in DOMAIN Expected, i \in Ids :
    Begin(p, [ev |-> e, id |-> i, key |-> None])

\* os.write may stop anywhere inside the record.
WritePart(p) ==
  /\ step[p] = "checked"
  /\ torn' = TRUE
  /\ step' = [step EXCEPT ![p] = "partial"]
  /\ UNCHANGED <<journal, exists, stable, linked, owner, mode, pending, memory,
                 acked, opens>>

WriteAll(p) ==
  /\ step[p] \in {"checked", "partial"}
  /\ journal' = Append(journal, pending[p])
  /\ torn' = FALSE
  /\ step' = [step EXCEPT ![p] = "written"]
  /\ UNCHANGED <<exists, stable, linked, owner, mode, pending, memory, acked, opens>>

\* Mutant of Fsync: the record is left in the page cache.
FsyncSkipped(p) ==
  /\ step[p] = "written"
  /\ step' = [step EXCEPT ![p] = "synced"]
  /\ UNCHANGED <<file, owner, mode, pending, memory, acked, opens>>

\* os.fsync of the journal.
Fsync(p) ==
  /\ step[p] = "written"
  /\ stable' = Len(journal)
  /\ step' = [step EXCEPT ![p] = "synced"]
  /\ UNCHANGED <<journal, torn, exists, linked, owner, mode, pending, memory,
                 acked, opens>>

\* The directory fsync that ends the creation of the journal.
FsyncRoot(p) ==
  /\ step[p] = "synced" /\ mode[p] = "opening"
  /\ linked' = TRUE
  /\ step' = [step EXCEPT ![p] = "rooted"]
  /\ UNCHANGED <<journal, torn, exists, stable, owner, mode, pending, memory,
                 acked, opens>>

\* The append is ready to return: the file re-read is prior plus the record.
Appended(p) ==
  /\ step[p] = IF mode[p] = "opening" THEN "rooted" ELSE "synced"
  /\ ~torn /\ journal = Append(prefix[p], pending[p])

\* The append returns and the caller's memory of the attempts follows it.
Acknowledge(p) ==
  /\ Appended(p)
  /\ prefix' = [prefix EXCEPT ![p] = journal]
  /\ view' = [view EXCEPT ![p] = journal]
  /\ acked' = acked \cup {pending[p]}
  /\ mode' = [mode EXCEPT ![p] = "open"]
  /\ step' = [step EXCEPT ![p] = "idle"]
  /\ pending' = [pending EXCEPT ![p] = None]
  /\ UNCHANGED <<file, owner, opens>>

\* The attestation that ends _append raises: size and digest are updated,
\* the attempts are not.
AttestFails(p) ==
  /\ Appended(p)
  /\ IF mode[p] = "opening"
     THEN Discard(p)
     ELSE /\ prefix' = [prefix EXCEPT ![p] = journal]
          /\ step' = [step EXCEPT ![p] = "idle"]
          /\ pending' = [pending EXCEPT ![p] = None]
          /\ UNCHANGED <<owner, mode, view>>
  /\ UNCHANGED <<file, acked, opens>>

\* Any system call of the append raises: the file keeps what it has, memory
\* is not updated; an error while creating the journal fails __init__.
AppendFails(p) ==
  /\ step[p] # "idle"
  /\ IF mode[p] = "opening"
     THEN Discard(p)
     ELSE /\ step' = [step EXCEPT ![p] = "idle"]
          /\ pending' = [pending EXCEPT ![p] = None]
          /\ UNCHANGED <<owner, mode, memory>>
  /\ UNCHANGED <<file, acked, opens>>

----------------------------------------------------------------------------
Close(p) ==
  /\ mode[p] = "open" /\ step[p] = "idle"
  /\ Discard(p)
  /\ UNCHANGED <<file, acked, opens>>

\* The process dies: its lock goes with it, the file stays.
Crash(p) ==
  /\ mode[p] # "closed"
  /\ Discard(p)
  /\ UNCHANGED <<file, acked, opens>>

\* The machine dies: no instance survives, and of the file only what is on
\* storage is certain; the rest may survive in part.
PowerLoss ==
  /\ owner' = None
  /\ mode' = [p \in Processes |-> "closed"]
  /\ step' = [p \in Processes |-> "idle"]
  /\ prefix' = [p \in Processes |-> <<>>]
  /\ view' = [p \in Processes |-> <<>>]
  /\ \/ \E n \in stable..Len(journal) :
          /\ journal' = SubSeq(journal, 1, n)
          /\ torn' \in IF n < Len(journal) THEN BOOLEAN ELSE {FALSE, torn}
          /\ stable' = n
          /\ exists' = exists /\ linked' = exists
     \/ /\ ~linked
        /\ journal' = <<>> /\ torn' = FALSE /\ exists' = FALSE
        /\ stable' = 0 /\ linked' = FALSE
  /\ pending' = [p \in Processes |-> None]
  /\ UNCHANGED <<acked, opens>>

Next ==
  \/ \E p \in Processes :
       \/ Acquire(p) \/ OpenFresh(p) \/ OpenReplay(p) \/ OpenReject(p)
       \/ PlanAttempt(p) \/ MarkAttempt(p)
       \/ WritePart(p) \/ WriteAll(p) \/ Fsync(p) \/ FsyncRoot(p)
       \/ Acknowledge(p) \/ AttestFails(p) \/ AppendFails(p)
       \/ Close(p) \/ Crash(p)
  \/ PowerLoss

Spec == Init /\ [][Next]_vars

----------------------------------------------------------------------------
(* Properties.                                                             *)

\* Types of the file, of the instances and of the history; the file never
\* outgrows the limit past which no instance could read it again.
TypeOK ==
  /\ journal \in Seq(Record) /\ Len(journal) <= MaxRecords
  /\ torn \in BOOLEAN /\ exists \in BOOLEAN /\ linked \in BOOLEAN
  /\ stable \in Nat
  /\ owner \in Processes \cup {None}
  /\ mode \in [Processes -> {"closed", "opening", "open"}]
  /\ step \in [Processes -> {"idle", "checked", "partial", "written", "synced", "rooted"}]
  /\ pending \in [Processes -> Record \cup {None}]
  /\ prefix \in [Processes -> Seq(Record)]
  /\ view \in [Processes -> Seq(Record)]
  /\ acked \in SUBSET Record
  /\ opens \in 0..MaxOpens

\* Whatever crashed, failed or raced, the complete records of the journal
\* are a history that _replay accepts: only a torn tail can make it refuse.
JournalLegal == Legal(journal)

\* A record whose append returned is on storage, in a file whose directory
\* entry is on storage: no power loss takes it back.
AckedIsStable ==
  /\ \A r \in acked : \E i \in 1..stable : journal[i] = r
  /\ stable <= Len(journal)
  /\ acked # {} => linked

\* plan_attempt returned for a logical arm at most once, over every process,
\* crash and restart: its return is the permission to call the provider.
OneAttemptPerArm ==
  \A r, s \in acked :
    r.ev = "planned" /\ s.ev = "planned" /\ r.key = s.key => r = s

\* An instance that has opened replays every record ever acknowledged, by
\* whichever process, so its audit reports every attempt once permitted.
NoForgottenAttempt ==
  \A p \in Processes : mode[p] = "open" =>
    \A r \in acked : \E i \in 1..Len(view[p]) : view[p][i] = r

\* An instance only ever works on a journal whose header is its own suite,
\* manifest and provider: accounting of two configurations never mixes.
BoundHistory ==
  \A p \in Processes : mode[p] = "open" =>
    Len(journal) > 0 /\ journal[1] = Header(p) /\ view[p][1] = Header(p)

\* An instance whose file and memory disagree is of no further use: it stays
\* so, and acknowledges nothing, until it is closed or dies.
Poisoned(p) == mode[p] = "open" /\ step[p] = "idle" /\ ~InSync(p)

FailStop ==
  [][\A p \in Processes : Poisoned(p) => Poisoned(p)' \/ mode'[p] = "closed"]_vars

\* Once a terminal event of an attempt was acknowledged its replayed phase
\* never changes again, and once any was it never moves back.
Rank(phase) ==
  CASE phase = "unknown" -> 0 [] phase = "planned" -> 1
    [] phase = "dispatched" -> 2 [] OTHER -> 3

AckedPhaseHolds ==
  [][\A i \in Ids :
       LET told(E) == \E r \in acked : r.id = i /\ r.ev \in E
           now == Phase(journal, i)
           next == Phase(journal', i)
       IN /\ told(Terminal) => next = now
          /\ told({"dispatched"}) => Rank(next) >= 2
          /\ told({"planned"}) => Rank(next) >= 1]_vars

\* The attempt a record of j plans for the arm, if any.
AttemptOf(j, a) ==
  IF \E i \in 1..Len(j) : j[i].ev = "planned" /\ j[i].key = a
  THEN j[CHOOSE i \in 1..Len(j) : j[i].ev = "planned" /\ j[i].key = a].id
  ELSE None

\* The phase of an attempt by the records its callers saw acknowledged.
ToldPhase(id) == PhaseOf(LAMBDA E : \E r \in acked : r.id = id /\ r.ev \in E)

Abstract ==
  INSTANCE AttemptAccounting WITH
    recorded <- [a \in Arms |-> Phase(journal, AttemptOf(journal, a))],
    told <- [a \in Arms |-> ToldPhase(AttemptOf(journal, a))]

\* The ledger implements the accounting its callers rely on: phases advance
\* one event at a time, callers are told what is recorded, and a crash or a
\* power loss forgets only what nobody was told.
Accounting == Abstract!Spec
=============================================================================
