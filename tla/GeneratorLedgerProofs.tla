------------------------ MODULE GeneratorLedgerProofs ------------------------
(***************************************************************************)
(* The safety of the generator dispatch ledger, and that it implements the *)
(* accounting of attempts, for any number of arms, attempts, processes,    *)
(* openings and records.                                                   *)
(***************************************************************************)
EXTENDS GeneratorLedger, SequenceTheorems, TLAPS

----------------------------------------------------------------------------
(* The inductive invariant.                                                *)

\* The lock is held by whoever is not closed, so there is one instance.
Ownership ==
  \A p \in Processes :
    /\ mode[p] # "closed" => owner = p
    /\ mode[p] = "closed" => step[p] = "idle" /\ prefix[p] = <<>>

FileInv ==
  /\ journal # <<>> => exists
  /\ linked => exists
  /\ stable <= Len(journal)

\* How far the creation of a journal is; nothing was ever acknowledged then.
\* An instance that found a journal knows its directory entry to be on
\* storage, from the fsync of its lock file's directory.
OpeningInv(p) ==
  mode[p] = "opening" =>
    /\ prefix[p] = <<>>
    /\ step[p] = "idle" => (exists => linked)
    /\ step[p] # "idle" => exists /\ pending[p] = Header(p) /\ acked = {}
    /\ step[p] \in {"checked", "partial"} => journal = <<>>
    /\ step[p] \in {"written", "synced", "rooted"} => journal = <<Header(p)>>
    /\ step[p] \in {"synced", "rooted"} => stable = Len(journal)
    /\ step[p] = "rooted" => linked

\* What an open instance relies on, and how far its append is.
OpenInv(p) ==
  mode[p] = "open" =>
    /\ linked
    /\ Len(journal) > 0 /\ journal[1] = Header(p)
    /\ Len(view[p]) > 0 /\ view[p][1] = Header(p)
    /\ \A r \in acked : \E i \in 1..Len(view[p]) : view[p][i] = r
    /\ step[p] # "idle" => pending[p] \in Record
    /\ step[p] # "rooted"
    /\ step[p] \in {"checked", "partial"} =>
         /\ journal = prefix[p] /\ prefix[p] = view[p]
         /\ Admits(journal, Len(journal), pending[p])
         /\ Len(journal) < MaxRecords
    /\ step[p] \in {"written", "synced"} =>
         /\ journal = Append(prefix[p], pending[p]) /\ prefix[p] = view[p]
    /\ step[p] = "synced" => stable = Len(journal)

IInv ==
  /\ TypeOK
  /\ Ownership
  /\ FileInv
  /\ \A p \in Processes : OpeningInv(p) /\ OpenInv(p)
  /\ JournalLegal
  /\ AckedIsStable

----------------------------------------------------------------------------
(* Records and replay.                                                     *)

\* A header is a record.
LEMMA HeaderIsRecord ==
  \A p \in Processes : Header(p) \in Record /\ Header(p).ev = "header"
BY LedgerAssumption DEF Header, Record, Events

\* Replay admits a record by the records before it alone.
LEMMA AdmitsLocal ==
  ASSUME NEW j, NEW k, NEW n \in Nat, NEW r,
         \A i \in 1..n : j[i] = k[i]
  PROVE  Admits(j, n, r) <=> Admits(k, n, r)
<1>1. \A id, E : Occurs(j, n, id, E) <=> Occurs(k, n, id, E)
  BY DEF Occurs
<1>2. PhaseAt(j, n, r.id) = PhaseAt(k, n, r.id)
  BY <1>1, Zenon DEF PhaseAt, PhaseOf
<1> QED BY <1>2 DEF Admits

\* A legal journal stays legal when an admitted record is appended.
LEMMA LegalAppend ==
  ASSUME NEW j \in Seq(Record), NEW r \in Record,
         Legal(j), j # <<>>, Admits(j, Len(j), r)
  PROVE  Legal(Append(j, r))
<1> DEFINE k == Append(j, r)
<1>1. k \in Seq(Record) /\ Len(k) = Len(j) + 1 /\ k[Len(k)] = r
  OBVIOUS
<1>2. \A i \in 1..Len(j) : j[i] = k[i]
  OBVIOUS
<1>3. ASSUME NEW n \in 1..Len(k)
      PROVE  IF n = 1 THEN k[n].ev = "header" ELSE Admits(k, n - 1, k[n])
  <2>1. CASE n \in 1..Len(j)
    <3>1. k[n] = j[n]
      BY <2>1, <1>2
    <3>2. n - 1 \in Nat /\ \A i \in 1..(n - 1) : j[i] = k[i]
      BY <2>1, <1>2
    <3>3. Admits(j, n - 1, j[n]) <=> Admits(k, n - 1, j[n])
      BY <3>2, AdmitsLocal, Zenon
    <3> QED BY <2>1, <3>1, <3>3 DEF Legal
  <2>2. CASE n = Len(k)
    <3>1. n # 1 /\ n - 1 = Len(j) /\ k[n] = r
      BY <2>2, <1>1
    <3>2. Admits(j, Len(j), r) <=> Admits(k, Len(j), r)
      <4>1. Len(j) \in Nat
        OBVIOUS
      <4> QED BY <4>1, <1>2, AdmitsLocal, Zenon
    <3> QED BY <3>1, <3>2
  <2> QED BY <2>1, <2>2, <1>1
<1> QED BY <1>3 DEF Legal

\* What is left of a legal journal after a power loss is legal.
LEMMA LegalPrefix ==
  ASSUME NEW j \in Seq(Record), Legal(j), NEW m \in 0..Len(j)
  PROVE  Legal(SubSeq(j, 1, m))
<1> DEFINE k == SubSeq(j, 1, m)
<1>1. Len(k) = m /\ \A i \in 1..m : j[i] = k[i]
  OBVIOUS
<1>2. ASSUME NEW n \in 1..m
      PROVE  IF n = 1 THEN k[n].ev = "header" ELSE Admits(k, n - 1, k[n])
  <2>1. n - 1 \in Nat /\ \A i \in 1..(n - 1) : j[i] = k[i]
    BY <1>1
  <2>2. Admits(j, n - 1, j[n]) <=> Admits(k, n - 1, j[n])
    BY <2>1, AdmitsLocal, Zenon
  <2> QED BY <2>2, <1>1 DEF Legal
<1> QED BY <1>1, <1>2 DEF Legal

----------------------------------------------------------------------------
(* The invariant is inductive.                                             *)

LEMMA InitInv == Init => IInv
<1> SUFFICES ASSUME Init PROVE IInv
  OBVIOUS
<1> USE DEF Init
<1>1. TypeOK
  <2>1. <<>> \in Seq(Record) /\ Len(<<>>) = 0
    OBVIOUS
  <2>2. 0 \in 0..MaxOpens /\ 0 <= MaxRecords
    BY LedgerAssumption
  <2> QED BY <2>1, <2>2 DEF TypeOK
<1>2. Legal(<<>>)
  BY DEF Legal
<1> QED
  BY <1>1, <1>2 DEF IInv, Ownership, FileInv, OpeningInv, OpenInv, JournalLegal, AckedIsStable

\* While an instance is not closed every other one is.
LEMMA Alone ==
  ASSUME IInv, NEW p \in Processes, mode[p] # "closed"
  PROVE  /\ owner = p
         /\ \A q \in Processes :
              q # p => mode[q] = "closed" /\ step[q] = "idle" /\ prefix[q] = <<>>
BY LedgerAssumption DEF IInv, Ownership

\* A step of p that moves p alone leaves the other instances' invariant.
LEMMA OthersKeep ==
  ASSUME IInv, NEW p \in Processes, mode[p] # "closed", mode'[p] # "closed",
         owner' = owner,
         \A q \in Processes : q # p =>
           mode'[q] = mode[q] /\ step'[q] = step[q] /\ prefix'[q] = prefix[q]
  PROVE  /\ Ownership'
         /\ \A q \in Processes : q # p => OpeningInv(q)' /\ OpenInv(q)'
<1>1. /\ owner = p
      /\ \A q \in Processes :
           q # p => mode'[q] = "closed" /\ step'[q] = "idle" /\ prefix'[q] = <<>>
  BY Alone
<1> QED BY <1>1 DEF Ownership, OpeningInv, OpenInv

\* An instance that closes, fails to open or dies.
LEMMA DiscardInv ==
  ASSUME IInv, NEW p \in Processes, mode[p] # "closed", Discard(p),
         UNCHANGED <<file, acked, opens>>
  PROVE  IInv'
<1> USE DEF file
<1>1. TypeOK'
  BY LedgerAssumption DEF IInv, TypeOK, Discard
<1>2. owner = p /\ \A q \in Processes : q # p => mode[q] = "closed"
  BY LedgerAssumption DEF IInv, Ownership
<1>3. \A q \in Processes : mode'[q] = "closed" /\ step'[q] = "idle" /\ prefix'[q] = <<>>
  BY <1>2 DEF IInv, TypeOK, Ownership, Discard
<1>4. Ownership' /\ \A q \in Processes : OpeningInv(q)' /\ OpenInv(q)'
  BY <1>3 DEF Ownership, OpeningInv, OpenInv
<1>5. FileInv' /\ JournalLegal' /\ AckedIsStable'
  BY DEF IInv, FileInv, JournalLegal, AckedIsStable
<1> QED BY <1>1, <1>4, <1>5 DEF IInv

LEMMA AcquireInv ==
  ASSUME IInv, NEW p \in Processes, Acquire(p)
  PROVE  IInv'
<1> USE DEF Acquire, memory
<1>1. TypeOK'
  BY LedgerAssumption DEF IInv, TypeOK
<1>2. \A q \in Processes : mode[q] = "closed" /\ step[q] = "idle" /\ prefix[q] = <<>>
  BY LedgerAssumption DEF IInv, Ownership
<1>3. /\ mode'[p] = "opening"
      /\ \A q \in Processes : q # p => mode'[q] = "closed"
  BY <1>2 DEF IInv, TypeOK
<1>4. Ownership' /\ \A q \in Processes : OpeningInv(q)' /\ OpenInv(q)'
  BY <1>2, <1>3 DEF Ownership, OpeningInv, OpenInv
<1>5. FileInv' /\ JournalLegal' /\ AckedIsStable'
  BY DEF IInv, FileInv, JournalLegal, AckedIsStable
<1> QED BY <1>1, <1>4, <1>5 DEF IInv

LEMMA OpenFreshInv ==
  ASSUME IInv, NEW p \in Processes, OpenFresh(p)
  PROVE  IInv'
<1> USE DEF OpenFresh, memory
<1>1. TypeOK'
  BY HeaderIsRecord DEF IInv, TypeOK
<1>2. Ownership' /\ \A q \in Processes : q # p => OpeningInv(q)' /\ OpenInv(q)'
  BY OthersKeep DEF IInv, TypeOK
<1>3. journal = <<>> /\ ~linked /\ acked = {}
  BY DEF IInv, FileInv, AckedIsStable
<1>4. OpeningInv(p)' /\ OpenInv(p)'
  BY <1>3 DEF IInv, TypeOK, OpeningInv, OpenInv
<1>5. FileInv' /\ JournalLegal' /\ AckedIsStable'
  BY DEF IInv, FileInv, JournalLegal, AckedIsStable
<1> QED BY <1>1, <1>2, <1>4, <1>5 DEF IInv

LEMMA OpenReplayInv ==
  ASSUME IInv, NEW p \in Processes, OpenReplay(p)
  PROVE  IInv'
<1> USE DEF OpenReplay, memory, file
<1>1. TypeOK'
  BY DEF IInv, TypeOK
<1>2. Ownership' /\ \A q \in Processes : q # p => OpeningInv(q)' /\ OpenInv(q)'
  BY OthersKeep DEF IInv, TypeOK
<1>3. linked
  BY DEF IInv, OpeningInv
<1>4. /\ mode'[p] = "open" /\ step'[p] = "idle" /\ view'[p] = journal
      /\ Len(journal) > 0 /\ journal[1] = Header(p)
  BY DEF IInv, TypeOK, Replays
<1>5. \A r \in acked : \E i \in 1..Len(journal) : journal[i] = r
  BY DEF IInv, TypeOK, AckedIsStable
<1>6. OpeningInv(p)' /\ OpenInv(p)'
  BY <1>3, <1>4, <1>5 DEF OpeningInv, OpenInv, Header
<1>7. FileInv' /\ JournalLegal' /\ AckedIsStable'
  BY DEF IInv, FileInv, JournalLegal, AckedIsStable
<1> QED BY <1>1, <1>2, <1>6, <1>7 DEF IInv

LEMMA BeginInv ==
  ASSUME IInv, NEW p \in Processes, NEW r \in Record, Begin(p, r)
  PROVE  IInv'
<1> USE DEF Begin, memory, file
<1>1. TypeOK'
  BY DEF IInv, TypeOK
<1>2. Ownership' /\ \A q \in Processes : q # p => OpeningInv(q)' /\ OpenInv(q)'
  BY OthersKeep DEF IInv, TypeOK
<1>3. /\ mode'[p] = "open" /\ step'[p] = "checked" /\ pending'[p] = r
  BY DEF IInv, TypeOK
<1>4. OpeningInv(p)' /\ OpenInv(p)'
  BY <1>3 DEF IInv, OpeningInv, OpenInv, InSync, Header
<1>5. FileInv' /\ JournalLegal' /\ AckedIsStable'
  BY DEF IInv, FileInv, JournalLegal, AckedIsStable
<1> QED BY <1>1, <1>2, <1>4, <1>5 DEF IInv

\* Every record the ledger's callers append is a record.
LEMMA CallerInv ==
  ASSUME IInv, NEW p \in Processes, PlanAttempt(p) \/ MarkAttempt(p)
  PROVE  IInv'
<1>1. CASE PlanAttempt(p)
  <2>1. PICK a \in Arms, i \in Ids : Begin(p, [ev |-> "planned", id |-> i, key |-> a])
    BY <1>1 DEF PlanAttempt
  <2>2. [ev |-> "planned", id |-> i, key |-> a] \in Record
    BY DEF Record, Events
  <2> QED BY <2>1, <2>2, BeginInv
<1>2. CASE MarkAttempt(p)
  <2>1. PICK e \in DOMAIN Expected, i \in Ids :
          Begin(p, [ev |-> e, id |-> i, key |-> None])
    BY <1>2 DEF MarkAttempt
  <2>2. [ev |-> e, id |-> i, key |-> None] \in Record
    BY DEF Record, Events, Expected, Terminal, Failures
  <2> QED BY <2>1, <2>2, BeginInv
<1> QED BY <1>1, <1>2

LEMMA WritePartInv ==
  ASSUME IInv, NEW p \in Processes, WritePart(p)
  PROVE  IInv'
<1> USE DEF WritePart, memory
<1>1. TypeOK'
  BY DEF IInv, TypeOK
<1>2. mode[p] # "closed"
  BY DEF IInv, Ownership
<1>3. Ownership' /\ \A q \in Processes : q # p => OpeningInv(q)' /\ OpenInv(q)'
  BY <1>2, OthersKeep DEF IInv, TypeOK
<1>4. step'[p] = "partial"
  BY DEF IInv, TypeOK
<1>5. OpeningInv(p)'
  BY <1>4 DEF IInv, OpeningInv, Header
<1>6. OpenInv(p)'
  BY <1>4 DEF IInv, OpenInv, Header, Admits, PhaseAt, PhaseOf, Occurs
<1>7. FileInv' /\ JournalLegal' /\ AckedIsStable'
  BY DEF IInv, FileInv, JournalLegal, AckedIsStable
<1> QED BY <1>1, <1>3, <1>5, <1>6, <1>7 DEF IInv

LEMMA WriteAllInv ==
  ASSUME IInv, NEW p \in Processes, WriteAll(p)
  PROVE  IInv'
<1> USE DEF WriteAll, memory
<1>1. mode[p] \in {"opening", "open"} /\ step'[p] = "written"
  BY DEF IInv, TypeOK, Ownership
<1>2. Ownership' /\ \A q \in Processes : q # p => OpeningInv(q)' /\ OpenInv(q)'
  BY <1>1, OthersKeep DEF IInv, TypeOK
<1>3. /\ pending[p] \in Record /\ journal \in Seq(Record)
      /\ Len(journal) < MaxRecords /\ exists
  <2>1. CASE mode[p] = "opening"
    BY <2>1, HeaderIsRecord, LedgerAssumption DEF IInv, TypeOK, OpeningInv
  <2>2. CASE mode[p] = "open"
    BY <2>2 DEF IInv, TypeOK, OpenInv, FileInv
  <2> QED BY <1>1, <2>1, <2>2
<1>4. /\ journal' \in Seq(Record) /\ Len(journal') = Len(journal) + 1
      /\ \A i \in 1..Len(journal) : journal'[i] = journal[i]
  BY <1>3
<1>5. TypeOK'
  <2>1. Len(journal) \in Nat
    BY <1>3
  <2>2. Len(journal') <= MaxRecords
    BY <2>1, <1>3, <1>4, LedgerAssumption
  <2>3. torn' \in BOOLEAN /\ step' \in [Processes ->
          {"idle", "checked", "partial", "written", "synced", "rooted"}]
    BY DEF IInv, TypeOK
  <2> QED BY <1>4, <2>2, <2>3 DEF IInv, TypeOK
<1>6. OpeningInv(p)'
  <2>1. CASE mode[p] = "opening"
    <3>1. journal = <<>> /\ pending[p] = Header(p) /\ prefix[p] = <<>> /\ acked = {}
      BY <2>1 DEF IInv, OpeningInv
    <3>2. journal' = <<Header(p)>>
      BY <3>1
    <3> QED BY <1>1, <1>3, <3>1, <3>2 DEF OpeningInv, Header
  <2> QED BY <2>1 DEF OpeningInv
<1>7. OpenInv(p)'
  <2>1. CASE mode[p] = "open"
    <3>1. /\ linked /\ Len(journal) > 0 /\ journal[1] = Header(p)
          /\ Len(view[p]) > 0 /\ view[p][1] = Header(p)
          /\ \A r \in acked : \E i \in 1..Len(view[p]) : view[p][i] = r
          /\ journal = prefix[p] /\ prefix[p] = view[p]
      BY <2>1 DEF IInv, OpenInv
    <3>2. Len(journal') > 0 /\ journal'[1] = Header(p)
      BY <1>3, <1>4, <3>1
    <3> QED BY <1>1, <1>3, <3>1, <3>2 DEF OpenInv, Header
  <2> QED BY <2>1 DEF OpenInv
<1>8. FileInv' /\ AckedIsStable'
  BY <1>3, <1>4 DEF IInv, TypeOK, FileInv, AckedIsStable
<1>9. JournalLegal'
  <2>1. CASE mode[p] = "opening"
    <3>1. journal = <<>> /\ pending[p] = Header(p) /\ Header(p).ev = "header"
      BY <2>1, HeaderIsRecord DEF IInv, OpeningInv
    <3>2. Len(journal') = 1 /\ journal'[1].ev = "header"
      BY <3>1, <1>3
    <3> QED BY <3>2 DEF JournalLegal, Legal
  <2>2. CASE mode[p] = "open"
    <3>1. Legal(journal) /\ journal # <<>> /\ Admits(journal, Len(journal), pending[p])
      BY <2>2 DEF IInv, OpenInv, JournalLegal
    <3> QED BY <3>1, <1>3, LegalAppend DEF JournalLegal
  <2> QED BY <1>1, <2>1, <2>2
<1> QED BY <1>2, <1>5, <1>6, <1>7, <1>8, <1>9 DEF IInv

LEMMA FsyncInv ==
  ASSUME IInv, NEW p \in Processes, Fsync(p)
  PROVE  IInv'
<1> USE DEF Fsync, memory
<1>1. TypeOK'
  BY DEF IInv, TypeOK
<1>2. mode[p] # "closed" /\ step'[p] = "synced"
  BY DEF IInv, TypeOK, Ownership
<1>3. Ownership' /\ \A q \in Processes : q # p => OpeningInv(q)' /\ OpenInv(q)'
  BY <1>2, OthersKeep DEF IInv, TypeOK
<1>4. OpeningInv(p)' /\ OpenInv(p)'
  BY <1>2 DEF IInv, OpeningInv, OpenInv, Header
<1>5. stable' = Len(journal) /\ Len(journal) \in Nat /\ stable \in Nat /\ stable <= Len(journal)
  BY DEF IInv, TypeOK, FileInv
<1>6. \A r \in acked : \E i \in 1..Len(journal) : journal[i] = r
  BY <1>5 DEF IInv, AckedIsStable
<1>7. FileInv' /\ JournalLegal' /\ AckedIsStable'
  BY <1>5, <1>6 DEF IInv, FileInv, JournalLegal, AckedIsStable
<1> QED BY <1>1, <1>3, <1>4, <1>7 DEF IInv

LEMMA FsyncRootInv ==
  ASSUME IInv, NEW p \in Processes, FsyncRoot(p)
  PROVE  IInv'
<1> USE DEF FsyncRoot, memory
<1>1. TypeOK'
  BY DEF IInv, TypeOK
<1>2. mode[p] = "opening" /\ step'[p] = "rooted" /\ exists
  BY DEF IInv, TypeOK, OpeningInv
<1>3. Ownership' /\ \A q \in Processes : q # p => OpeningInv(q)' /\ OpenInv(q)'
  BY <1>2, OthersKeep DEF IInv, TypeOK
<1>4. OpeningInv(p)' /\ OpenInv(p)'
  BY <1>2 DEF IInv, OpeningInv, OpenInv, Header
<1>5. FileInv' /\ JournalLegal' /\ AckedIsStable'
  BY <1>2 DEF IInv, TypeOK, FileInv, JournalLegal, AckedIsStable
<1> QED BY <1>1, <1>3, <1>4, <1>5 DEF IInv

\* What an append that is ready to return has left in the file.
LEMMA AppendedFacts ==
  ASSUME IInv, NEW p \in Processes, Appended(p)
  PROVE  /\ mode[p] \in {"opening", "open"} /\ step[p] # "idle" /\ linked
         /\ stable = Len(journal) /\ Len(journal) > 0
         /\ journal[1] = Header(p) /\ journal[Len(journal)] = pending[p]
         /\ pending[p] \in Record
         /\ \A r \in acked : \E i \in 1..Len(journal) : journal[i] = r
<1>1. mode[p] \in {"opening", "open"}
  BY DEF IInv, TypeOK, Ownership, Appended
<1>2. CASE mode[p] = "opening"
  BY <1>2, HeaderIsRecord DEF IInv, OpeningInv, Appended
<1>3. CASE mode[p] = "open"
  <2>1. step[p] = "synced" /\ journal = Append(prefix[p], pending[p])
    BY <1>3 DEF Appended
  <2>2. prefix[p] \in Seq(Record) /\ pending[p] \in Record /\ stable = Len(journal)
    BY <1>3, <2>1 DEF IInv, TypeOK, OpenInv
  <2>3. journal[Len(journal)] = pending[p]
    BY <2>1, <2>2
  <2>4. \A r \in acked : \E i \in 1..Len(journal) : journal[i] = r
    BY <2>2 DEF IInv, AckedIsStable
  <2> QED BY <1>3, <2>1, <2>2, <2>3, <2>4 DEF IInv, OpenInv
<1> QED BY <1>1, <1>2, <1>3

LEMMA AcknowledgeInv ==
  ASSUME IInv, NEW p \in Processes, Acknowledge(p)
  PROVE  IInv'
<1> USE DEF Acknowledge, file
<1>1. /\ mode[p] \in {"opening", "open"} /\ linked
      /\ stable = Len(journal) /\ Len(journal) > 0
      /\ journal[1] = Header(p) /\ journal[Len(journal)] = pending[p]
      /\ pending[p] \in Record
      /\ \A r \in acked : \E i \in 1..Len(journal) : journal[i] = r
  BY AppendedFacts
<1>2. TypeOK'
  BY <1>1 DEF IInv, TypeOK
<1>3. Ownership' /\ \A q \in Processes : q # p => OpeningInv(q)' /\ OpenInv(q)'
  BY <1>1, OthersKeep DEF IInv, TypeOK
<1>4. mode'[p] = "open" /\ step'[p] = "idle" /\ view'[p] = journal
  BY DEF IInv, TypeOK
<1>5. \A r \in acked' : \E i \in 1..Len(journal) : journal[i] = r
  BY <1>1 DEF IInv, TypeOK
<1>6. OpeningInv(p)' /\ OpenInv(p)'
  BY <1>1, <1>4, <1>5 DEF OpeningInv, OpenInv, Header
<1>7. FileInv' /\ JournalLegal' /\ AckedIsStable'
  BY <1>1, <1>5 DEF IInv, FileInv, JournalLegal, AckedIsStable
<1> QED BY <1>2, <1>3, <1>6, <1>7 DEF IInv

\* A failed append leaves an open instance open, with its memory as it was.
LEMMA FailureInv ==
  ASSUME IInv, NEW p \in Processes, AttestFails(p) \/ AppendFails(p)
  PROVE  IInv'
<1>1. mode[p] \in {"opening", "open"} /\ UNCHANGED <<file, acked, opens>>
  BY AppendedFacts DEF AttestFails, AppendFails, IInv, TypeOK, Ownership
<1>2. CASE mode[p] = "opening"
  BY <1>1, <1>2, DiscardInv DEF AttestFails, AppendFails
<1>3. CASE mode[p] = "open"
  <2>1. /\ step' = [step EXCEPT ![p] = "idle"]
        /\ pending' = [pending EXCEPT ![p] = None]
        /\ prefix' = prefix \/ prefix' = [prefix EXCEPT ![p] = journal]
        /\ UNCHANGED <<owner, mode, view>>
    BY <1>3 DEF AttestFails, AppendFails, memory
  <2>2. TypeOK'
    BY <1>1, <2>1 DEF IInv, TypeOK, file
  <2>3. Ownership' /\ \A q \in Processes : q # p => OpeningInv(q)' /\ OpenInv(q)'
    BY <1>3, <2>1, OthersKeep DEF IInv, TypeOK
  <2>4. OpeningInv(p)' /\ OpenInv(p)'
    BY <1>1, <1>3, <2>1 DEF IInv, TypeOK, OpeningInv, OpenInv, Header, file
  <2>5. FileInv' /\ JournalLegal' /\ AckedIsStable'
    BY <1>1 DEF IInv, FileInv, JournalLegal, AckedIsStable, file
  <2> QED BY <2>2, <2>3, <2>4, <2>5 DEF IInv
<1> QED BY <1>1, <1>2, <1>3

LEMMA PowerLossInv ==
  ASSUME IInv, PowerLoss
  PROVE  IInv'
<1>1. /\ owner' = None /\ acked' = acked /\ opens' = opens
      /\ \A q \in Processes :
           mode'[q] = "closed" /\ step'[q] = "idle" /\ prefix'[q] = <<>>
  BY DEF PowerLoss
<1>2. Ownership' /\ \A q \in Processes : OpeningInv(q)' /\ OpenInv(q)'
  BY <1>1 DEF Ownership, OpeningInv, OpenInv
<1>3. CASE \E n \in stable..Len(journal) :
             /\ journal' = SubSeq(journal, 1, n)
             /\ torn' \in IF n < Len(journal) THEN BOOLEAN ELSE {FALSE, torn}
             /\ stable' = n
             /\ exists' = exists /\ linked' = exists
  <2>1. PICK n \in stable..Len(journal) :
             /\ journal' = SubSeq(journal, 1, n)
             /\ torn' \in IF n < Len(journal) THEN BOOLEAN ELSE {FALSE, torn}
             /\ stable' = n
             /\ exists' = exists /\ linked' = exists
    BY <1>3
  <2>2. /\ journal \in Seq(Record) /\ stable \in Nat /\ n \in 0..Len(journal)
        /\ Len(journal) <= MaxRecords
    BY DEF IInv, TypeOK
  <2>3. /\ journal' \in Seq(Record) /\ Len(journal') = n
        /\ \A i \in 1..n : journal'[i] = journal[i]
    BY <2>1, <2>2
  <2>4. TypeOK'
    <3>1. torn' \in BOOLEAN /\ exists' \in BOOLEAN /\ linked' \in BOOLEAN
      BY <2>1 DEF IInv, TypeOK
    <3>2. n \in Nat /\ n <= MaxRecords
      BY <2>2, LedgerAssumption
    <3> QED BY <1>1, <2>1, <2>3, <3>1, <3>2 DEF IInv, TypeOK, PowerLoss
  <2>5. JournalLegal'
    BY <2>1, <2>2, LegalPrefix DEF IInv, JournalLegal
  <2>6. FileInv' /\ AckedIsStable'
    BY <1>1, <2>1, <2>2, <2>3 DEF IInv, FileInv, AckedIsStable
  <2> QED BY <1>2, <2>4, <2>5, <2>6 DEF IInv
<1>4. CASE /\ ~linked
           /\ journal' = <<>> /\ torn' = FALSE /\ exists' = FALSE
           /\ stable' = 0 /\ linked' = FALSE
  <2>1. acked = {}
    BY <1>4 DEF IInv, AckedIsStable
  <2>2. TypeOK'
    <3>1. journal' \in Seq(Record) /\ Len(journal') <= MaxRecords
      BY <1>4, LedgerAssumption
    <3> QED BY <1>1, <1>4, <3>1 DEF IInv, TypeOK, PowerLoss
  <2>3. FileInv' /\ JournalLegal' /\ AckedIsStable'
    BY <1>1, <1>4, <2>1 DEF FileInv, JournalLegal, Legal, AckedIsStable
  <2> QED BY <1>2, <2>2, <2>3 DEF IInv
<1> QED BY <1>3, <1>4 DEF PowerLoss

LEMMA StutterInv == IInv /\ UNCHANGED vars => IInv'
<1> SUFFICES ASSUME IInv, UNCHANGED vars PROVE IInv'
  OBVIOUS
<1> USE DEF vars
<1>1. TypeOK' /\ Ownership' /\ FileInv' /\ JournalLegal' /\ AckedIsStable'
  BY DEF IInv, TypeOK, Ownership, FileInv, JournalLegal, AckedIsStable
<1>2. \A p \in Processes : OpeningInv(p)' /\ OpenInv(p)'
  BY DEF IInv, OpeningInv, OpenInv, Header
<1> QED BY <1>1, <1>2 DEF IInv

LEMMA NextInv == IInv /\ [Next]_vars => IInv'
<1> SUFFICES ASSUME IInv, Next PROVE IInv'
  BY StutterInv
<1>1. ASSUME NEW p \in Processes, Acquire(p) PROVE IInv'
  BY <1>1, AcquireInv
<1>2. ASSUME NEW p \in Processes, OpenFresh(p) PROVE IInv'
  BY <1>2, OpenFreshInv
<1>3. ASSUME NEW p \in Processes, OpenReplay(p) PROVE IInv'
  BY <1>3, OpenReplayInv
<1>4. ASSUME NEW p \in Processes, OpenReject(p) \/ Close(p) \/ Crash(p) PROVE IInv'
  <2>1. mode[p] # "closed" /\ Discard(p) /\ UNCHANGED <<file, acked, opens>>
    BY <1>4 DEF OpenReject, Close, Crash
  <2> QED BY <2>1, DiscardInv
<1>5. ASSUME NEW p \in Processes, PlanAttempt(p) \/ MarkAttempt(p) PROVE IInv'
  BY <1>5, CallerInv
<1>6. ASSUME NEW p \in Processes, WritePart(p) PROVE IInv'
  BY <1>6, WritePartInv
<1>7. ASSUME NEW p \in Processes, WriteAll(p) PROVE IInv'
  BY <1>7, WriteAllInv
<1>8. ASSUME NEW p \in Processes, Fsync(p) PROVE IInv'
  BY <1>8, FsyncInv
<1>9. ASSUME NEW p \in Processes, FsyncRoot(p) PROVE IInv'
  BY <1>9, FsyncRootInv
<1>10. ASSUME NEW p \in Processes, Acknowledge(p) PROVE IInv'
  BY <1>10, AcknowledgeInv
<1>11. ASSUME NEW p \in Processes, AttestFails(p) \/ AppendFails(p) PROVE IInv'
  BY <1>11, FailureInv
<1>12. CASE PowerLoss
  BY <1>12, PowerLossInv
<1> QED
  BY <1>1, <1>2, <1>3, <1>4, <1>5, <1>6, <1>7, <1>8, <1>9, <1>10, <1>11, <1>12 DEF Next

----------------------------------------------------------------------------
(* The theorems.                                                           *)

LEMMA Invariance == Spec => []IInv
BY InitInv, NextInv, PTL DEF Spec

\* The types of the specification, and the limit on the size of the journal.
THEOREM TypeCorrect == Spec => []TypeOK
<1>1. IInv => TypeOK
  BY DEF IInv
<1> QED BY <1>1, Invariance, PTL

\* The complete records of the journal always are a history that _replay
\* accepts.
THEOREM JournalAlwaysLegal == Spec => []JournalLegal
<1>1. IInv => JournalLegal
  BY DEF IInv
<1> QED BY <1>1, Invariance, PTL

\* What an append returned for survives every power loss: _append's fsync,
\* the root fsync of a creation and that of the lock file suffice.
THEOREM AckedAlwaysStable == Spec => []AckedIsStable
<1>1. IInv => AckedIsStable
  BY DEF IInv
<1> QED BY <1>1, Invariance, PTL

\* No logical arm is ever permitted to call its provider twice.
THEOREM OneAttempt == Spec => []OneAttemptPerArm
<1>1. IInv => OneAttemptPerArm
  <2> SUFFICES ASSUME IInv, NEW r \in acked, NEW s \in acked,
                      r.ev = "planned", s.ev = "planned", r.key = s.key
               PROVE  r = s
    BY DEF OneAttemptPerArm
  <2>1. journal \in Seq(Record) /\ stable \in Nat /\ stable <= Len(journal) /\ Legal(journal)
    BY DEF IInv, TypeOK, JournalLegal, AckedIsStable
  <2>2. PICK m \in 1..Len(journal) : journal[m] = r
    BY <2>1 DEF IInv, AckedIsStable
  <2>3. PICK n \in 1..Len(journal) : journal[n] = s
    BY <2>1 DEF IInv, AckedIsStable
  <2>4. ASSUME NEW u \in 1..Len(journal), NEW v \in 1..Len(journal), u < v,
               journal[u].ev = "planned", journal[v].ev = "planned"
        PROVE  journal[u].key # journal[v].key
    <3>1. v # 1 /\ u \in 1..(v - 1) /\ journal[v].ev # "header"
      BY <2>4
    <3>2. Admits(journal, v - 1, journal[v])
      BY <3>1 DEF Legal, JournalLegal, IInv
    <3>3. "planned" \notin DOMAIN Expected
      BY DEF Expected
    <3> QED BY <2>4, <3>1, <3>2, <3>3 DEF Admits
  <2> QED BY <2>1, <2>2, <2>3, <2>4
<1> QED BY <1>1, Invariance, PTL

\* An open instance's audit reports every attempt ever permitted.
THEOREM NothingForgotten == Spec => []NoForgottenAttempt
<1>1. IInv => NoForgottenAttempt
  BY DEF IInv, OpenInv, NoForgottenAttempt
<1> QED BY <1>1, Invariance, PTL

\* Two configurations never share a journal.
THEOREM HistoryBound == Spec => []BoundHistory
<1>1. IInv => BoundHistory
  BY DEF IInv, OpenInv, BoundHistory
<1> QED BY <1>1, Invariance, PTL

\* An instance whose memory and file disagree acknowledges nothing more.
THEOREM FailsStop == Spec => FailStop
<1>1. ASSUME IInv, [Next]_vars, NEW p \in Processes, Poisoned(p)
      PROVE  Poisoned(p)' \/ mode'[p] = "closed"
  <2>1. mode[p] = "open" /\ step[p] = "idle" /\ ~InSync(p)
    BY <1>1 DEF Poisoned
  <2>2. /\ owner # None
        /\ \A q \in Processes : q # p => mode[q] = "closed" /\ step[q] = "idle"
    BY <1>1, <2>1, Alone, LedgerAssumption
  <2>3. CASE UNCHANGED vars
    BY <2>3, <2>1 DEF vars, Poisoned, InSync
  <2>4. CASE Close(p) \/ Crash(p)
    BY <1>1, <2>4 DEF Close, Crash, Discard, IInv, TypeOK
  <2>5. CASE PowerLoss
    BY <2>5 DEF PowerLoss
  <2>6. ASSUME NEW q \in Processes,
               \/ Acquire(q) \/ OpenFresh(q) \/ OpenReplay(q) \/ OpenReject(q)
               \/ PlanAttempt(q) \/ MarkAttempt(q)
               \/ WritePart(q) \/ WriteAll(q) \/ Fsync(q) \/ FsyncRoot(q)
               \/ Acknowledge(q) \/ AttestFails(q) \/ AppendFails(q)
               \/ (q # p /\ (Close(q) \/ Crash(q)))
        PROVE  FALSE
    <3>1. ~Acquire(q)
      BY <2>2 DEF Acquire
    <3>2. ~OpenFresh(q) /\ ~OpenReplay(q) /\ ~OpenReject(q)
      BY <2>1, <2>2 DEF OpenFresh, OpenReplay, OpenReject
    <3>3. ~PlanAttempt(q) /\ ~MarkAttempt(q)
      BY <2>1, <2>2 DEF PlanAttempt, MarkAttempt, Begin
    <3>4. ~WritePart(q) /\ ~WriteAll(q) /\ ~Fsync(q) /\ ~FsyncRoot(q) /\ ~AppendFails(q)
      BY <2>1, <2>2 DEF WritePart, WriteAll, Fsync, FsyncRoot, AppendFails
    <3>5. ~Acknowledge(q) /\ ~AttestFails(q)
      BY <2>1, <2>2 DEF Acknowledge, AttestFails, Appended
    <3>6. q # p => ~Close(q) /\ ~Crash(q)
      BY <2>2 DEF Close, Crash
    <3> QED BY <2>6, <3>1, <3>2, <3>3, <3>4, <3>5, <3>6
  <2> QED BY <1>1, <2>3, <2>4, <2>5, <2>6 DEF Next
<1>2. IInv /\ [Next]_vars
        => [\A p \in Processes : Poisoned(p) => Poisoned(p)' \/ mode'[p] = "closed"]_vars
  BY <1>1
<1> QED BY <1>2, Invariance, PTL DEF Spec, FailStop

----------------------------------------------------------------------------
(* The phase of an attempt, by the set of events it had.                   *)

\* The events an attempt had in the first n records of j.
Had(j, n, id) == {e \in Events : Occurs(j, n, id, {e})}

\* The events of an attempt that were acknowledged.
Told(id) == {e \in Events : \E r \in acked : r.id = id /\ r.ev = e}

PhaseBy(S) ==
  IF "completed" \in S THEN "completed"
  ELSE IF S \cap Failures # {} THEN "failed"
  ELSE IF "dispatched" \in S THEN "dispatched"
  ELSE IF "planned" \in S THEN "planned"
  ELSE "unknown"

\* Events that one attempt of a legal journal may have had.
Coherent(S) ==
  /\ S \subseteq Events
  /\ "completed" \in S => "dispatched" \in S /\ S \cap Failures = {}
  /\ S \cap ({"dispatched"} \cup Terminal) # {} => "planned" \in S

LEMMA PhaseOfHad ==
  ASSUME NEW j, NEW n, NEW id PROVE PhaseAt(j, n, id) = PhaseBy(Had(j, n, id))
<1>1. \A e \in Events : e \in Had(j, n, id) <=> Occurs(j, n, id, {e})
  BY DEF Had
<1>2. Had(j, n, id) \cap Failures # {} <=> Occurs(j, n, id, Failures)
  BY DEF Had, Occurs, Failures, Events, Terminal
<1>3. {"completed", "dispatched", "planned"} \subseteq Events
  BY DEF Events, Terminal
<1>. QED  BY <1>1, <1>2, <1>3, Zenon DEF PhaseAt, PhaseOf, PhaseBy

LEMMA PhaseOfTold == \A id : ToldPhase(id) = PhaseBy(Told(id))
<1>. SUFFICES ASSUME NEW id PROVE ToldPhase(id) = PhaseBy(Told(id))
  OBVIOUS
<1>1. \A e \in Events : e \in Told(id) <=> \E r \in acked : r.id = id /\ r.ev \in {e}
  BY DEF Told
<1>2. Told(id) \cap Failures # {} <=> \E r \in acked : r.id = id /\ r.ev \in Failures
  BY DEF Told, Failures, Events, Terminal
<1>3. {"completed", "dispatched", "planned"} \subseteq Events
  BY DEF Events, Terminal
<1>. QED  BY <1>1, <1>2, <1>3, Zenon DEF ToldPhase, PhaseOf, PhaseBy

\* A transition in a legal journal left the phase it expects.
LEMMA TransitionLegal ==
  ASSUME NEW j \in Seq(Record), Legal(j), NEW k \in 1..Len(j),
         j[k].ev \notin {"header", "planned"}
  PROVE  /\ k # 1 /\ j[k].ev \in DOMAIN Expected
         /\ PhaseBy(Had(j, k - 1, j[k].id)) = Expected[j[k].ev]
<1>1. k # 1
  BY DEF Legal
<1>2. Admits(j, k - 1, j[k])
  BY <1>1 DEF Legal
<1>. QED  BY <1>1, <1>2, PhaseOfHad DEF Admits

\* A logical arm and an attempt are planned once.
LEMMA PlannedOnce ==
  ASSUME NEW j \in Seq(Record), Legal(j), NEW k \in 1..Len(j), NEW m \in 1..Len(j),
         j[k].ev = "planned", j[m].ev = "planned",
         j[k].id = j[m].id \/ j[k].key = j[m].key
  PROVE  k = m
<1>1. ASSUME NEW u \in 1..Len(j), NEW v \in 1..Len(j), u < v,
             j[u].ev = "planned", j[v].ev = "planned"
      PROVE  j[u].id # j[v].id /\ j[u].key # j[v].key
  <2>1. v # 1 /\ u \in 1..(v - 1)
    BY <1>1
  <2>2. Admits(j, v - 1, j[v])
    BY <2>1 DEF Legal
  <2>. QED  BY <1>1, <2>1, <2>2 DEF Admits, Expected
<1>. QED  BY <1>1

LEMMA HadGrows ==
  ASSUME NEW j, NEW m \in Nat, NEW n \in Nat, m <= n, NEW id
  PROVE  Had(j, m, id) \subseteq Had(j, n, id)
  BY DEF Had, Occurs

LEMMA HadIsCoherent ==
  ASSUME NEW j \in Seq(Record), Legal(j), NEW n \in 0..Len(j), NEW id
  PROVE  Coherent(Had(j, n, id))
<1>1. ASSUME NEW e \in {"dispatched"} \cup Terminal, e \in Had(j, n, id)
      PROVE  \E k \in 1..n : /\ j[k].id = id /\ j[k].ev = e /\ k \in 1..Len(j) /\ k - 1 \in Nat
                             /\ PhaseBy(Had(j, k - 1, id)) = Expected[e]
                             /\ Had(j, k - 1, id) \subseteq Had(j, n, id)
  <2>1. PICK k \in 1..n : j[k].id = id /\ j[k].ev = e
    BY <1>1 DEF Had, Occurs
  <2>2. k \in 1..Len(j) /\ k - 1 \in Nat /\ k - 1 <= n /\ n \in Nat
    OBVIOUS
  <2>3. e \notin {"header", "planned"}
    BY DEF Terminal, Failures
  <2>4. PhaseBy(Had(j, k - 1, id)) = Expected[e]
    BY <2>1, <2>2, <2>3, TransitionLegal
  <2>5. Had(j, k - 1, id) \subseteq Had(j, n, id)
    BY <2>2, HadGrows
  <2>. QED  BY <2>1, <2>2, <2>4, <2>5
<1>2. ASSUME Had(j, n, id) \cap ({"dispatched"} \cup Terminal) # {}
      PROVE  "planned" \in Had(j, n, id)
  <2>1. ASSUME "dispatched" \in Had(j, n, id) PROVE "planned" \in Had(j, n, id)
    BY <1>1, <2>1 DEF Expected, PhaseBy
  <2>2. PICK e \in {"dispatched"} \cup Terminal : e \in Had(j, n, id)
    BY <1>2
  <2>3. PICK k \in 1..n : /\ PhaseBy(Had(j, k - 1, id)) = Expected[e]
                          /\ Had(j, k - 1, id) \subseteq Had(j, n, id)
    BY <1>1, <2>2
  <2>4. Expected[e] \in {"planned", "dispatched"}
    BY DEF Expected, Terminal, Failures
  <2>5. Expected[e] \in Had(j, n, id)
    BY <2>3, <2>4 DEF PhaseBy
  <2>. QED  BY <2>1, <2>4, <2>5
<1>3. ASSUME "completed" \in Had(j, n, id)
      PROVE  "dispatched" \in Had(j, n, id) /\ Had(j, n, id) \cap Failures = {}
  <2>1. PICK k \in 1..n : /\ j[k].id = id /\ j[k].ev = "completed"
                          /\ k \in 1..Len(j) /\ k - 1 \in Nat
                          /\ PhaseBy(Had(j, k - 1, id)) = "dispatched"
                          /\ Had(j, k - 1, id) \subseteq Had(j, n, id)
    BY <1>1, <1>3 DEF Terminal, Expected
  <2>2. "dispatched" \in Had(j, k - 1, id) /\ Had(j, k - 1, id) \cap Failures = {}
    BY <2>1 DEF PhaseBy
  <2>3. ASSUME NEW e \in Failures, e \in Had(j, n, id) PROVE FALSE
    <3>1. PICK m \in 1..n : /\ j[m].id = id /\ j[m].ev = e /\ m - 1 \in Nat
                            /\ PhaseBy(Had(j, m - 1, id)) = Expected[e]
      BY <1>1, <2>3 DEF Terminal
    <3>2. m # k /\ e \in Events /\ "completed" \in Events
      BY <2>1, <3>1 DEF Failures, Events, Terminal
    <3>3. CASE m < k
      <4>1. e \in Had(j, k - 1, id)
        BY <3>1, <3>2, <3>3 DEF Had, Occurs
      <4>. QED  BY <2>2, <4>1
    <3>4. CASE k < m
      <4>1. "completed" \in Had(j, m - 1, id)
        BY <2>1, <3>1, <3>2, <3>4 DEF Had, Occurs
      <4>2. PhaseBy(Had(j, m - 1, id)) = "completed"
        BY <4>1 DEF PhaseBy
      <4>. QED  BY <3>1, <4>2 DEF Expected, Failures
    <3>. QED  BY <3>2, <3>3, <3>4
  <2>. QED  BY <2>1, <2>2, <2>3
<1>4. Had(j, n, id) \subseteq Events
  BY DEF Had
<1>. QED  BY <1>2, <1>3, <1>4 DEF Coherent

\* More events lead further.
LEMMA PhasesReach ==
  ASSUME NEW S, NEW T, S \subseteq T, Coherent(T)
  PROVE  Abstract!Reaches(PhaseBy(S), PhaseBy(T))
<1>1. /\ Abstract!After("unknown") = {"planned"}
      /\ Abstract!After("planned") = {"dispatched", "failed"}
      /\ Abstract!After("dispatched") = {"completed", "failed"}
  BY DEF Abstract!After
<1>2. PhaseBy(S) \in {"unknown", "planned", "dispatched", "completed", "failed"}
  BY DEF PhaseBy
<1>3. PhaseBy(T) \in {"unknown", "planned", "dispatched", "completed", "failed"}
  BY DEF PhaseBy
<1>4. CASE PhaseBy(S) = "unknown"
  BY <1>1, <1>3, <1>4 DEF Abstract!Reaches
<1>5. CASE PhaseBy(S) = "planned"
  <2>1. PhaseBy(T) # "unknown"
    BY <1>5 DEF PhaseBy
  <2>. QED  BY <1>1, <1>3, <1>5, <2>1 DEF Abstract!Reaches
<1>6. CASE PhaseBy(S) = "dispatched"
  <2>1. PhaseBy(T) \notin {"unknown", "planned"}
    BY <1>6 DEF PhaseBy
  <2>. QED  BY <1>1, <1>3, <1>6, <2>1 DEF Abstract!Reaches
<1>7. CASE PhaseBy(S) \in {"completed", "failed"}
  <2>1. PhaseBy(T) = PhaseBy(S)
    BY <1>7 DEF PhaseBy, Coherent
  <2>. QED  BY <2>1 DEF Abstract!Reaches
<1>. QED  BY <1>2, <1>4, <1>5, <1>6, <1>7

\* An admitted event takes an attempt one phase on; it makes up for the events
\* nobody was told.
LEMMA PhaseAdvances ==
  ASSUME NEW S, Coherent(S), NEW e,
         \/ e = "planned" /\ "planned" \notin S
         \/ e \in DOMAIN Expected /\ PhaseBy(S) = Expected[e]
  PROVE  /\ PhaseBy(S \cup {e}) \in Abstract!After(PhaseBy(S))
         /\ \A T : T \subseteq S \cup {e} => PhaseBy(T \cup {e}) = PhaseBy(S \cup {e})
<1>1. /\ Abstract!After("unknown") = {"planned"}
      /\ Abstract!After("planned") = {"dispatched", "failed"}
      /\ Abstract!After("dispatched") = {"completed", "failed"}
  BY DEF Abstract!After
<1>2. CASE e = "planned" /\ "planned" \notin S
  <2>1. S \cap ({"dispatched"} \cup Terminal) = {}
    BY <1>2 DEF Coherent
  <2>. QED  BY <1>1, <1>2, <2>1 DEF PhaseBy, Terminal, Failures
<1>3. CASE e = "dispatched" /\ PhaseBy(S) = "planned"
  BY <1>1, <1>3 DEF PhaseBy, Failures
<1>4. CASE e = "completed" /\ PhaseBy(S) = "dispatched"
  BY <1>1, <1>4 DEF PhaseBy, Failures
<1>5. CASE e \in Failures /\ PhaseBy(S) \in {"planned", "dispatched"}
  BY <1>1, <1>5 DEF PhaseBy, Failures
<1>. QED  BY <1>2, <1>3, <1>4, <1>5 DEF Expected, Failures

LEMMA HadAppend ==
  ASSUME NEW j \in Seq(Record), NEW r \in Record, NEW id
  PROVE  LET k == Append(j, r)
         IN  Had(k, Len(k), id) = Had(j, Len(j), id) \cup (IF r.id = id THEN {r.ev} ELSE {})
<1>. DEFINE k == Append(j, r)
<1>1. Len(k) = Len(j) + 1 /\ k[Len(k)] = r /\ Len(j) \in Nat
      /\ \A i \in 1..Len(j) : k[i] = j[i]
  OBVIOUS
<1>2. r.ev \in Events
  BY DEF Record
<1>. HIDE DEF k
<1>3. ASSUME NEW e \in Events
      PROVE  Occurs(k, Len(k), id, {e}) <=> Occurs(j, Len(j), id, {e}) \/ (r.id = id /\ r.ev = e)
  BY <1>1 DEF Occurs
<1>. QED  BY <1>2, <1>3 DEF Had, k

LEMMA HadPrefix ==
  ASSUME NEW j \in Seq(Record), NEW n \in 0..Len(j), NEW id
  PROVE  Had(SubSeq(j, 1, n), n, id) = Had(j, n, id)
<1>1. \A i \in 1..n : SubSeq(j, 1, n)[i] = j[i]
  OBVIOUS
<1>. QED  BY <1>1 DEF Had, Occurs

----------------------------------------------------------------------------
(* The attempt of a logical arm.                                           *)

LEMMA AttemptIs ==
  ASSUME NEW j \in Seq(Record), Legal(j), NEW k \in 1..Len(j), j[k].ev = "planned"
  PROVE  AttemptOf(j, j[k].key) = j[k].id
<1>. DEFINE m == CHOOSE i \in 1..Len(j) : j[i].ev = "planned" /\ j[i].key = j[k].key
<1>1. m \in 1..Len(j) /\ j[m].ev = "planned" /\ j[m].key = j[k].key
  OBVIOUS
<1>2. m = k
  BY <1>1, PlannedOnce
<1>. QED  BY <1>2 DEF AttemptOf

\* An arm without a planned record has no attempt.
LEMMA AttemptNone ==
  ASSUME NEW j, NEW a, \A k \in 1..Len(j) : ~(j[k].ev = "planned" /\ j[k].key = a)
  PROVE  AttemptOf(j, a) = None
  BY DEF AttemptOf

\* What plan_attempt writes names an arm and an attempt, in the file and on its
\* way there.
Planning(r) == r.ev = "planned" => r.id \in Ids /\ r.key \in Arms

PlannedInv ==
  /\ \A k \in 1..Len(journal) : Planning(journal[k])
  /\ \A p \in Processes : step[p] # "idle" => Planning(pending[p])

RInv == IInv /\ PlannedInv

LEMMA PlannedStep == ASSUME RInv, [Next]_vars PROVE PlannedInv'
<1>. USE DEF RInv, PlannedInv
<1>1. journal \in Seq(Record) /\ pending \in [Processes -> Record \cup {None}]
      /\ stable \in Nat /\ step \in [Processes -> {"idle", "checked", "partial", "written", "synced", "rooted"}]
  BY DEF IInv, TypeOK
<1>2. ASSUME UNCHANGED journal, \A p \in Processes : step'[p] # "idle" => Planning(pending'[p])
      PROVE  PlannedInv'
  BY <1>2
<1>4. ASSUME NEW p \in Processes, OpenFresh(p) PROVE PlannedInv'
  <2>1. Planning(Header(p))
    BY DEF Planning, Header
  <2>2. \A q \in Processes : step'[q] # "idle" => Planning(pending'[q])
    BY <1>1, <1>4, <2>1 DEF OpenFresh
  <2>. QED  BY <1>4, <2>2 DEF OpenFresh
<1>5. ASSUME NEW p \in Processes, PlanAttempt(p) \/ MarkAttempt(p) PROVE PlannedInv'
  <2>1. \E r : Begin(p, r) /\ Planning(r)
    <3>1. ASSUME NEW a \in Arms, NEW i \in Ids
          PROVE  Planning([ev |-> "planned", id |-> i, key |-> a])
      BY DEF Planning
    <3>2. ASSUME NEW e \in DOMAIN Expected, NEW i \in Ids
          PROVE  Planning([ev |-> e, id |-> i, key |-> None])
      BY DEF Planning, Expected
    <3>. QED  BY <1>5, <3>1, <3>2 DEF PlanAttempt, MarkAttempt
  <2>2. PICK r : Begin(p, r) /\ Planning(r)
    BY <2>1
  <2>3. \A q \in Processes : step'[q] # "idle" => Planning(pending'[q])
    BY <1>1, <2>2 DEF Begin
  <2>. QED  BY <2>2, <2>3 DEF Begin, file
<1>6. ASSUME NEW p \in Processes, WriteAll(p) PROVE PlannedInv'
  <2>1. journal' = Append(journal, pending[p]) /\ Planning(pending[p])
    BY <1>6 DEF WriteAll
  <2>2. \A k \in 1..Len(journal') : Planning(journal'[k])
    BY <1>1, <2>1
  <2>3. \A q \in Processes : step'[q] # "idle" => step[q] # "idle" /\ pending'[q] = pending[q]
    BY <1>1, <1>6 DEF WriteAll
  <2>. QED  BY <2>2, <2>3
<1>7. CASE PowerLoss
  <2>1. \A q \in Processes : step'[q] = "idle"
    BY <1>7 DEF PowerLoss
  <2>2. \A k \in 1..Len(journal') : Planning(journal'[k])
    <3>1. CASE journal' = <<>>
      BY <3>1
    <3>2. ASSUME NEW n \in stable..Len(journal), journal' = SubSeq(journal, 1, n)
          PROVE  \A k \in 1..Len(journal') : Planning(journal'[k])
      <4>1. n \in 0..Len(journal) /\ Len(journal') = n
        BY <1>1, <3>2
      <4>2. \A k \in 1..n : journal'[k] = journal[k] /\ k \in 1..Len(journal)
        BY <1>1, <3>2, <4>1
      <4>. QED  BY <4>1, <4>2
    <3>3. journal' = <<>> \/ \E n \in stable..Len(journal) : journal' = SubSeq(journal, 1, n)
      BY <1>7 DEF PowerLoss
    <3>. QED  BY <3>1, <3>2, <3>3
  <2>. QED  BY <2>1, <2>2
<1>8. ASSUME NEW p \in Processes,
             \/ Acquire(p) \/ OpenReplay(p) \/ OpenReject(p) \/ WritePart(p) \/ Fsync(p)
             \/ FsyncRoot(p) \/ Acknowledge(p) \/ AttestFails(p) \/ AppendFails(p)
             \/ Close(p) \/ Crash(p)
      PROVE  PlannedInv'
  <2>1. UNCHANGED journal
    BY <1>8 DEF Acquire, OpenReplay, OpenReject, WritePart, Fsync, FsyncRoot, Acknowledge,
                AttestFails, AppendFails, Close, Crash, file
  <2>2. \A q \in Processes : step'[q] # "idle" => step[q] # "idle" /\ pending'[q] = pending[q]
    BY <1>1, <1>8 DEF Acquire, OpenReplay, OpenReject, WritePart, Fsync, FsyncRoot, Acknowledge,
                AttestFails, AppendFails, Close, Crash, Discard
  <2>. QED  BY <2>1, <2>2
<1>9. CASE UNCHANGED vars
  BY <1>9 DEF vars
<1>. QED  BY <1>4, <1>5, <1>6, <1>7, <1>8, <1>9 DEF Next

LEMMA RInvariance == Spec => []RInv
<1>1. Init => RInv
  <2>1. Init => IInv  BY InitInv
  <2>2. Init => PlannedInv  BY DEF Init, PlannedInv
  <2>. QED  BY <2>1, <2>2 DEF RInv
<1>2. RInv /\ [Next]_vars => RInv'
  BY NextInv, PlannedStep DEF RInv
<1>. QED  BY <1>1, <1>2, PTL DEF Spec

----------------------------------------------------------------------------
(* The ledger implements the accounting of attempts.                       *)

\* The phases of an arm, as recorded and as told.
RecordedOf(j, a) == Phase(j, AttemptOf(j, a))
ToldOf(j, a) == ToldPhase(AttemptOf(j, a))

LEMMA PhasesTyped ==
  ASSUME NEW j, NEW a
  PROVE  RecordedOf(j, a) \in Abstract!Phases /\ ToldOf(j, a) \in Abstract!Phases
  BY PhaseOfHad, PhaseOfTold DEF RecordedOf, ToldOf, Phase, PhaseBy, Abstract!Phases

\* Whoever has no attempt has no phase.
LEMMA NoAttemptUnknown ==
  ASSUME LedgerAssumption, RInv
  PROVE  /\ ToldPhase(None) = "unknown"
         /\ \A n \in 0..Len(journal) : Had(journal, n, None) \subseteq {"header"}
<1>1. journal \in Seq(Record) /\ Legal(journal) /\ stable \in Nat /\ stable <= Len(journal)
  BY DEF RInv, IInv, TypeOK, JournalLegal, AckedIsStable
<1>2. ASSUME NEW n \in 0..Len(journal) PROVE Had(journal, n, None) \subseteq {"header"}
  <2>1. "planned" \notin Had(journal, n, None)
    BY LedgerAssumption DEF RInv, PlannedInv, Planning, Had, Occurs
  <2>2. Coherent(Had(journal, n, None))
    BY <1>1, HadIsCoherent
  <2>. QED  BY <2>1, <2>2 DEF Coherent, Events
<1>3. Told(None) \subseteq Had(journal, Len(journal), None)
  BY <1>1 DEF RInv, IInv, AckedIsStable, Told, Had, Occurs
<1>4. Told(None) \subseteq {"header"}
  BY <1>1, <1>2, <1>3
<1>. QED  BY <1>2, <1>4, PhaseOfTold DEF PhaseBy, Failures

\* Whatever was told of an attempt is among the records on storage.
LEMMA ToldIsHad ==
  ASSUME RInv, NEW id, NEW n \in stable..Len(journal)
  PROVE  Told(id) \subseteq Had(journal, n, id)
  BY DEF RInv, IInv, TypeOK, AckedIsStable, Told, Had, Occurs

\* The attempt of an arm is the id of the record that planned it.
LEMMA AttemptPlanned ==
  ASSUME RInv, NEW a \in Arms
  PROVE  \/ AttemptOf(journal, a) = None
         \/ \E k \in 1..Len(journal) : /\ journal[k].ev = "planned" /\ journal[k].key = a
                                       /\ journal[k].id = AttemptOf(journal, a)
                                       /\ journal[k].id \in Ids
<1>1. journal \in Seq(Record) /\ Legal(journal)
  BY DEF RInv, IInv, TypeOK, JournalLegal
<1>2. CASE \E k \in 1..Len(journal) : journal[k].ev = "planned" /\ journal[k].key = a
  BY <1>1, <1>2, AttemptIs DEF RInv, PlannedInv, Planning
<1>. QED  BY <1>2, AttemptNone

\* A record in the journal other than its header belongs to a planned attempt.
LEMMA RecordsBelong ==
  ASSUME RInv, NEW id, NEW e \in {"planned", "dispatched"} \cup Terminal,
         e \in Had(journal, Len(journal), id)
  PROVE  \E k \in 1..Len(journal) : /\ journal[k].ev = "planned" /\ journal[k].id = id
                                    /\ journal[k].key \in Arms /\ id \in Ids
                                    /\ AttemptOf(journal, journal[k].key) = id
<1>1. journal \in Seq(Record) /\ Legal(journal)
  BY DEF RInv, IInv, TypeOK, JournalLegal
<1>2. "planned" \in Had(journal, Len(journal), id)
  <2>1. Coherent(Had(journal, Len(journal), id))
    BY <1>1, HadIsCoherent
  <2>. QED  BY <2>1 DEF Coherent
<1>3. PICK k \in 1..Len(journal) : journal[k].ev = "planned" /\ journal[k].id = id
  BY <1>2 DEF Had, Occurs
<1>. QED  BY <1>1, <1>3, AttemptIs DEF RInv, PlannedInv, Planning

\* Two arms have no attempt in common.
LEMMA AttemptsDiffer ==
  ASSUME LedgerAssumption, RInv, NEW a \in Arms, NEW b \in Arms,
         AttemptOf(journal, a) = AttemptOf(journal, b), AttemptOf(journal, a) # None
  PROVE  a = b
<1>1. journal \in Seq(Record) /\ Legal(journal)
  BY DEF RInv, IInv, TypeOK, JournalLegal
<1>2. PICK k \in 1..Len(journal) : /\ journal[k].ev = "planned" /\ journal[k].key = a
                                   /\ journal[k].id = AttemptOf(journal, a)
  BY AttemptPlanned
<1>3. PICK m \in 1..Len(journal) : /\ journal[m].ev = "planned" /\ journal[m].key = b
                                   /\ journal[m].id = AttemptOf(journal, b)
  BY AttemptPlanned
<1>. QED  BY <1>1, <1>2, <1>3, PlannedOnce

\* The refinement mapping, by name.
recordedMap == [a \in Arms |-> RecordedOf(journal, a)]
toldMap == [a \in Arms |-> ToldOf(journal, a)]

LEMMA WriteMaps ==
  ASSUME LedgerAssumption, RInv, RInv', NEW p \in Processes, WriteAll(p)
  PROVE  /\ toldMap' = toldMap
         /\ \/ recordedMap' = recordedMap
            \/ \E a \in Arms : \E s \in Abstract!After(recordedMap[a]) :
                 recordedMap' = [recordedMap EXCEPT ![a] = s]
<1>. DEFINE r == pending[p]
<1>1. /\ journal' = Append(journal, r) /\ acked' = acked
      /\ journal \in Seq(Record) /\ Legal(journal)
      /\ journal' \in Seq(Record) /\ Legal(journal')
      /\ step[p] \in {"checked", "partial"} /\ mode[p] \in {"opening", "open"}
  BY DEF WriteAll, RInv, IInv, TypeOK, JournalLegal, Ownership
<1>2. r \in Record /\ Planning(r)
  BY <1>1, HeaderIsRecord, LedgerAssumption DEF RInv, IInv, OpeningInv, OpenInv, PlannedInv
<1>3. /\ Len(journal') = Len(journal) + 1 /\ journal'[Len(journal')] = r /\ Len(journal) \in Nat
      /\ \A k \in 1..Len(journal) : journal'[k] = journal[k] /\ k \in 1..Len(journal')
  BY <1>1, <1>2
<1>4. ASSUME NEW id
      PROVE  Had(journal', Len(journal'), id)
               = Had(journal, Len(journal), id) \cup (IF r.id = id THEN {r.ev} ELSE {})
  BY <1>1, <1>2, HadAppend
<1>5. \A id : ToldPhase(id)' = ToldPhase(id)
  BY <1>1 DEF ToldPhase, PhaseOf
<1>6. ASSUME NEW a \in Arms, ~(r.ev = "planned" /\ r.key = a)
      PROVE  AttemptOf(journal', a) = AttemptOf(journal, a)
  <2>1. CASE AttemptOf(journal, a) = None
    <3>1. \A k \in 1..Len(journal) : ~(journal[k].ev = "planned" /\ journal[k].key = a)
      BY <1>1, <2>1, AttemptIs, LedgerAssumption DEF RInv, PlannedInv, Planning
    <3>2. \A k \in 1..Len(journal') : ~(journal'[k].ev = "planned" /\ journal'[k].key = a)
      BY <1>3, <1>6, <3>1
    <3>. QED  BY <2>1, <3>2, AttemptNone
  <2>2. CASE AttemptOf(journal, a) # None
    <3>1. PICK k \in 1..Len(journal) : /\ journal[k].ev = "planned" /\ journal[k].key = a
                                       /\ journal[k].id = AttemptOf(journal, a)
      BY <2>2, AttemptPlanned
    <3>. QED  BY <1>1, <1>3, <3>1, AttemptIs
  <2>. QED  BY <2>1, <2>2
<1>7. CASE mode[p] = "opening"
  <2>1. journal = <<>> /\ r.ev = "header" /\ r.id = None
    <3>1. OpeningInv(p)
      BY DEF RInv, IInv
    <3>2. journal = <<>> /\ pending[p] = Header(p)
      BY <1>1, <1>7, <3>1 DEF OpeningInv
    <3>. QED  BY <3>2 DEF Header
  <2>2. ASSUME NEW a \in Arms
        PROVE  RecordedOf(journal, a)' = RecordedOf(journal, a) /\ ToldOf(journal, a)' = ToldOf(journal, a)
    <3>1. AttemptOf(journal', a) = None /\ AttemptOf(journal, a) = None
      BY <1>6, <2>1, AttemptNone
    <3>2. PhaseBy(Had(journal', Len(journal'), None)) = PhaseBy(Had(journal, Len(journal), None))
      BY <1>4, <2>1 DEF PhaseBy, Failures
    <3>. QED  BY <1>5, <3>1, <3>2, PhaseOfHad DEF RecordedOf, ToldOf, Phase
  <2>. QED  BY <2>2 DEF recordedMap, toldMap
<1>8. CASE mode[p] = "open"
  <2>1. Admits(journal, Len(journal), r)
    BY <1>1, <1>8 DEF RInv, IInv, OpenInv
  <2>2. Coherent(Had(journal, Len(journal), r.id))
    BY <1>1, HadIsCoherent
  <2>3. \/ r.ev = "planned" /\ "planned" \notin Had(journal, Len(journal), r.id)
        \/ /\ r.ev \in DOMAIN Expected
           /\ PhaseBy(Had(journal, Len(journal), r.id)) = Expected[r.ev]
    BY <2>1, PhaseOfHad DEF Admits, Had, Occurs
  <2>4. PICK b \in Arms : /\ AttemptOf(journal', b) = r.id
                          /\ r.ev = "planned" => b = r.key /\ AttemptOf(journal, b) = None
                          /\ r.ev # "planned" => AttemptOf(journal, b) = r.id
    <3>1. CASE r.ev = "planned"
      <4>1. r.key \in Arms
        BY <1>2, <3>1 DEF Planning
      <4>2. \A k \in 1..Len(journal) : ~(journal[k].ev = "planned" /\ journal[k].key = r.key)
        BY <2>1, <3>1 DEF Admits, Expected
      <4>3. AttemptOf(journal, r.key) = None
        BY <4>2, AttemptNone
      <4>4. AttemptOf(journal', r.key) = r.id
        <5>1. Len(journal') \in 1..Len(journal') /\ journal'[Len(journal')] = r
          BY <1>1, <1>3
        <5>2. journal' \in Seq(Record) /\ Legal(journal')
          BY <1>1, <1>3
        <5>. QED  BY <3>1, <5>1, <5>2, AttemptIs
      <4>. QED  BY <3>1, <4>1, <4>3, <4>4
    <3>2. CASE r.ev # "planned"
      <4>1. "planned" \in Had(journal, Len(journal), r.id)
        BY <2>3, <3>2, <2>2 DEF PhaseBy, Expected, Coherent
      <4>2. PICK k \in 1..Len(journal) : /\ journal[k].key \in Arms
                                         /\ AttemptOf(journal, journal[k].key) = r.id
        BY <4>1, RecordsBelong
      <4>. QED  BY <1>6, <3>2, <4>2
    <3>. QED  BY <3>1, <3>2
  <2>5. ASSUME NEW a \in Arms, a # b
        PROVE  RecordedOf(journal, a)' = RecordedOf(journal, a) /\ ToldOf(journal, a)' = ToldOf(journal, a)
    <3>1. AttemptOf(journal', a) = AttemptOf(journal, a)
      BY <1>6, <2>4, <2>5
    <3>2. r.id # None
      BY <2>3, <1>2, NoAttemptUnknown, PhaseOfHad, LedgerAssumption DEF Planning, PhaseBy, Expected, Failures
    <3>3. AttemptOf(journal', a) # r.id
      <4>1. CASE r.ev = "planned"
        <5>1. \A k \in 1..Len(journal) : journal[k].ev = "planned" => journal[k].id # r.id
          BY <2>1, <4>1 DEF Admits, Expected
        <5>. QED  BY <3>1, <3>2, <5>1, AttemptPlanned
      <4>2. CASE r.ev # "planned"
        <5>1. AttemptOf(journal, b) = r.id
          BY <2>4, <4>2
        <5>. QED  BY <2>5, <3>1, <3>2, <5>1, AttemptsDiffer
      <4>. QED  BY <4>1, <4>2
    <3>4. Had(journal', Len(journal'), AttemptOf(journal, a)) = Had(journal, Len(journal), AttemptOf(journal, a))
      BY <1>4, <3>1, <3>3
    <3>. QED  BY <1>5, <3>1, <3>4, PhaseOfHad DEF RecordedOf, ToldOf, Phase
  <2>6. ToldOf(journal, b)' = ToldOf(journal, b)
    <3>1. CASE r.ev = "planned"
      <4>1. Had(journal, Len(journal), r.id) \cap ({"dispatched", "planned"} \cup Terminal) = {}
        BY <2>2, <2>3, <3>1 DEF Coherent, Expected
      <4>2. Told(r.id) \subseteq Had(journal, Len(journal), r.id)
        <5>1. Len(journal) \in stable..Len(journal)
          BY <1>3 DEF RInv, IInv, AckedIsStable, TypeOK
        <5>. QED  BY <5>1, ToldIsHad
      <4>3. ToldPhase(r.id) = "unknown"
        BY <4>1, <4>2, PhaseOfTold DEF PhaseBy, Terminal, Failures
      <4>. QED  BY <1>5, <2>4, <3>1, <4>3, NoAttemptUnknown DEF ToldOf
    <3>2. CASE r.ev # "planned"
      BY <1>5, <2>4, <3>2 DEF ToldOf
    <3>. QED  BY <3>1, <3>2
  <2>7. RecordedOf(journal, b)' \in Abstract!After(RecordedOf(journal, b))
    <3>1. RecordedOf(journal, b)' = PhaseBy(Had(journal, Len(journal), r.id) \cup {r.ev})
      BY <1>4, <2>4, PhaseOfHad DEF RecordedOf, Phase
    <3>2. RecordedOf(journal, b) = PhaseBy(Had(journal, Len(journal), r.id))
      <4>1. CASE r.ev = "planned"
        <5>1. Had(journal, Len(journal), r.id) \cap ({"dispatched", "planned"} \cup Terminal) = {}
          BY <2>2, <2>3, <4>1 DEF Coherent, Expected
        <5>2. PhaseBy(Had(journal, Len(journal), r.id)) = "unknown"
          BY <5>1 DEF PhaseBy, Terminal, Failures
        <5>3. PhaseBy(Had(journal, Len(journal), None)) = "unknown"
          BY <1>3, NoAttemptUnknown DEF PhaseBy, Failures
        <5>. QED  BY <2>4, <4>1, <5>2, <5>3, PhaseOfHad DEF RecordedOf, Phase
      <4>2. CASE r.ev # "planned"
        BY <2>4, <4>2, PhaseOfHad DEF RecordedOf, Phase
      <4>. QED  BY <4>1, <4>2
    <3>. QED  BY <2>2, <2>3, <3>1, <3>2, PhaseAdvances
  <2>8. toldMap' = toldMap
    BY <2>5, <2>6 DEF toldMap
  <2>9. recordedMap' = [recordedMap EXCEPT ![b] = RecordedOf(journal, b)']
    BY <2>5 DEF recordedMap
  <2>10. recordedMap[b] = RecordedOf(journal, b)
    BY DEF recordedMap
  <2>. QED  BY <2>7, <2>8, <2>9, <2>10
<1>. QED  BY <1>1, <1>7, <1>8

LEMMA AcknowledgeMaps ==
  ASSUME LedgerAssumption, RInv, NEW p \in Processes, Acknowledge(p)
  PROVE  /\ recordedMap' = recordedMap
         /\ \/ toldMap' = toldMap
            \/ \E a \in Arms : toldMap' = [toldMap EXCEPT ![a] = recordedMap[a]]
<1>. DEFINE N == Len(journal)
<1>a. PICK r : r = pending[p]
  OBVIOUS
<1>0. \A id : ToldPhase(id)' = PhaseBy(Told(id)')
  <2>1. (\A id : ToldPhase(id) = PhaseBy(Told(id)))'
    BY PhaseOfTold, PTL
  <2>. QED  BY <2>1 DEF PhaseBy
<1>1. journal' = journal /\ acked' = acked \cup {r} /\ Appended(p)
  BY <1>a DEF Acknowledge, file
<1>2. /\ stable = N /\ N > 0 /\ journal[N] = r /\ r \in Record
      /\ journal[1] = Header(p)
  BY <1>a, <1>1, AppendedFacts DEF RInv
<1>3. /\ journal \in Seq(Record) /\ Legal(journal) /\ N \in Nat /\ N \in 1..N /\ N - 1 \in 0..N
      /\ N \in stable..N
  BY <1>2 DEF RInv, IInv, TypeOK, JournalLegal
<1>4. recordedMap' = recordedMap /\ \A a \in Arms : AttemptOf(journal', a) = AttemptOf(journal, a)
  BY <1>1 DEF recordedMap
<1>5. ASSUME NEW id PROVE Told(id)' = Told(id) \cup (IF r.id = id THEN {r.ev} ELSE {})
  BY <1>1, <1>2 DEF Told, Record
<1>6. CASE r.ev = "header"
  <2>1. ASSUME NEW id PROVE PhaseBy(Told(id)') = PhaseBy(Told(id))
    BY <1>5, <1>6 DEF PhaseBy, Failures
  <2>2. ASSUME NEW id PROVE ToldPhase(id)' = ToldPhase(id)
    BY <1>0, <2>1, PhaseOfTold
  <2>3. toldMap' = toldMap
    BY <1>4, <2>2 DEF toldMap, ToldOf
  <2>. QED  BY <1>4, <2>3
<1>7. CASE r.ev # "header"
  <2>1. N # 1 /\ Admits(journal, N - 1, r)
    BY <1>2, <1>3, <1>7 DEF Legal
  <2>. DEFINE S == Had(journal, N - 1, r.id)
  <2>2. Coherent(S)
    BY <1>3, HadIsCoherent
  <2>3. \/ r.ev = "planned" /\ "planned" \notin S
        \/ r.ev \in DOMAIN Expected /\ PhaseBy(S) = Expected[r.ev]
    BY <2>1, PhaseOfHad DEF Admits, Had, Occurs
  <2>4. Had(journal, N, r.id) = S \cup {r.ev}
    <3>1. ASSUME NEW e \in Events
          PROVE  Occurs(journal, N, r.id, {e}) <=> Occurs(journal, N - 1, r.id, {e}) \/ e = r.ev
      BY <1>2, <1>3 DEF Occurs
    <3>2. r.ev \in Events
      BY <1>2 DEF Record
    <3>. QED  BY <3>1, <3>2 DEF Had
  <2>5. Told(r.id) \subseteq S \cup {r.ev}
    BY <1>3, <2>4, ToldIsHad
  <2>6. PhaseBy(Told(r.id) \cup {r.ev}) = PhaseBy(S \cup {r.ev})
    BY <2>2, <2>3, <2>5, PhaseAdvances
  <2>7. r.ev \in {"planned", "dispatched"} \cup Terminal
    BY <1>2, <1>7 DEF Record, Events
  <2>8. PICK b \in Arms : AttemptOf(journal, b) = r.id /\ r.id \in Ids
    BY <2>4, <2>7, RecordsBelong
  <2>9. ToldOf(journal, b)' = RecordedOf(journal, b)
    <3>1. ToldOf(journal, b)' = PhaseBy(Told(r.id) \cup {r.ev})
      <4>1. ToldOf(journal, b)' = ToldPhase(r.id)'
        BY <1>1, <2>8 DEF ToldOf
      <4>2. ToldPhase(r.id)' = PhaseBy(Told(r.id)')
        BY <1>0
      <4>3. Told(r.id)' = Told(r.id) \cup {r.ev}
        BY <1>5
      <4>. QED  BY <4>1, <4>2, <4>3
    <3>. QED  BY <2>4, <2>6, <2>8, <3>1, PhaseOfHad DEF RecordedOf, Phase
  <2>10. ASSUME NEW a \in Arms, a # b PROVE ToldOf(journal, a)' = ToldOf(journal, a)
    <3>1. AttemptOf(journal, a) # r.id
      BY <2>8, <2>10, AttemptsDiffer, LedgerAssumption
    <3>2. Told(AttemptOf(journal, a))' = Told(AttemptOf(journal, a))
      BY <1>1, <1>5, <3>1
    <3>. QED  BY <1>0, <1>4, <3>2, PhaseOfTold DEF ToldOf
  <2>11. toldMap' = [toldMap EXCEPT ![b] = RecordedOf(journal, b)]
    BY <2>9, <2>10 DEF toldMap
  <2>12. recordedMap[b] = RecordedOf(journal, b) /\ b \in Arms
    BY <2>8 DEF recordedMap
  <2>. QED  BY <1>4, <2>11, <2>12
<1>. QED  BY <1>4, <1>6, <1>7

\* What a power loss leaves of an attempt: whatever was told of it.
LEMMA LossMaps ==
  ASSUME LedgerAssumption, RInv, RInv', PowerLoss, NEW a \in Arms
  PROVE  /\ ToldOf(journal, a)' = ToldOf(journal, a)
         /\ Abstract!Reaches(ToldOf(journal, a), RecordedOf(journal, a)')
         /\ Abstract!Reaches(RecordedOf(journal, a)', RecordedOf(journal, a))
<1>1. /\ journal \in Seq(Record) /\ Legal(journal) /\ stable \in Nat /\ stable <= Len(journal)
      /\ journal' \in Seq(Record) /\ Legal(journal')
  BY DEF RInv, IInv, TypeOK, JournalLegal, AckedIsStable
<1>2. acked' = acked /\ \A id : ToldPhase(id)' = ToldPhase(id) /\ Told(id)' = Told(id)
  BY DEF PowerLoss, ToldPhase, PhaseOf, Told
<1>3. \A q : q \in Abstract!Phases => Abstract!Reaches("unknown", q)
  <2>1. /\ Abstract!After("unknown") = {"planned"}
        /\ Abstract!After("planned") = {"dispatched", "failed"}
        /\ Abstract!After("dispatched") = {"completed", "failed"}
    BY DEF Abstract!After
  <2>. QED  BY <2>1 DEF Abstract!Reaches, Abstract!Phases
<1>4. RecordedOf(journal, a) \in Abstract!Phases
  BY PhasesTyped
<1>5. ASSUME AttemptOf(journal', a) = None, ToldOf(journal, a) = "unknown",
             PhaseBy(Had(journal', Len(journal'), None)) = "unknown"
      PROVE  /\ ToldOf(journal, a)' = ToldOf(journal, a)
             /\ Abstract!Reaches(ToldOf(journal, a), RecordedOf(journal, a)')
             /\ Abstract!Reaches(RecordedOf(journal, a)', RecordedOf(journal, a))
  <2>1. RecordedOf(journal, a)' = "unknown"
    BY <1>5, PhaseOfHad DEF RecordedOf, Phase
  <2>2. ToldOf(journal, a)' = "unknown"
    BY <1>2, <1>5, NoAttemptUnknown DEF ToldOf
  <2>3. "unknown" \in Abstract!Phases
    BY DEF Abstract!Phases
  <2>. QED  BY <1>3, <1>4, <1>5, <2>1, <2>2, <2>3
<1>6. ASSUME NEW n \in stable..Len(journal), journal' = SubSeq(journal, 1, n)
      PROVE  /\ ToldOf(journal, a)' = ToldOf(journal, a)
             /\ Abstract!Reaches(ToldOf(journal, a), RecordedOf(journal, a)')
             /\ Abstract!Reaches(RecordedOf(journal, a)', RecordedOf(journal, a))
  <2>1. n \in 0..Len(journal) /\ Len(journal') = n /\ n <= Len(journal) /\ n \in Nat
    BY <1>1, <1>6
  <2>2. \A k \in 1..n : journal'[k] = journal[k] /\ k \in 1..Len(journal)
    BY <1>1, <1>6, <2>1
  <2>3. ASSUME NEW id
        PROVE  /\ Had(journal', Len(journal'), id) = Had(journal, n, id)
               /\ Told(id) \subseteq Had(journal, n, id)
               /\ Coherent(Had(journal, n, id))
    BY <1>1, <1>6, <2>1, HadPrefix, ToldIsHad, HadIsCoherent
  <2>4. CASE \E k \in 1..n : journal[k].ev = "planned" /\ journal[k].key = a
    <3>1. PICK k \in 1..n : journal[k].ev = "planned" /\ journal[k].key = a
      BY <2>4
    <3>2. PICK id : id = journal[k].id
      OBVIOUS
    <3>3. AttemptOf(journal, a) = id /\ AttemptOf(journal', a) = id
      BY <1>1, <2>1, <2>2, <3>1, <3>2, AttemptIs
    <3>4. /\ ToldOf(journal, a) = PhaseBy(Told(id))
          /\ ToldOf(journal, a)' = ToldOf(journal, a)
      BY <1>2, <3>3, PhaseOfTold DEF ToldOf
    <3>5. /\ RecordedOf(journal, a) = PhaseBy(Had(journal, Len(journal), id))
          /\ RecordedOf(journal, a)' = PhaseBy(Had(journal, n, id))
      BY <2>3, <3>3, PhaseOfHad DEF RecordedOf, Phase
    <3>6. /\ Had(journal, n, id) \subseteq Had(journal, Len(journal), id)
          /\ Coherent(Had(journal, Len(journal), id))
      BY <1>1, <2>1, HadGrows, HadIsCoherent
    <3>. QED  BY <2>3, <3>4, <3>5, <3>6, PhasesReach
  <2>5. CASE \A k \in 1..n : ~(journal[k].ev = "planned" /\ journal[k].key = a)
    <3>1. AttemptOf(journal', a) = None
      BY <2>1, <2>2, <2>5, AttemptNone
    <3>2. PhaseBy(Had(journal', Len(journal'), None)) = "unknown"
      BY <2>1, <2>3, NoAttemptUnknown DEF PhaseBy, Failures
    <3>3. ToldOf(journal, a) = "unknown"
      <4>1. CASE AttemptOf(journal, a) = None
        BY <4>1, NoAttemptUnknown DEF ToldOf
      <4>2. CASE AttemptOf(journal, a) # None
        <5>1. PICK m \in 1..Len(journal) : /\ journal[m].ev = "planned" /\ journal[m].key = a
                                           /\ journal[m].id = AttemptOf(journal, a)
          BY <4>2, AttemptPlanned
        <5>2. "planned" \notin Had(journal, n, journal[m].id)
          <6>1. ASSUME NEW k \in 1..n, journal[k].ev = "planned", journal[k].id = journal[m].id
                PROVE  FALSE
            BY <1>1, <2>2, <2>5, <5>1, <6>1, PlannedOnce
          <6>. QED  BY <6>1 DEF Had, Occurs
        <5>3. Told(journal[m].id) \cap ({"planned", "dispatched"} \cup Terminal) = {}
          BY <2>3, <5>2 DEF Coherent
        <5>. QED  BY <5>1, <5>3, PhaseOfTold DEF ToldOf, PhaseBy, Terminal, Failures
      <4>. QED  BY <4>1, <4>2
    <3>. QED  BY <1>5, <3>1, <3>2, <3>3
  <2>. QED  BY <2>4, <2>5
<1>7. ASSUME ~linked, journal' = <<>>
      PROVE  /\ ToldOf(journal, a)' = ToldOf(journal, a)
             /\ Abstract!Reaches(ToldOf(journal, a), RecordedOf(journal, a)')
             /\ Abstract!Reaches(RecordedOf(journal, a)', RecordedOf(journal, a))
  <2>1. acked = {}
    BY <1>7 DEF RInv, IInv, AckedIsStable
  <2>2. \A id : Told(id) = {}
    BY <2>1 DEF Told
  <2>3. ToldOf(journal, a) = "unknown"
    BY <2>2, PhaseOfTold DEF ToldOf, PhaseBy
  <2>4. AttemptOf(journal', a) = None
    BY <1>7, AttemptNone
  <2>5. Had(journal', Len(journal'), None) = {}
    BY <1>7 DEF Had, Occurs
  <2>. QED  BY <1>5, <2>3, <2>4, <2>5 DEF PhaseBy
<1>8. \/ \E n \in stable..Len(journal) : journal' = SubSeq(journal, 1, n)
      \/ ~linked /\ journal' = <<>>
  BY DEF PowerLoss
<1>. QED  BY <1>6, <1>7, <1>8

LEMMA OthersMap ==
  ASSUME UNCHANGED <<journal, acked>>
  PROVE  recordedMap' = recordedMap /\ toldMap' = toldMap
<1>1. \A id : ToldPhase(id)' = ToldPhase(id)
  BY DEF ToldPhase, PhaseOf
<1>. QED  BY <1>1 DEF recordedMap, toldMap, RecordedOf, ToldOf

\* The other steps touch neither the journal nor what was acknowledged.
LEMMA OtherSteps ==
  ASSUME [Next]_vars
  PROVE  \/ UNCHANGED <<journal, acked>> \/ PowerLoss
         \/ \E p \in Processes : WriteAll(p) \/ Acknowledge(p)
<1>1. ASSUME NEW p \in Processes,
             \/ Acquire(p) \/ OpenFresh(p) \/ OpenReplay(p) \/ OpenReject(p)
             \/ PlanAttempt(p) \/ MarkAttempt(p) \/ WritePart(p) \/ Fsync(p) \/ FsyncRoot(p)
             \/ AttestFails(p) \/ AppendFails(p) \/ Close(p) \/ Crash(p)
      PROVE  UNCHANGED <<journal, acked>>
  BY <1>1 DEF Acquire, OpenFresh, OpenReplay, OpenReject, PlanAttempt, MarkAttempt, Begin, WritePart,
              Fsync, FsyncRoot, AttestFails, AppendFails, Close, Crash, file
<1>. QED  BY <1>1 DEF Next, vars

\* The ledger implements the accounting its callers rely on, step by step: a
\* write records one event, an acknowledgement tells what is recorded, and a
\* power loss forgets only what nobody was told.
THEOREM AccountingImplemented == Spec => Accounting
<1>1. Init => Abstract!Init
  <2>. SUFFICES ASSUME Init PROVE Abstract!Init
    OBVIOUS
  <2>1. journal = <<>> /\ acked = {}
    BY DEF Init
  <2>2. \A id : Told(id) = {} /\ Had(journal, Len(journal), id) = {}
    BY <2>1 DEF Told, Had, Occurs
  <2>3. \A id : ToldPhase(id) = "unknown" /\ Phase(journal, id) = "unknown"
    BY <2>2, PhaseOfTold, PhaseOfHad DEF PhaseBy, Phase
  <2>. QED  BY <2>3 DEF Abstract!Init
<1>2. RInv /\ RInv' /\ [Next]_vars => [Abstract!Next]_(Abstract!avars)
  <2>. SUFFICES ASSUME RInv, RInv', [Next]_vars
                PROVE  \/ Abstract!Next
                       \/ recordedMap' = recordedMap /\ toldMap' = toldMap
    BY DEF Abstract!avars, recordedMap, toldMap, RecordedOf, ToldOf
  <2>1. CASE UNCHANGED <<journal, acked>>
    BY <2>1, OthersMap
  <2>2. ASSUME NEW p \in Processes, WriteAll(p)
        PROVE  Abstract!Next \/ (recordedMap' = recordedMap /\ toldMap' = toldMap)
    BY <2>2, WriteMaps, LedgerAssumption
    DEF Abstract!Next, Abstract!Record, recordedMap, toldMap, RecordedOf, ToldOf
  <2>3. ASSUME NEW p \in Processes, Acknowledge(p)
        PROVE  Abstract!Next \/ (recordedMap' = recordedMap /\ toldMap' = toldMap)
    BY <2>3, AcknowledgeMaps, LedgerAssumption
    DEF Abstract!Next, Abstract!Tell, recordedMap, toldMap, RecordedOf, ToldOf
  <2>4. CASE PowerLoss
    <3>1. Abstract!Forget
      BY <2>4, LossMaps, PhasesTyped, LedgerAssumption
      DEF Abstract!Forget, recordedMap, toldMap, RecordedOf, ToldOf
    <3>. QED  BY <3>1 DEF Abstract!Next
  <2>. QED  BY <2>1, <2>2, <2>3, <2>4, OtherSteps
<1>. QED  BY <1>1, <1>2, RInvariance, PTL DEF Spec, Accounting, Abstract!Spec

LEMMA RankOf ==
  /\ Rank("unknown") = 0 /\ Rank("planned") = 1 /\ Rank("dispatched") = 2
  /\ Rank("completed") = 3 /\ Rank("failed") = 3
  BY DEF Rank

\* Nothing that was acknowledged is ever taken back from the accounting.
LEMMA AckedGrows == ASSUME [Next]_vars PROVE acked \subseteq acked'
<1>1. ASSUME NEW p \in Processes, WriteAll(p) \/ Acknowledge(p) PROVE acked \subseteq acked'
  BY <1>1 DEF WriteAll, Acknowledge
<1>2. CASE PowerLoss
  BY <1>2 DEF PowerLoss
<1>. QED  BY <1>1, <1>2, OtherSteps

\* No step, not even a power loss, changes the phase of an attempt whose end
\* was acknowledged, or takes one back behind what was acknowledged of it.
THEOREM AckedPhasesHold == Spec => AckedPhaseHolds
<1>1. ASSUME RInv, RInv', [Next]_vars, NEW i \in Ids
      PROVE  LET told(E) == \E r \in acked : r.id = i /\ r.ev \in E
                 now == Phase(journal, i)
                 next == Phase(journal', i)
             IN /\ told(Terminal) => next = now
                /\ told({"dispatched"}) => Rank(next) >= 2
                /\ told({"planned"}) => Rank(next) >= 1
  <2>. DEFINE H == Had(journal, Len(journal), i)
              K == Had(journal', Len(journal'), i)
  <2>1. /\ journal \in Seq(Record) /\ Legal(journal) /\ stable \in Nat /\ stable <= Len(journal)
        /\ journal' \in Seq(Record) /\ Legal(journal')
    BY <1>1 DEF RInv, IInv, TypeOK, JournalLegal, AckedIsStable
  <2>2. Coherent(H) /\ Coherent(K)
    BY <2>1, HadIsCoherent
  <2>3. ASSUME NEW r \in acked, r.id = i, NEW e \in Events, r.ev = e
        PROVE  e \in H /\ e \in K
    <3>1. \E k \in 1..Len(journal) : journal[k] = r
      BY <1>1, <2>1 DEF RInv, IInv, AckedIsStable
    <3>2. r \in acked'
      BY <1>1, AckedGrows
    <3>3. \E k \in 1..Len(journal') : journal'[k] = r
      <4>1. /\ \E k \in 1..(stable') : journal'[k] = r
            /\ stable' \in Nat /\ stable' <= Len(journal')
        BY <1>1, <3>2 DEF RInv, IInv, TypeOK, AckedIsStable
      <4>. QED  BY <2>1, <4>1
    <3>. QED  BY <2>3, <3>1, <3>3 DEF Had, Occurs
  <2>4. Phase(journal, i) = PhaseBy(H) /\ Phase(journal', i) = PhaseBy(K)
    BY PhaseOfHad DEF Phase
  <2>. HIDE DEF H, K
  <2>5. ASSUME NEW r \in acked, r.id = i, r.ev \in Terminal PROVE PhaseBy(K) = PhaseBy(H)
    <3>1. r.ev \in H /\ r.ev \in K
      BY <2>3, <2>5 DEF Events
    <3>. QED  BY <2>2, <2>5, <3>1 DEF Coherent, PhaseBy, Terminal
  <2>6. ASSUME NEW r \in acked, r.id = i, r.ev = "dispatched" PROVE Rank(PhaseBy(K)) >= 2
    <3>1. "dispatched" \in K
      BY <2>3, <2>6 DEF Events
    <3>2. PhaseBy(K) \in {"completed", "failed", "dispatched"}
      BY <3>1 DEF PhaseBy
    <3>. QED  BY <3>2, RankOf
  <2>7. ASSUME NEW r \in acked, r.id = i, r.ev = "planned" PROVE Rank(PhaseBy(K)) >= 1
    <3>1. "planned" \in K
      BY <2>3, <2>7 DEF Events
    <3>2. PhaseBy(K) \in {"completed", "failed", "dispatched", "planned"}
      BY <3>1 DEF PhaseBy
    <3>. QED  BY <3>2, RankOf
  <2>. QED  BY <2>4, <2>5, <2>6, <2>7
<1>2. RInv /\ RInv' /\ [Next]_vars =>
        [\A i \in Ids :
           LET told(E) == \E r \in acked : r.id = i /\ r.ev \in E
               now == Phase(journal, i)
               next == Phase(journal', i)
           IN /\ told(Terminal) => next = now
              /\ told({"dispatched"}) => Rank(next) >= 2
              /\ told({"planned"}) => Rank(next) >= 1]_vars
  BY <1>1
<1>. QED  BY <1>2, RInvariance, PTL DEF Spec, AckedPhaseHolds
=============================================================================
