-------------------------- MODULE SpendLedgerProofs --------------------------
(***************************************************************************)
(* Proofs about SpendLedger, for any callers, price of an invocation and   *)
(* ceiling, over every interleaving of appends, failed fsyncs, crashes and *)
(* power losses.                                                           *)
(*                                                                         *)
(* The argument goes through amounts for each attempt, of which the sums   *)
(* of the model are the totals: what memory has settled, what it holds     *)
(* reserved, and what the provider was paid.  The first two are what the   *)
(* ledger counts against the ceiling; the second always is the price of a  *)
(* full invocation, until one line closes the attempt.  What was paid is   *)
(* covered by them while the ledger is open, and by the file at any time:  *)
(* nothing is paid before its reservation is stable, and no line closes an *)
(* attempt below what was paid for it.  A restart therefore finds at least *)
(* what was paid, and refuses to go on above the ceiling.                  *)
(*                                                                         *)
(* The two that say what a restart finds need the file to be there: with   *)
(* Unlinked, a power loss takes a file whose directory was never synced,   *)
(* and with it both properties (SpendLedgerUnlinked.cfg).                  *)
(***************************************************************************)
EXTENDS SpendLedger, FiniteSetTheorems, TLAPS

----------------------------------------------------------------------------
(* The lock, the file and the callers.                                     *)

\* The caller has a reservation.
Active(c) == call[c].pc \in {"reserved", "executed", "failed"}

\* The pending record is in the file.
Appended == step \in {"written", "synced", "rooted"}

CallType == [pc : {"idle", "reserving", "reserved", "executed", "failed"},
             id : Ids \cup {0}, cost : 0..per_call]

\* The types, but for the totals and the pending record.
Shapes ==
  /\ journal \in Seq(Chunk)
  /\ exists \in BOOLEAN /\ linked \in BOOLEAN /\ open \in BOOLEAN
  /\ stable \in 0..Len(journal)
  /\ lock \in Callers \cup {None}
  /\ step \in {"none", "checked", "written", "synced", "rooted"}
  /\ created \in BOOLEAN
  /\ call \in [Callers -> CallType]
  /\ incurred \in Nat /\ acked \in SUBSET Record
  /\ attempts \in 0..MaxAttempts /\ opens \in 0..MaxOpens
  /\ ~exists => journal = <<>>

\* What a caller inside the ledger appends.
Appends(c) ==
  \/ call[c].pc = "reserving" /\ pending = Reservation(call[c].id)
  \/ call[c].pc = "executed"
     /\ pending = [ev |-> "reconcile", id |-> call[c].id, usd |-> call[c].cost]
  \/ call[c].pc = "failed"
     /\ pending = [ev |-> "forfeit", id |-> call[c].id, usd |-> per_call]

\* The lock is held by the one caller that appends, and its call says what.
Locking ==
  /\ lock = None <=> step = "none"
  /\ lock = None => pending = None /\ ~created
  /\ lock # None => open /\ Appends(lock)
  /\ \A c \in Callers :
       /\ call[c].pc = "reserving" => lock = c
       /\ call[c].pc # "idle" => open
  /\ created => pending.ev = "reserve"

\* The file the ledger attests: until it is written the old one, afterwards the
\* one with the new line at its end.
Attesting ==
  /\ Appended => journal # <<>> /\ journal[Len(journal)].rec = pending
  /\ step = "written" => identity = None \/ identity # journal
  /\ step \in {"synced", "rooted"} => identity = journal /\ stable = Len(journal)
  /\ step = "synced" => created
  /\ \A c \in Callers : Active(c) => identity # None

\* No two callers have an attempt in common, and ids are drawn in order.
Identities ==
  /\ \A c \in Callers : call[c].pc # "idle" => call[c].id \in 1..attempts
  /\ \A c, d \in Callers :
       call[c].pc # "idle" /\ call[d].pc # "idle" /\ call[c].id = call[d].id => c = d
  /\ \A n \in 1..Len(journal) : journal[n].rec.id <= attempts

\* At most one line reserves an attempt, and one closes it.
OnceEach(j) ==
  \A m, n \in 1..Len(j) :
    /\ j[m].rec.id = j[n].rec.id
    /\ j[m].rec.ev = "reserve" <=> j[n].rec.ev = "reserve"
    => m = n

\* The reservation of c is stable; nothing closes it.
Journaled(c) == \E n \in 1..stable : journal[n].rec = Reservation(call[c].id)
Unclosed(c) == \A n \in 1..Len(journal) :
                  journal[n].rec.id = call[c].id => journal[n].rec.ev = "reserve"

\* Where the attempt of each caller stands in the file.  While it is executed no
\* line closes it, but for one the caller is appending or failed to.
InFile ==
  /\ OnceEach(journal)
  /\ \A c \in Callers :
       /\ call[c].pc = "reserving" =>
            \A n \in 1..Len(journal) :
              journal[n].rec.id = call[c].id => Appended /\ n = Len(journal)
       /\ Active(c) => Journaled(c)
       /\ call[c].pc = "reserved" => Unclosed(c)
       /\ Active(c) /\ (identity = journal \/ step = "written") =>
            (lock = c /\ Appended) \/ Unclosed(c)

FInv == Shapes /\ Locking /\ Attesting /\ Identities /\ InFile

----------------------------------------------------------------------------
(* The books.                                                              *)

Amounts == [Ids -> 0..per_call]

\* What the run has spent and holds reserved, attempt by attempt.
Totals(settled, held) ==
  /\ \A id \in Ids : settled[id] = 0 \/ held[id] = 0
  /\ spent = Dollars(settled) /\ reserved = Dollars(held)
  /\ spent + reserved <= maximum_usd
  /\ \A id \in Ids : id > attempts => settled[id] = 0 /\ held[id] = 0

\* An open call holds the price of a full invocation, which was there to take.
Holds(settled, held) ==
  /\ lock # None /\ pending.ev = "reserve" => spent + reserved + per_call <= maximum_usd
  /\ \A c \in Callers :
       /\ call[c].pc = "reserving" => settled[call[c].id] = 0 /\ held[call[c].id] = 0
       /\ Active(c) => held[call[c].id] = per_call
  /\ open /\ identity = None => \A id \in Ids : settled[id] = 0 /\ held[id] = 0

\* A file that is still attested charges each attempt what memory does.
Within(settled, held) ==
  open /\ (identity = journal \/ step = "written") =>
    \A id \in Ids : \/ Appended /\ pending.id = id
                    \/ settled[id] + held[id] <= ChargeOf(journal, id)

\* What the provider was paid for each attempt: nothing before its reservation is
\* stable, and no more than the line that closes it says.
Paid(paid) ==
  /\ incurred = Dollars(paid) /\ incurred <= maximum_usd
  /\ \A id \in Ids : paid[id] > 0 => \E n \in 1..stable : journal[n].rec = Reservation(id)
  /\ \A n \in 1..Len(journal) :
       journal[n].rec.ev # "reserve" => paid[journal[n].rec.id] <= journal[n].rec.usd
  /\ \A id \in Ids : id > attempts => paid[id] = 0
  /\ \A c \in Callers :
       /\ call[c].pc \in {"reserving", "reserved"} => paid[call[c].id] = 0
       /\ call[c].pc = "executed" => paid[call[c].id] = call[c].cost

\* What was paid is in the books of an open ledger.
Backed(paid, settled, held) == open => \A id \in Ids : paid[id] <= settled[id] + held[id]

Accounts(settled, held, paid) ==
  /\ Totals(settled, held) /\ Holds(settled, held) /\ Within(settled, held)
  /\ ~Unlinked => Paid(paid) /\ Backed(paid, settled, held)

Books == \E settled, held, paid \in Amounts : Accounts(settled, held, paid)

----------------------------------------------------------------------------
(* Sums.                                                                   *)

\* The dollars of amounts f, of which Dollars(f) is the number.
Coins(f) == {d \in Ids \X (1..per_call) : d[2] <= f[d[1]]}

LEMMA CoinsFinite ==
  ASSUME SpendAssumption, NEW f
  PROVE  /\ IsFiniteSet(Coins(f)) /\ Dollars(f) = Cardinality(Coins(f))
         /\ Dollars(f) \in Nat
<1>1. IsFiniteSet(Ids) /\ IsFiniteSet(1..per_call)
  BY FS_Interval DEF SpendAssumption, Ids
<1>2. IsFiniteSet(Ids \X (1..per_call))
  BY <1>1, FS_Product
<1>3. IsFiniteSet(Coins(f))
  BY <1>2, FS_Subset DEF Coins
<1>. QED  BY <1>3, FS_CardinalityType DEF Dollars, Coins

\* A sum grows with its amounts.
LEMMA DollarsGrow ==
  ASSUME SpendAssumption, NEW f \in Amounts, NEW g \in Amounts,
         \A id \in Ids : f[id] <= g[id]
  PROVE  Dollars(f) <= Dollars(g)
<1>1. Coins(f) \subseteq Coins(g)
  <2> SUFFICES ASSUME NEW d \in Ids \X (1..per_call), d[2] <= f[d[1]]
               PROVE  d[2] <= g[d[1]]
    BY DEF Coins
  <2>1. d[1] \in Ids /\ d[2] \in 1..per_call
    OBVIOUS
  <2>2. f[d[1]] \in 0..per_call /\ g[d[1]] \in 0..per_call
    BY <2>1 DEF Amounts
  <2>. QED  BY <2>1, <2>2 DEF SpendAssumption
<1>. QED  BY <1>1, CoinsFinite, FS_Subset

LEMMA DollarsOfNone ==
  ASSUME SpendAssumption, NEW f \in Amounts, \A id \in Ids : f[id] = 0
  PROVE  Dollars(f) = 0
<1>1. Coins(f) = {}
  BY DEF Coins, SpendAssumption
<1>. QED  BY <1>1, CoinsFinite, FS_EmptySet

\* Amounts of which never two are about one attempt add up.
LEMMA DollarsAdd ==
  ASSUME SpendAssumption, NEW f \in Amounts, NEW g \in Amounts, NEW h \in Amounts,
         \A id \in Ids : h[id] = f[id] + g[id] /\ (f[id] = 0 \/ g[id] = 0)
  PROVE  Dollars(h) = Dollars(f) + Dollars(g)
<1>1. ASSUME NEW d \in Ids \X (1..per_call)
      PROVE  /\ d[2] <= h[d[1]] <=> d[2] <= f[d[1]] \/ d[2] <= g[d[1]]
             /\ ~(d[2] <= f[d[1]] /\ d[2] <= g[d[1]])
  <2>1. d[1] \in Ids /\ d[2] \in 1..per_call
    OBVIOUS
  <2>2. f[d[1]] \in 0..per_call /\ g[d[1]] \in 0..per_call
    BY <2>1 DEF Amounts
  <2>. QED  BY <2>1, <2>2 DEF SpendAssumption
<1>2. Coins(h) = Coins(f) \cup Coins(g) /\ Coins(f) \cap Coins(g) = {}
  BY <1>1 DEF Coins
<1>3. Cardinality(Coins(h)) = Cardinality(Coins(f)) + Cardinality(Coins(g)) - 0
  BY <1>2, CoinsFinite, FS_Union, FS_EmptySet
<1>. QED  BY <1>3, CoinsFinite

\* One amount that was nothing is set.
LEMMA DollarsSet ==
  ASSUME SpendAssumption, NEW f \in Amounts, NEW id \in Ids, f[id] = 0,
         NEW usd \in 0..per_call
  PROVE  /\ [f EXCEPT ![id] = usd] \in Amounts
         /\ Dollars([f EXCEPT ![id] = usd]) = Dollars(f) + usd
<1> DEFINE one == [i \in Ids |-> IF i = id THEN usd ELSE 0]
           h == [f EXCEPT ![id] = usd]
<1>1. one \in Amounts /\ h \in Amounts
  BY DEF Amounts, SpendAssumption
<1>2. \A i \in Ids : h[i] = f[i] + one[i] /\ (f[i] = 0 \/ one[i] = 0)
  <2> SUFFICES ASSUME NEW i \in Ids
               PROVE  h[i] = f[i] + one[i] /\ (f[i] = 0 \/ one[i] = 0)
    OBVIOUS
  <2>1. f[i] \in 0..per_call
    BY DEF Amounts
  <2>. QED  BY <2>1 DEF Amounts, SpendAssumption
<1>3. Coins(one) = {id} \X (1..usd)
  <2>1. ASSUME NEW d \in Coins(one)  PROVE d \in {id} \X (1..usd)
    BY <2>1 DEF Coins, SpendAssumption
  <2>2. ASSUME NEW d \in {id} \X (1..usd)  PROVE d \in Coins(one)
    BY <2>2 DEF Coins, SpendAssumption
  <2>. QED  BY <2>1, <2>2
<1>4. Cardinality({id} \X (1..usd)) = usd
  <2>1. IsFiniteSet({id}) /\ Cardinality({id}) = 1
    BY FS_Singleton
  <2>2. usd \in Int /\ usd >= 0
    BY DEF SpendAssumption
  <2>3. IsFiniteSet(1..usd) /\ Cardinality(1..usd) = usd
    BY <2>2, FS_Interval
  <2>4. Cardinality({id} \X (1..usd)) = 1 * usd
    BY <2>1, <2>3, FS_Product
  <2>. QED  BY <2>2, <2>4
<1>5. Dollars(one) = usd
  BY <1>3, <1>4, CoinsFinite
<1>6. Dollars(h) = Dollars(f) + Dollars(one)
  BY <1>1, <1>2, DollarsAdd
<1>. QED  BY <1>1, <1>5, <1>6

LEMMA DollarsDrop ==
  ASSUME SpendAssumption, NEW f \in Amounts, NEW id \in Ids
  PROVE  /\ [f EXCEPT ![id] = 0] \in Amounts
         /\ Dollars(f) = Dollars([f EXCEPT ![id] = 0]) + f[id]
<1> DEFINE h == [f EXCEPT ![id] = 0]
<1>1. h \in Amounts /\ h[id] = 0 /\ f[id] \in 0..per_call
  BY DEF Amounts, SpendAssumption
<1>2. [h EXCEPT ![id] = f[id]] = f
  BY DEF Amounts
<1>. QED  BY <1>1, <1>2, DollarsSet

----------------------------------------------------------------------------
(* What a file charges.                                                    *)

LEMMA LineType ==
  ASSUME NEW j \in Seq(Chunk), NEW n \in 1..Len(j)
  PROVE  /\ j[n].rec \in Record
         /\ j[n].rec.ev \in {"reserve", "reconcile", "forfeit"}
         /\ j[n].rec.id \in Ids /\ j[n].rec.usd \in 0..per_call
<1>1. j[n] \in Chunk
  OBVIOUS
<1>2. j[n].rec \in Record
  BY <1>1 DEF Chunk
<1>. QED  BY <1>2 DEF Record

LEMMA OneLine ==
  ASSUME NEW S, NEW m \in Nat, S = {m}
  PROVE  Max(S) = m
BY DEF Max

\* An attempt is charged by the line that closes it, if there is one, and by
\* the line that reserves it otherwise.
LEMMA ChargedBy ==
  ASSUME SpendAssumption, NEW j \in Seq(Chunk), OnceEach(j), NEW id \in Ids,
         NEW n \in 1..Len(j), j[n].rec.id = id,
         \/ j[n].rec.ev # "reserve"
         \/ \A m \in 1..Len(j) : j[m].rec.id = id => j[m].rec.ev = "reserve"
  PROVE  ChargeOf(j, id) = j[n].rec.usd
<1>0. n \in Nat
  OBVIOUS
<1>1. \A m \in 1..Len(j) : j[m].rec.ev \in {"reserve", "reconcile", "forfeit"}
  BY LineType
<1>2. CASE j[n].rec.ev # "reserve"
  <2>1. Closes(j, id) = {n}
    BY <1>1,  <1>2 DEF Closes, LinesAbout, OnceEach
  <2>. QED  BY <1>0, <2>1, OneLine DEF ChargeOf
<1>3. CASE j[n].rec.ev = "reserve"
  <2>1. Closes(j, id) = {}
    BY <1>3 DEF Closes, LinesAbout
  <2>2. Reserves(j, id) = {n}
    BY <1>3 DEF Reserves, LinesAbout, OnceEach
  <2>. QED  BY <1>0, <2>1, <2>2, OneLine DEF ChargeOf
<1>. QED  BY <1>2, <1>3

LEMMA NotCharged ==
  ASSUME NEW j, NEW id, \A n \in 1..Len(j) : j[n].rec.id # id
  PROVE  ChargeOf(j, id) = 0
BY DEF ChargeOf, Closes, Reserves, LinesAbout

LEMMA ChargeType ==
  ASSUME SpendAssumption, NEW j \in Seq(Chunk), OnceEach(j), NEW id \in Ids
  PROVE  ChargeOf(j, id) \in 0..per_call
<1>1. \A n \in 1..Len(j) : j[n].rec.usd \in 0..per_call
  BY LineType
<1>2. CASE \A n \in 1..Len(j) : j[n].rec.id # id
  BY <1>2, NotCharged DEF SpendAssumption
<1>3. CASE \E n \in 1..Len(j) : j[n].rec.id = id
  <2>1. PICK n \in 1..Len(j) :
          /\ j[n].rec.id = id
          /\ \/ j[n].rec.ev # "reserve"
             \/ \A m \in 1..Len(j) : j[m].rec.id = id => j[m].rec.ev = "reserve"
    BY <1>3
  <2>. QED  BY <2>1, <1>1, ChargedBy
<1>. QED  BY <1>2, <1>3

\* A line about another attempt leaves the charge as it is.
LEMMA ChargeKept ==
  ASSUME SpendAssumption, NEW j \in Seq(Chunk), NEW ch \in Chunk,
         NEW id \in Ids, ch.rec.id # id, OnceEach(Append(j, ch))
  PROVE  OnceEach(j) /\ ChargeOf(Append(j, ch), id) = ChargeOf(j, id)
<1> DEFINE k == Append(j, ch)
<1>1. /\ k \in Seq(Chunk) /\ Len(k) = Len(j) + 1 /\ Len(j) \in Nat
      /\ \A n \in 1..Len(j) : k[n] = j[n]
      /\ k[Len(k)] = ch
  OBVIOUS
<1>2. OnceEach(j)
  BY <1>1 DEF OnceEach
<1>3. CASE \A n \in 1..Len(j) : j[n].rec.id # id
  <2>1. \A n \in 1..Len(k) : k[n].rec.id # id
    BY <1>1, <1>3
  <2>. QED  BY <1>2, <1>3, <2>1, NotCharged
<1>4. CASE \E n \in 1..Len(j) : j[n].rec.id = id
  <2>1. PICK n \in 1..Len(j) :
          /\ j[n].rec.id = id
          /\ \/ j[n].rec.ev # "reserve"
             \/ \A m \in 1..Len(j) : j[m].rec.id = id => j[m].rec.ev = "reserve"
    BY <1>4
  <2>2. ChargeOf(j, id) = j[n].rec.usd
    BY <1>2, <2>1, ChargedBy
  <2>3. n \in 1..Len(k) /\ k[n] = j[n]
    BY <1>1
  <2>4. \/ k[n].rec.ev # "reserve"
        \/ \A m \in 1..Len(k) : k[m].rec.id = id => k[m].rec.ev = "reserve"
    BY <1>1, <2>1
  <2> HIDE DEF k
  <2>5. ChargeOf(k, id) = k[n].rec.usd
    BY <1>1, <2>1, <2>3, <2>4, ChargedBy DEF k
  <2>. QED  BY <1>2, <2>2, <2>3, <2>5 DEF k
<1>. QED  BY <1>3, <1>4

----------------------------------------------------------------------------
(* The file and the callers.                                               *)

LEMMA FileInit == SpendAssumption /\ Init => FInv
<1> SUFFICES ASSUME SpendAssumption, Init  PROVE FInv
  OBVIOUS
<1>1. /\ journal = <<>> /\ journal \in Seq(Chunk) /\ Len(journal) = 0
      /\ \A c \in Callers : call[c] = Idle /\ call[c].pc = "idle"
  BY DEF Init, Idle
<1>2. Shapes
  <2>1. Idle \in CallType
    BY DEF Idle, CallType, SpendAssumption
  <2>2. call \in [Callers -> CallType]
    BY <2>1 DEF Init
  <2>3. attempts \in 0..MaxAttempts /\ opens \in 0..MaxOpens
    BY DEF Init, SpendAssumption
  <2>4. stable \in 0..Len(journal)
    BY <1>1 DEF Init
  <2>. QED  BY <1>1, <2>2, <2>3, <2>4 DEF Init, Shapes
<1>3. Locking
  BY <1>1 DEF Init, Locking
<1>4. Attesting /\ Identities /\ InFile
  BY <1>1 DEF Init, Attesting, Appended, Active, Identities, InFile, OnceEach
<1>. QED  BY <1>2, <1>3, <1>4 DEF FInv

\* The caller inside the ledger, and what it appends.
LEMMA Holder ==
  ASSUME SpendAssumption, FInv, step # "none"
  PROVE  /\ lock \in Callers /\ open /\ call[lock].pc \in {"reserving", "executed", "failed"}
         /\ pending \in Record /\ pending.id = call[lock].id /\ pending.id \in Ids
         /\ pending.ev = "reserve" <=> call[lock].pc = "reserving"
         /\ pending.ev = "reconcile" <=> call[lock].pc = "executed"
         /\ pending.ev = "forfeit" <=> call[lock].pc = "failed"
         /\ pending.ev \in {"reserve", "forfeit"} => pending.usd = per_call
         /\ pending.ev = "reconcile" => pending.usd = call[lock].cost
         /\ pending.ev = "reserve" => pending = Reservation(call[lock].id)
         /\ pending.ev # "reserve" <=> Active(lock)
         /\ \A c \in Callers : call[c].pc = "reserving" => c = lock
<1>1. lock \in Callers /\ open /\ Appends(lock)
  BY DEF FInv, Shapes, Locking
<1>2. call[lock] \in CallType
  BY <1>1 DEF FInv, Shapes, CallType
<1>3. call[lock].id \in Ids /\ call[lock].cost \in 0..per_call /\ per_call \in 0..per_call
  <2>1. call[lock].pc # "idle"
    BY <1>1 DEF Appends
  <2>2. call[lock].id # 0
    BY <1>1, <2>1 DEF FInv, Shapes, Identities
  <2>. QED  BY <1>2, <2>2 DEF CallType, SpendAssumption
<1>4. CASE call[lock].pc = "reserving"
  BY <1>1, <1>3, <1>4 DEF Appends, Reservation, Record, Active, FInv, Locking
<1>5. CASE call[lock].pc = "executed"
  BY <1>1, <1>3, <1>5 DEF Appends, Reservation, Record, Active, FInv, Locking
<1>6. CASE call[lock].pc = "failed"
  BY <1>1, <1>3, <1>6 DEF Appends, Reservation, Record, Active, FInv, Locking
<1>. QED  BY <1>1, <1>4, <1>5, <1>6 DEF Appends

\* An append that raises.
LEMMA RaisedCalls ==
  ASSUME SpendAssumption, FInv, step # "none", Raised
  PROVE  /\ lock' = None /\ step' = "none" /\ pending' = None /\ created' = FALSE
         /\ call' \in [Callers -> CallType]
         /\ \A c \in Callers :
              /\ call'[c].pc # "idle" => call[c].pc # "idle" /\ call'[c].id = call[c].id
              /\ call'[c].pc # "reserving"
              /\ call'[c].pc \in {"reserved", "executed"} => c # lock /\ call'[c] = call[c]
              /\ call'[c].pc = "failed" =>
                   Active(c) /\ (c = lock => pending.ev = "reconcile")
<1>1. lock \in Callers /\ call \in [Callers -> CallType]
  BY Holder DEF FInv, Shapes, CallType
<1>2. /\ pending.ev = "reconcile" <=> call[lock].pc = "executed"
      /\ \A c \in Callers : call[c].pc = "reserving" => c = lock
  BY Holder
<1>3. Idle \in CallType /\ Idle.pc = "idle"
  BY DEF Idle, CallType, SpendAssumption
<1>4. \A c \in Callers : call[c].pc \in {"idle", "reserving", "reserved", "executed", "failed"}
  BY <1>1 DEF CallType
<1>5. CASE pending.ev = "reconcile"
  <2> DEFINE failed == [call[lock] EXCEPT !.pc = "failed"]
  <2>1. failed \in CallType /\ failed.pc = "failed" /\ failed.id = call[lock].id
    <3>1. call[lock] \in CallType
      BY <1>1
    <3>. QED  BY <3>1 DEF CallType
  <2>2. call' = [call EXCEPT ![lock] = failed]
    BY <1>5 DEF Raised
  <2> HIDE DEF failed
  <2>3. call'[lock] = failed /\ \A c \in Callers : c # lock => call'[c] = call[c]
    BY <1>1, <2>2
  <2>. QED  BY <1>1, <1>2, <1>4, <1>5, <2>1, <2>2, <2>3 DEF Raised, Unlock, Active
<1>6. CASE pending.ev # "reconcile"
  <2>1. call' = [call EXCEPT ![lock] = Idle]
    BY <1>6 DEF Raised
  <2>2. call'[lock] = Idle /\ \A c \in Callers : c # lock => call'[c] = call[c]
    BY <1>1, <2>1
  <2>. QED  BY <1>1, <1>2, <1>3, <1>4, <2>1, <2>2 DEF Raised, Unlock, Active
<1>. QED  BY <1>5, <1>6

\* Lines that an append leaves as they are.
LEMMA Appending ==
  ASSUME SpendAssumption, FInv, step = "checked", NEW part \in {"line", "bare", "piece"},
         journal' = Append(journal, [rec |-> pending, part |-> part])
  PROVE  /\ journal' \in Seq(Chunk) /\ Len(journal') = Len(journal) + 1 /\ Len(journal) \in Nat
         /\ \A n \in 1..Len(journal) : n \in 1..Len(journal') /\ journal'[n] = journal[n]
         /\ \A n \in 1..Len(journal') : n \in 1..Len(journal) \/ n = Len(journal')
         /\ journal'[Len(journal')].rec = pending
         /\ journal' # journal /\ journal' # <<>>
         /\ [rec |-> pending, part |-> part] \in Chunk
<1>1. journal \in Seq(Chunk) /\ [rec |-> pending, part |-> part] \in Chunk
  BY Holder DEF FInv, Shapes, Chunk
<1>. QED  BY <1>1

LEMMA LineAdded ==
  ASSUME SpendAssumption, FInv, step = "checked", Attested,
         NEW part \in {"line", "bare", "piece"},
         journal' = Append(journal, [rec |-> pending, part |-> part])
  PROVE  /\ OnceEach(journal') /\ (exists \/ pending.ev = "reserve")
         /\ \A n \in 1..Len(journal') : journal'[n].rec.id <= attempts
         /\ \A c \in Callers :
              /\ call[c].pc = "reserving" =>
                   \A n \in 1..Len(journal') : journal'[n].rec.id = call[c].id => n = Len(journal')
              /\ Active(c) =>
                   \E n \in 1..stable : journal'[n].rec = Reservation(call[c].id)
              /\ Active(c) /\ c # lock =>
                   \A n \in 1..Len(journal') :
                     journal'[n].rec.id = call[c].id => journal'[n].rec.ev = "reserve"
<1>1. /\ journal' \in Seq(Chunk) /\ Len(journal') = Len(journal) + 1 /\ Len(journal) \in Nat
      /\ \A n \in 1..Len(journal) : n \in 1..Len(journal') /\ journal'[n] = journal[n]
      /\ \A n \in 1..Len(journal') : n \in 1..Len(journal) \/ n = Len(journal')
      /\ journal'[Len(journal')].rec = pending
  BY Appending
<1>2. /\ lock \in Callers /\ pending.id = call[lock].id
      /\ pending.ev = "reserve" <=> call[lock].pc = "reserving"
      /\ pending.ev # "reserve" <=> Active(lock)
      /\ \A c \in Callers : call[c].pc = "reserving" => c = lock
  BY Holder
<1>3. \A c \in Callers : Active(c) => identity = journal /\ Unclosed(c)
  BY DEF FInv, InFile, Attesting, Attested, Stat, Appended
<1>4. pending.ev = "reserve" => \A n \in 1..Len(journal) : journal[n].rec.id # pending.id
  BY <1>2 DEF FInv, InFile, Appended
<1>5. pending.id \in 1..attempts
  BY <1>2 DEF FInv, Identities, Active
<1>6. OnceEach(journal')
  <2> SUFFICES ASSUME NEW m \in 1..Len(journal'), NEW n \in 1..Len(journal'),
                      journal'[m].rec.id = journal'[n].rec.id,
                      journal'[m].rec.ev = "reserve" <=> journal'[n].rec.ev = "reserve"
               PROVE  m = n
    BY DEF OnceEach
  <2>1. CASE m \in 1..Len(journal) /\ n \in 1..Len(journal)
    BY <1>1, <2>1 DEF FInv, InFile, OnceEach
  <2>2. ASSUME NEW i \in 1..Len(journal), journal[i].rec.id = pending.id,
               journal[i].rec.ev = "reserve" <=> pending.ev = "reserve"
        PROVE  FALSE
    BY <1>2, <1>3, <1>4, <2>2 DEF Unclosed
  <2>. QED  BY <1>1, <2>1, <2>2
<1>7. exists \/ pending.ev = "reserve"
  BY <1>2 DEF FInv, Shapes, InFile, Journaled
<1>8. \A n \in 1..Len(journal') : journal'[n].rec.id <= attempts
  BY <1>1, <1>5 DEF FInv, Identities
<1>9. ASSUME NEW c \in Callers, call[c].pc = "reserving",
             NEW n \in 1..Len(journal'), journal'[n].rec.id = call[c].id
      PROVE  n = Len(journal')
  BY <1>1, <1>2, <1>4, <1>9
<1>10. ASSUME NEW c \in Callers, Active(c)
       PROVE  \E n \in 1..stable : journal'[n].rec = Reservation(call[c].id)
  BY <1>1, <1>10 DEF FInv, InFile, Journaled, Shapes
<1>11. ASSUME NEW c \in Callers, Active(c), c # lock,
              NEW n \in 1..Len(journal'), journal'[n].rec.id = call[c].id
       PROVE  journal'[n].rec.ev = "reserve"
  <2>1. call[c].id # call[lock].id
    BY <1>2, <1>11 DEF FInv, Identities, Active
  <2>. QED  BY <1>1, <1>2, <1>3, <1>11, <2>1 DEF Unclosed
<1>. QED  BY <1>6, <1>7, <1>8, <1>9, <1>10, <1>11

LEMMA FileOpen ==
  ASSUME SpendAssumption, FInv, Open
  PROVE  FInv'
<1>1. Shapes'
  BY DEF Open, FInv, Shapes, file, append
<1>2. Locking'
  BY DEF Open, FInv, Locking, Appends, append
<1>3. Attesting'
  BY DEF Open, FInv, Attesting, Locking, Appended, Active, file, append, Shapes
<1>4. Identities'
  BY DEF Open, FInv, Identities, file
<1>5. InFile'
  BY DEF Open, FInv, InFile, OnceEach, Journaled, Unclosed, Appended, Active, Locking, file, append, Shapes
<1>. QED  BY <1>1, <1>2, <1>3, <1>4, <1>5 DEF FInv

LEMMA FileRefuse ==
  ASSUME SpendAssumption, FInv, Refuse
  PROVE  FInv'
<1>a. /\ lock' = None /\ step' = "none" /\ pending' = None /\ created' = FALSE
      /\ call' \in [Callers -> CallType]
  BY RaisedCalls DEF Refuse
<1>b. \A c \in Callers :
        /\ call'[c].pc # "idle" => call[c].pc # "idle" /\ call'[c].id = call[c].id
        /\ call'[c].pc # "reserving"
        /\ call'[c].pc \in {"reserved", "executed"} => c # lock /\ call'[c] = call[c]
        /\ call'[c].pc = "failed" =>
             Active(c) /\ (c = lock => pending.ev = "reconcile")
  BY RaisedCalls DEF Refuse
<1>c. \A c \in Callers : Active(c)' => Active(c) /\ call'[c].id = call[c].id
  BY <1>b DEF Active
<1>1. Shapes'
  BY <1>a DEF Refuse, FInv, Shapes, CallType, file
<1>2. Locking'
  BY <1>a, <1>b DEF Refuse, FInv, Locking
<1>3. Attesting'
  BY <1>a, <1>c DEF Refuse, FInv, Attesting, Appended, file, memory
<1>4. Identities'
  BY <1>b DEF Refuse, FInv, Identities, file
<1>5. InFile'
  BY <1>a, <1>b, <1>c DEF Refuse, FInv, InFile, Journaled, Unclosed, Appended, file, memory
<1>. QED  BY <1>1, <1>2, <1>3, <1>4, <1>5 DEF FInv

LEMMA FileWrite ==
  ASSUME SpendAssumption, FInv, Write
  PROVE  FInv'
<1>j. step = "checked" /\ Attested
  BY DEF Write
<1>k. /\ journal' \in Seq(Chunk) /\ Len(journal') = Len(journal) + 1 /\ Len(journal) \in Nat
      /\ journal'[Len(journal')].rec = pending
      /\ journal' # journal /\ journal' # <<>>
  BY <1>j, Appending DEF Write
<1>m. /\ OnceEach(journal') /\ (exists \/ pending.ev = "reserve")
      /\ \A n \in 1..Len(journal') : journal'[n].rec.id <= attempts
      /\ \A c \in Callers :
           /\ call[c].pc = "reserving" =>
                \A n \in 1..Len(journal') : journal'[n].rec.id = call[c].id => n = Len(journal')
           /\ Active(c) =>
                \E n \in 1..stable : journal'[n].rec = Reservation(call[c].id)
           /\ Active(c) /\ c # lock =>
                \A n \in 1..Len(journal') :
                  journal'[n].rec.id = call[c].id => journal'[n].rec.ev = "reserve"
  BY <1>j, LineAdded DEF Write
<1>n. /\ lock \in Callers
      /\ pending.ev # "reserve" <=> Active(lock)
      /\ \A c \in Callers : call[c].pc = "reserved" => c # lock /\ Active(c)
  BY <1>j, Holder DEF Active
<1>1. Shapes'
  BY <1>k DEF Write, FInv, Shapes
<1>2. Locking'
  BY <1>j, <1>m DEF Write, FInv, Locking, Appends, Shapes
<1>3. Attesting'
  BY <1>j, <1>k DEF Write, FInv, Attesting, Appended, Attested, Stat, memory, Active
<1>4. Identities'
  BY <1>m DEF Write, FInv, Identities
<1>5. InFile'
  BY <1>m, <1>n DEF Write, InFile, Appended, Active, Journaled, Unclosed
<1>. QED  BY <1>1, <1>2, <1>3, <1>4, <1>5 DEF FInv

LEMMA FileWriteFails ==
  ASSUME SpendAssumption, FInv, WriteFails
  PROVE  FInv'
<1>a. /\ lock' = None /\ step' = "none" /\ pending' = None /\ created' = FALSE
      /\ call' \in [Callers -> CallType]
  BY RaisedCalls DEF WriteFails
<1>b. \A c \in Callers :
        /\ call'[c].pc # "idle" => call[c].pc # "idle" /\ call'[c].id = call[c].id
        /\ call'[c].pc # "reserving"
        /\ call'[c].pc \in {"reserved", "executed"} => c # lock /\ call'[c] = call[c]
        /\ call'[c].pc = "failed" =>
             Active(c) /\ (c = lock => pending.ev = "reconcile")
  BY RaisedCalls DEF WriteFails
<1>c. \A c \in Callers : Active(c)' => Active(c) /\ call'[c].id = call[c].id
  BY <1>b DEF Active
<1>j. step = "checked" /\ Attested
  BY DEF WriteFails
<1>2. Locking'
  BY <1>a, <1>b DEF WriteFails, FInv, Locking
<1>3. Attesting'
  BY <1>a, <1>c DEF WriteFails, FInv, Attesting, Appended, memory
<1>4. CASE journal' = journal
  <2>1. Shapes'
    BY <1>a, <1>4 DEF WriteFails, FInv, Shapes, CallType
  <2>2. Identities'
    BY <1>b, <1>4 DEF WriteFails, FInv, Identities
  <2>3. InFile'
    BY <1>a, <1>b, <1>c, <1>4 DEF WriteFails, FInv, InFile, Journaled, Unclosed, Appended, memory
  <2>. QED  BY <1>2, <1>3, <2>1, <2>2, <2>3 DEF FInv
<1>5. CASE journal' # journal
  <2>1. PICK part \in {"bare", "piece"} :
          journal' = Append(journal, [rec |-> pending, part |-> part])
    BY <1>5 DEF WriteFails
  <2>k. /\ journal' \in Seq(Chunk) /\ Len(journal') = Len(journal) + 1 /\ Len(journal) \in Nat
        /\ journal' # journal /\ journal' # <<>>
    BY <1>j, <2>1, Appending
  <2>m. /\ OnceEach(journal')
        /\ \A n \in 1..Len(journal') : journal'[n].rec.id <= attempts
        /\ \A c \in Callers :
             /\ Active(c) =>
                  \E n \in 1..stable : journal'[n].rec = Reservation(call[c].id)
             /\ Active(c) /\ c # lock =>
                  \A n \in 1..Len(journal') :
                    journal'[n].rec.id = call[c].id => journal'[n].rec.ev = "reserve"
    BY <1>j, <2>1, LineAdded
  <2>1a. /\ exists' = TRUE /\ stable \in 0..Len(journal) /\ stable' = stable
         /\ UNCHANGED <<linked, open, incurred, acked, attempts, opens>>
    BY DEF WriteFails, FInv, Shapes
  <2>1b. stable' \in 0..Len(journal')
    BY <2>1a, <2>k
  <2>2. Shapes'
    BY <1>a, <2>1a, <2>1b, <2>k DEF FInv, Shapes
  <2>3. Identities'
    BY <1>b, <2>m DEF WriteFails, FInv, Identities
  <2>4. \A c \in Callers : Active(c) => identity' # journal'
    BY <1>j, <1>5 DEF WriteFails, Attested, Stat, memory, FInv, Attesting
  <2>5. InFile'
    BY <1>a, <1>b, <1>c, <2>m, <2>4 DEF WriteFails, InFile, Journaled, Unclosed, Active
  <2>. QED  BY <1>2, <1>3, <2>2, <2>3, <2>5 DEF FInv
<1>. QED  BY <1>4, <1>5

LEMMA FileFsync ==
  ASSUME SpendAssumption, FInv, Fsync
  PROVE  FInv'
<1>1. Shapes'
  BY DEF Fsync, FInv, Shapes
<1>2. Locking'
  BY DEF Fsync, FInv, Locking, Appends
<1>3. Attesting'
  BY NoneAssumption DEF Fsync, Stat, FInv, Attesting, Appended, Active, Shapes
<1>4. Identities'
  BY DEF Fsync, FInv, Identities
<1>5. InFile'
  BY DEF Fsync, Stat, FInv, InFile, Active, Journaled, Unclosed, Appended, Shapes
<1>. QED  BY <1>1, <1>2, <1>3, <1>4, <1>5 DEF FInv

LEMMA FileFsyncDirectory ==
  ASSUME SpendAssumption, FInv, FsyncDirectory
  PROVE  FInv'
<1>1. Shapes'
  BY DEF FsyncDirectory, FInv, Shapes
<1>2. Locking'
  BY DEF FsyncDirectory, FInv, Locking, Appends
<1>3. Attesting'
  BY DEF FsyncDirectory, FInv, Attesting, Appended, Active, memory
<1>4. Identities'
  BY DEF FsyncDirectory, FInv, Identities
<1>5. InFile'
  BY DEF FsyncDirectory, FInv, InFile, Active, Journaled, Unclosed, Appended, memory
<1>. QED  BY <1>1, <1>2, <1>3, <1>4, <1>5 DEF FInv

LEMMA FileFsyncFails ==
  ASSUME SpendAssumption, FInv, FsyncFails
  PROVE  FInv'
<1>a. /\ lock' = None /\ step' = "none" /\ pending' = None /\ created' = FALSE
      /\ call' \in [Callers -> CallType]
  BY RaisedCalls DEF FsyncFails
<1>b. \A c \in Callers :
        /\ call'[c].pc # "idle" => call[c].pc # "idle" /\ call'[c].id = call[c].id
        /\ call'[c].pc # "reserving"
        /\ call'[c].pc \in {"reserved", "executed"} => c # lock /\ call'[c] = call[c]
        /\ call'[c].pc = "failed" =>
             Active(c) /\ (c = lock => pending.ev = "reconcile")
  BY RaisedCalls DEF FsyncFails
<1>c. \A c \in Callers : Active(c)' => Active(c) /\ call'[c].id = call[c].id
  BY <1>b DEF Active
<1>1. Shapes'
  BY <1>a DEF FsyncFails, FInv, Shapes, CallType, file
<1>2. Locking'
  BY <1>a, <1>b DEF FsyncFails, FInv, Locking
<1>3. Attesting'
  BY <1>a, <1>c DEF FsyncFails, FInv, Attesting, Appended, file, memory
<1>4. Identities'
  BY <1>b DEF FsyncFails, FInv, Identities, file
<1>5. ASSUME NEW c \in Callers, Active(c)', identity = journal
      PROVE  Unclosed(c)'
  <2>1. Active(c) /\ call'[c].id = call[c].id /\ (c = lock => pending.ev = "reconcile")
    BY <1>b, <1>5 DEF Active
  <2>2. step = "synced" /\ pending.ev = "reserve"
    BY <1>5, <2>1 DEF FsyncFails, FInv, Attesting, Locking
  <2>3. c # lock
    BY <2>1, <2>2
  <2>. QED  BY <1>5, <2>1, <2>3 DEF FsyncFails, FInv, InFile, Unclosed, file
<1>6. InFile'
  BY <1>a, <1>b, <1>c, <1>5 DEF FsyncFails, FInv, InFile, Journaled, Unclosed, file, memory
<1>. QED  BY <1>1, <1>2, <1>3, <1>4, <1>6 DEF FInv

LEMMA FileSettle ==
  ASSUME SpendAssumption, FInv, Settle
  PROVE  FInv'
<1>a. /\ lock \in Callers /\ call[lock].pc \in {"reserving", "executed", "failed"}
      /\ pending \in Record /\ step = "rooted"
      /\ pending.ev = "reserve" <=> call[lock].pc = "reserving"
      /\ pending.ev = "reserve" => pending = Reservation(call[lock].id)
      /\ \A c \in Callers : call[c].pc = "reserving" => c = lock
  BY Holder DEF Settle
<1>b. /\ call' \in [Callers -> CallType]
      /\ \A c \in Callers :
           /\ call'[c].pc # "idle" => call[c].pc # "idle" /\ call'[c].id = call[c].id
           /\ call'[c].pc # "reserving"
           /\ c # lock => call'[c] = call[c]
           /\ c = lock /\ call'[c].pc # "idle" =>
                call'[c].pc = "reserved" /\ pending.ev = "reserve"
  <2>1. Idle \in CallType /\ Idle.pc = "idle" /\ call \in [Callers -> CallType]
    BY DEF Idle, CallType, SpendAssumption, FInv, Shapes
  <2>2. CASE pending.ev # "reserve"
    <3>1. call' = [call EXCEPT ![lock] = Idle]
      BY <2>2 DEF Settle
    <3>. QED  BY <1>a, <2>1, <2>2, <3>1 DEF CallType
  <2>3. CASE pending.ev = "reserve"
    <3> DEFINE reservation == [call[lock] EXCEPT !.pc = "reserved"]
    <3>1. call' = [call EXCEPT ![lock] = reservation]
      BY <2>3 DEF Settle
    <3>2. call[lock] \in CallType
      BY <1>a, <2>1
    <3>3. /\ reservation \in CallType /\ reservation.pc = "reserved"
          /\ reservation.id = call[lock].id
      BY <3>2 DEF CallType
    <3> HIDE DEF reservation
    <3>. QED  BY <1>a, <2>1, <2>3, <3>1, <3>3
  <2>. QED  BY <2>2, <2>3
<1>c. \A c \in Callers : Active(c)' =>
        /\ call'[c].id = call[c].id
        /\ \/ c # lock /\ Active(c) /\ call'[c] = call[c]
           \/ c = lock /\ pending.ev = "reserve"
  BY <1>b DEF Active
<1>d. identity = journal /\ stable = Len(journal) /\ journal # <<>>
      /\ journal[Len(journal)].rec = pending
  BY <1>a DEF FInv, Attesting, Appended
<1>1. Shapes'
  BY <1>a, <1>b DEF Settle, Unlock, FInv, Shapes, file
<1>2. Locking'
  BY <1>b DEF Settle, Unlock, FInv, Locking
<1>3. Attesting'
  BY <1>c, <1>d, NoneAssumption DEF Settle, Unlock, FInv, Shapes, Attesting, Appended, file
<1>4. Identities'
  BY <1>b DEF Settle, FInv, Identities, file
<1>5. ASSUME NEW c \in Callers, Active(c)'
      PROVE  Journaled(c)' /\ Unclosed(c)'
  <2>1. CASE c # lock
    BY <1>a, <1>c, <1>d, <1>5, <2>1
       DEF Settle, FInv, InFile, Journaled, Unclosed, file
  <2>2. CASE c = lock
    <3>1. pending = Reservation(call'[c].id)
      BY <1>a, <1>c, <1>5, <2>2
    <3>2. Len(journal) \in 1..stable
      BY <1>d DEF FInv, Shapes
    <3>3. \A n \in 1..Len(journal) : journal[n].rec.id = call[c].id => n = Len(journal)
      BY <1>a, <1>c, <1>5, <2>2 DEF FInv, InFile
    <3>4. call'[c].id = call[c].id /\ pending.ev = "reserve"
      BY <1>c, <1>5, <2>2
    <3>. QED  BY <1>d, <3>1, <3>2, <3>3, <3>4 DEF Settle, Journaled, Unclosed, file
  <2>. QED  BY <2>1, <2>2
<1>6. InFile'
  <2>1. \A c \in Callers : call'[c].pc # "reserving"
    BY <1>b
  <2>. QED  BY <1>5, <2>1 DEF Settle, FInv, InFile, Active, file
<1>. QED  BY <1>1, <1>2, <1>3, <1>4, <1>6 DEF FInv

LEMMA FileReserve ==
  ASSUME SpendAssumption, FInv, NEW c \in Callers, Reserve(c)
  PROVE  FInv'
<1>a. /\ lock = None /\ open /\ step = "none" /\ lock' = c /\ step' = "checked" /\ c # None
      /\ attempts' = attempts + 1 /\ attempts' \in 0..MaxAttempts /\ attempts' \in Ids
      /\ attempts \in Nat
      /\ pending' = Reservation(attempts')
      /\ UNCHANGED <<file, memory, open, created, incurred, acked, opens>>
  BY DEF Reserve, Begin, FInv, Locking, Shapes, SpendAssumption, Ids
<1>b. /\ call' \in [Callers -> CallType]
      /\ call'[c].pc = "reserving" /\ call'[c].id = attempts'
      /\ \A d \in Callers : d # c => call'[d] = call[d]
  <2>1. [pc |-> "reserving", id |-> attempts', cost |-> 0] \in CallType
    BY <1>a DEF CallType, SpendAssumption
  <2>. QED  BY <2>1 DEF Reserve, FInv, Shapes
<1>c. \A d \in Callers : Active(d)' => d # c /\ Active(d) /\ call'[d] = call[d]
  BY <1>b DEF Active
<1>1. Shapes'
  BY <1>a, <1>b DEF FInv, Shapes, file
<1>2. Locking'
  <2>1. \A d \in Callers : d # c => call[d].pc # "reserving"
    BY <1>a DEF FInv, Locking, SpendAssumption
  <2>2. pending'.ev = "reserve"
    BY <1>a DEF Reservation
  <2>. QED  BY <1>a, <1>b, <2>1, <2>2 DEF FInv, Locking, Appends
<1>3. Attesting'
  BY <1>a, <1>c DEF FInv, Attesting, Appended, file, memory
<1>4. Identities'
  <2>1. \A d \in Callers : call[d].pc # "idle" => call[d].id \in 1..attempts
    BY DEF FInv, Identities
  <2>2. ASSUME NEW n \in 1..Len(journal)  PROVE journal[n].rec.id <= attempts'
    BY <1>a, LineType DEF FInv, Identities, Shapes, Ids, SpendAssumption
  <2>3. \A d \in Callers : call'[d].pc # "idle" => call'[d].id \in 1..attempts'
    BY <1>a, <1>b, <2>1 DEF SpendAssumption
  <2>4. ASSUME NEW d \in Callers, NEW e \in Callers, call'[d].pc # "idle", call'[e].pc # "idle",
               call'[d].id = call'[e].id
        PROVE  d = e
    BY <1>a, <1>b, <2>1, <2>4 DEF SpendAssumption, FInv, Identities
  <2>. QED  BY <1>a, <2>2, <2>3, <2>4 DEF Identities, file
<1>5. InFile'
  <2>1. \A n \in 1..Len(journal) : journal[n].rec.id # attempts'
    BY <1>a, LineType DEF FInv, Identities, Shapes, Ids, SpendAssumption
  <2>2. \A d \in Callers : call'[d].pc = "reserving" => d = c
    BY <1>a, <1>b DEF FInv, Locking, SpendAssumption
  <2>3. \A d \in Callers : call'[d].pc = "reserved" => call[d].pc = "reserved" /\ call'[d] = call[d]
    BY <1>b
  <2>. QED  BY <1>a, <1>b, <1>c, <2>1, <2>2, <2>3
         DEF FInv, InFile, Journaled, Unclosed, Appended, file, memory
<1>. QED  BY <1>1, <1>2, <1>3, <1>4, <1>5 DEF FInv

LEMMA FileExecute ==
  ASSUME SpendAssumption, FInv, NEW c \in Callers, Execute(c)
  PROVE  FInv'
<1>a. /\ call[c].pc = "reserved" /\ incurred' \in Nat
      /\ UNCHANGED <<file, open, memory, append, acked, attempts, opens>>
  BY DEF Execute, FInv, Shapes, SpendAssumption
<1>b. /\ call' \in [Callers -> CallType]
      /\ call'[c].pc \in {"executed", "failed"} /\ call'[c].id = call[c].id
      /\ \A d \in Callers : d # c => call'[d] = call[d]
  <2>1. call \in [Callers -> CallType] /\ call[c] \in CallType
    BY DEF FInv, Shapes
  <2>2. PICK usd \in 0..per_call :
          \/ call' = [call EXCEPT ![c] = [call[c] EXCEPT !.pc = "executed", !.cost = usd]]
          \/ call' = [call EXCEPT ![c] = [call[c] EXCEPT !.pc = "failed"]]
    BY <2>1 DEF Execute
  <2> DEFINE e == [call[c] EXCEPT !.pc = "executed", !.cost = usd]
             f == [call[c] EXCEPT !.pc = "failed"]
  <2>3. /\ e \in CallType /\ e.pc = "executed" /\ e.id = call[c].id
        /\ f \in CallType /\ f.pc = "failed" /\ f.id = call[c].id
    BY <2>1 DEF CallType
  <2>4. call' = [call EXCEPT ![c] = e] \/ call' = [call EXCEPT ![c] = f]
    BY <2>2
  <2> HIDE DEF e, f
  <2>. QED  BY <2>1, <2>3, <2>4
<1>c. \A d \in Callers : Active(d)' => Active(d) /\ call'[d].id = call[d].id
  BY <1>a, <1>b DEF Active
<1>d. lock # c
  BY <1>a DEF FInv, Locking, Appends, SpendAssumption
<1>1. Shapes'
  BY <1>a, <1>b DEF FInv, Shapes, file, append
<1>2. Locking'
  BY <1>a, <1>b, <1>d DEF FInv, Locking, Appends, append, Shapes
<1>3. Attesting'
  BY <1>a, <1>c DEF FInv, Attesting, Appended, file, memory, append
<1>4. Identities'
  BY <1>a, <1>b DEF FInv, Identities, file
<1>5. InFile'
  BY <1>a, <1>b, <1>c DEF FInv, InFile, Journaled, Unclosed, Appended, file, memory, append
<1>. QED  BY <1>1, <1>2, <1>3, <1>4, <1>5 DEF FInv

\* A caller begins to close its reservation.
LEMMA FileClosing ==
  ASSUME SpendAssumption, FInv, NEW c \in Callers, Reconcile(c) \/ Forfeit(c)
  PROVE  FInv'
<1>a. /\ lock = None /\ open /\ step = "none" /\ lock' = c /\ step' = "checked" /\ c # None
      /\ call[c].pc # "reserving" /\ pending'.ev # "reserve"
      /\ UNCHANGED <<file, memory, open, created, incurred, acked, opens, call, attempts>>
      /\ Appends(c)'
  BY DEF Reconcile, Forfeit, Begin, Appends, FInv, Locking, SpendAssumption
<1>1. Shapes'
  BY <1>a DEF FInv, Shapes, file
<1>2. Locking'
  BY <1>a DEF FInv, Locking, SpendAssumption
<1>3. Attesting'
  BY <1>a DEF FInv, Attesting, Appended, Active, file, memory
<1>4. Identities'
  BY <1>a DEF FInv, Identities, file
<1>5. InFile'
  BY <1>a DEF FInv, InFile, Active, Journaled, Unclosed, Appended, file, memory
<1>. QED  BY <1>1, <1>2, <1>3, <1>4, <1>5 DEF FInv

\* The lines that a power loss leaves are lines of the file, in their places.
LEMMA Surviving ==
  ASSUME SpendAssumption, FInv, NEW j \in Survivors
  PROVE  /\ j \in Seq(Chunk) /\ Len(j) \in stable..Len(journal)
         /\ \A n \in 1..Len(j) : n \in 1..Len(journal) /\ j[n].rec = journal[n].rec
<1>1. journal \in Seq(Chunk) /\ stable \in 0..Len(journal) /\ Len(journal) \in Nat
  BY DEF FInv, Shapes
<1>2. CASE \E n \in stable..Len(journal) : j = SubSeq(journal, 1, n)
  BY <1>1, <1>2
<1>3. CASE \E n \in (stable + 1)..Len(journal), part \in {"bare", "piece"} :
             j = Append(SubSeq(journal, 1, n - 1), [journal[n] EXCEPT !.part = part])
  <2>1. PICK n \in (stable + 1)..Len(journal), part \in {"bare", "piece"} :
             j = Append(SubSeq(journal, 1, n - 1), [journal[n] EXCEPT !.part = part])
    BY <1>3
  <2> DEFINE s == SubSeq(journal, 1, n - 1)
             ch == [journal[n] EXCEPT !.part = part]
  <2>2. n \in 1..Len(journal) /\ journal[n] \in Chunk
    BY <1>1
  <2>3. ch \in Chunk /\ ch.rec = journal[n].rec
    BY <2>2 DEF Chunk
  <2>4. /\ s \in Seq(Chunk) /\ Len(s) = n - 1
        /\ \A m \in 1..(n - 1) : s[m] = journal[m]
    BY <1>1, <2>2
  <2> HIDE DEF s, ch
  <2>5. j = Append(s, ch)
    BY <2>1 DEF s, ch
  <2>6. /\ j \in Seq(Chunk) /\ Len(j) = n /\ j[n] = ch
        /\ \A m \in 1..(n - 1) : j[m] = s[m]
    BY <2>2, <2>3, <2>4, <2>5
  <2>. QED  BY <1>1, <2>2, <2>3, <2>4, <2>6
<1>. QED  BY <1>2, <1>3 DEF Survivors

LEMMA FileGone ==
  ASSUME SpendAssumption, FInv, Crash \/ PowerLoss
  PROVE  FInv'
<1>a. /\ open' = FALSE /\ lock' = None /\ step' = "none" /\ pending' = None /\ created' = FALSE
      /\ call' = [c \in Callers |-> Idle]
      /\ UNCHANGED <<incurred, acked, attempts, opens>>
  BY DEF Crash, PowerLoss, Gone, Unlock
<1>b. Idle \in CallType /\ Idle.pc = "idle"
  BY DEF Idle, CallType, SpendAssumption
<1>c. /\ call' \in [Callers -> CallType]
      /\ \A c \in Callers : call'[c].pc = "idle"
  BY <1>a, <1>b
<1>d. /\ journal' \in Seq(Chunk) /\ Len(journal') <= Len(journal)
      /\ \A n \in 1..Len(journal') : n \in 1..Len(journal) /\ journal'[n].rec = journal[n].rec
      /\ stable' \in 0..Len(journal') /\ exists' \in BOOLEAN /\ linked' \in BOOLEAN
      /\ ~exists' => journal' = <<>>
  <2>1. CASE UNCHANGED file
    BY <2>1 DEF file, FInv, Shapes
  <2>2. CASE /\ journal' \in Survivors
             /\ stable' = Len(journal') /\ exists' = exists /\ linked' = exists
    <3>1. /\ journal' \in Seq(Chunk) /\ Len(journal') \in stable..Len(journal)
          /\ \A n \in 1..Len(journal') :
               n \in 1..Len(journal) /\ journal'[n].rec = journal[n].rec
      BY <2>2, Surviving
    <3>2. journal = <<>> => journal' = <<>>
      BY <3>1 DEF FInv, Shapes
    <3>. QED  BY <2>2, <3>1, <3>2 DEF FInv, Shapes
  <2>3. CASE journal' = <<>> /\ exists' = FALSE /\ stable' = 0 /\ linked' = FALSE
    <3>1. <<>> \in Seq(Chunk) /\ Len(<<>>) = 0
      OBVIOUS
    <3>2. Len(journal) \in Nat
      BY DEF FInv, Shapes
    <3>3. journal' \in Seq(Chunk) /\ Len(journal') = 0
      BY <2>3, <3>1
    <3>4. \A n \in 1..Len(journal') :
            n \in 1..Len(journal) /\ journal'[n].rec = journal[n].rec
      BY <3>3
    <3>5. stable' \in 0..Len(journal') /\ Len(journal') <= Len(journal)
      BY <2>3, <3>2, <3>3
    <3>. QED  BY <2>3, <3>3, <3>4, <3>5
  <2>. QED  BY <2>1, <2>2, <2>3 DEF Crash, PowerLoss
<1>1. Shapes'
  BY <1>a, <1>c, <1>d DEF FInv, Shapes
<1>2. Locking'
  BY <1>a, <1>c DEF Locking
<1>3. Attesting'
  BY <1>a, <1>c DEF Attesting, Appended, Active
<1>4. Identities'
  BY <1>a, <1>c, <1>d DEF FInv, Identities
<1>5. InFile'
  BY <1>c, <1>d DEF FInv, InFile, OnceEach, Active
<1>. QED  BY <1>1, <1>2, <1>3, <1>4, <1>5 DEF FInv

LEMMA FileStep ==
  ASSUME SpendAssumption, FInv, [Next]_vars
  PROVE  FInv'
<1>1. CASE UNCHANGED vars
  BY <1>1 DEF vars, file, memory, append, FInv, Shapes, Locking, Appends, Attesting, Appended,
              Active, Identities, InFile, OnceEach, Journaled, Unclosed
<1>2. CASE \E c \in Callers : Reserve(c) \/ Execute(c) \/ Reconcile(c) \/ Forfeit(c)
  BY <1>2, FileReserve, FileExecute, FileClosing
<1>. QED  BY <1>1, <1>2, FileOpen, FileRefuse, FileWrite, FileWriteFails, FileFsync,
              FileFsyncDirectory, FileFsyncFails, FileSettle, FileGone DEF Next

----------------------------------------------------------------------------
(* The books are kept.                                                     *)

ZeroAmounts == [id \in Ids |-> 0]

LEMMA ZeroSum ==
  ASSUME SpendAssumption
  PROVE  ZeroAmounts \in Amounts /\ Dollars(ZeroAmounts) = 0
<1>1. ZeroAmounts \in Amounts /\ \A id \in Ids : ZeroAmounts[id] = 0
  BY DEF ZeroAmounts, Amounts, SpendAssumption
<1>. QED  BY <1>1, DollarsOfNone

LEMMA AmountType ==
  ASSUME SpendAssumption, NEW f \in Amounts, NEW id \in Ids
  PROVE  f[id] \in Nat /\ f[id] <= per_call
  BY DEF Amounts, SpendAssumption

\* What was paid is covered by every file that has the stable lines, and no
\* lines that are not in the file.
LEMMA Covered ==
  ASSUME SpendAssumption, FInv, NEW paid \in Amounts, Paid(paid), NEW id \in Ids,
         NEW j \in Seq(Chunk), Len(j) \in stable..Len(journal),
         \A n \in 1..Len(j) : n \in 1..Len(journal) /\ j[n].rec = journal[n].rec
  PROVE  OnceEach(j) /\ paid[id] <= ChargeOf(j, id)
<1>1. OnceEach(j)
  BY DEF FInv, InFile, OnceEach
<1>2. ChargeOf(j, id) \in 0..per_call /\ paid[id] \in Nat /\ paid[id] <= per_call
  BY <1>1, ChargeType, AmountType
<1>3. CASE paid[id] = 0
  BY <1>1, <1>2, <1>3 DEF SpendAssumption
<1>4. CASE paid[id] > 0
  <2>1. PICK n \in 1..stable : journal[n].rec = Reservation(id)
    BY <1>4 DEF Paid
  <2>2. n \in 1..Len(j) /\ j[n].rec.id = id /\ j[n].rec.usd = per_call
    BY <2>1 DEF Reservation, FInv, Shapes
  <2>3. CASE \A m \in 1..Len(j) : j[m].rec.id = id => j[m].rec.ev = "reserve"
    BY <1>1, <1>2, <2>2, <2>3, ChargedBy
  <2>4. CASE \E m \in 1..Len(j) : j[m].rec.id = id /\ j[m].rec.ev # "reserve"
    <3>1. PICK m \in 1..Len(j) : j[m].rec.id = id /\ j[m].rec.ev # "reserve"
      BY <2>4
    <3>2. ChargeOf(j, id) = j[m].rec.usd
      BY <1>1, <3>1, ChargedBy
    <3>3. paid[id] <= j[m].rec.usd
      BY <3>1 DEF Paid
    <3>. QED  BY <1>1, <3>2, <3>3
  <2>. QED  BY <2>3, <2>4
<1>. QED  BY <1>2, <1>3, <1>4

LEMMA BooksInit == SpendAssumption /\ Init => Books
<1> SUFFICES ASSUME SpendAssumption, Init  PROVE Books
  OBVIOUS
<1>1. /\ ZeroAmounts \in Amounts /\ Dollars(ZeroAmounts) = 0
      /\ \A id \in Ids : ZeroAmounts[id] = 0
  BY ZeroSum DEF ZeroAmounts
<1>2. /\ journal = <<>> /\ Len(journal) = 0
      /\ \A c \in Callers : call[c].pc = "idle"
  BY DEF Init, Idle
<1>3. Totals(ZeroAmounts, ZeroAmounts)
  BY <1>1 DEF Init, Totals, SpendAssumption
<1>4. Holds(ZeroAmounts, ZeroAmounts) /\ Within(ZeroAmounts, ZeroAmounts)
  BY <1>1, <1>2 DEF Init, Holds, Within, Active
<1>5. Paid(ZeroAmounts) /\ Backed(ZeroAmounts, ZeroAmounts, ZeroAmounts)
  BY <1>1, <1>2 DEF Init, Paid, Backed, SpendAssumption
<1>. QED  BY <1>1, <1>3, <1>4, <1>5 DEF Books, Accounts

LEMMA BooksOpen ==
  ASSUME SpendAssumption, FInv, Open, NEW settled \in Amounts, NEW held \in Amounts,
         NEW paid \in Amounts, Accounts(settled, held, paid)
  PROVE  Books'
<1>1. journal \in Seq(Chunk) /\ OnceEach(journal) /\ Len(journal) \in Nat
  BY DEF FInv, Shapes, InFile
<1>0. PICK charged \in Amounts : charged = [id \in Ids |-> ChargeOf(journal, id)]
  BY <1>1, ChargeType DEF Amounts
<1>2. \A id \in Ids : charged[id] = ChargeOf(journal, id)
  BY <1>0
<1>3. spent' = Dollars(charged) /\ Dollars(charged) <= maximum_usd /\ reserved' = 0
  BY <1>0 DEF Open, Charged
<1>4. /\ ZeroAmounts \in Amounts /\ Dollars(ZeroAmounts) = 0
      /\ \A id \in Ids : ZeroAmounts[id] = 0
  BY ZeroSum DEF ZeroAmounts
<1>5. Dollars(charged) \in Nat
  BY CoinsFinite
<1>6. \A id \in Ids : charged[id] \in Nat
  BY <1>2, AmountType
<1>a. UNCHANGED <<file, append, call, incurred, acked, attempts>> /\ ~open /\ open'
  BY DEF Open
<1>b. \A c \in Callers : call[c].pc = "idle"
  BY <1>a DEF FInv, Locking
<1>c. lock = None
  BY <1>a DEF FInv, Locking
<1>7. Totals(charged, ZeroAmounts)'
  <2>1. \A id \in Ids : id > attempts => charged[id] = 0
    <3> SUFFICES ASSUME NEW id \in Ids, id > attempts  PROVE charged[id] = 0
      OBVIOUS
    <3>1. attempts \in Nat /\ id \in Nat
      BY DEF FInv, Shapes, Ids, SpendAssumption
    <3>2. ASSUME NEW n \in 1..Len(journal)  PROVE journal[n].rec.id # id
      <4>1. journal[n].rec.id <= attempts
        BY DEF FInv, Identities
      <4>. QED  BY <3>1, <4>1
    <3>. QED  BY <1>2, <3>2, NotCharged
  <2>. QED  BY <1>3, <1>4, <1>5, <1>a, <2>1 DEF Totals, SpendAssumption
<1>8. Holds(charged, ZeroAmounts)'
  <2>1. identity' = None => journal = <<>>
    BY <1>1, NoneAssumption DEF Open, Stat, FInv, Shapes
  <2>2. identity' = None => \A id \in Ids : charged[id] = 0
    BY <1>2, <2>1, NotCharged
  <2>. QED  BY <1>4, <1>a, <1>b, <1>c, <2>2 DEF Holds, Active, append
<1>9. Within(charged, ZeroAmounts)'
  BY <1>2, <1>4, <1>6, <1>a DEF Within, file
<1>10. ~Unlinked => Paid(paid)' /\ Backed(paid, charged, ZeroAmounts)'
  <2> SUFFICES ASSUME ~Unlinked  PROVE Paid(paid)' /\ Backed(paid, charged, ZeroAmounts)'
    OBVIOUS
  <2>1. Paid(paid)
    BY DEF Accounts
  <2>2. \A id \in Ids : paid[id] <= charged[id]
    BY <1>1, <1>2, <2>1, Covered DEF FInv, Shapes
  <2>3. Paid(paid)'
    BY <1>a, <2>1 DEF Paid, file
  <2>. QED  BY <1>4, <1>6, <2>2, <2>3 DEF Backed
<1>. QED  BY <1>2, <1>4, <1>7, <1>8, <1>9, <1>10 DEF Books, Accounts

LEMMA BooksRefuse ==
  ASSUME SpendAssumption, FInv, Refuse \/ FsyncFails, NEW settled \in Amounts, NEW held \in Amounts,
         NEW paid \in Amounts, Accounts(settled, held, paid)
  PROVE  Books'
<1>1. /\ lock' = None /\ step' = "none" /\ pending' = None
      /\ \A c \in Callers :
           /\ call'[c].pc # "idle" => call[c].pc # "idle" /\ call'[c].id = call[c].id
           /\ call'[c].pc # "reserving"
           /\ call'[c].pc \in {"reserved", "executed"} => c # lock /\ call'[c] = call[c]
           /\ call'[c].pc = "failed" => Active(c)
  BY RaisedCalls DEF Refuse, FsyncFails
<1>2. \A c \in Callers : Active(c)' => Active(c) /\ call'[c].id = call[c].id
  BY <1>1 DEF Active
<1>3. UNCHANGED <<file, open, memory, incurred, acked, attempts, opens>>
  BY DEF Refuse, FsyncFails
<1>4. Totals(settled, held)'
  BY <1>3 DEF Accounts, Totals, memory
<1>5. Holds(settled, held)'
  BY <1>1, <1>2, <1>3 DEF Accounts, Holds, memory
<1>6. Within(settled, held)'
  <2> SUFFICES ASSUME open, identity = journal, NEW id \in Ids
               PROVE  settled[id] + held[id] <= ChargeOf(journal, id)
    BY <1>1, <1>3 DEF Within, Appended, file, memory
  <2>1. CASE ~(Appended /\ pending.id = id)
    BY <2>1 DEF Accounts, Within
  <2>2. CASE Appended /\ pending.id = id
    <3>1. step = "synced" \/ identity = None
      BY <2>2 DEF Refuse, FsyncFails, Appended, FInv, Attesting
    <3>2. settled[id] = 0 /\ held[id] = 0
      <4>1. CASE identity = None
        BY <4>1 DEF Accounts, Holds
      <4>2. CASE step = "synced"
        <5>1. pending.ev = "reserve"
          BY <4>2 DEF FInv, Attesting, Locking
        <5>2. lock \in Callers /\ call[lock].pc = "reserving" /\ call[lock].id = id
          BY <2>2, <4>2, <5>1, Holder
        <5>. QED  BY <5>2 DEF Accounts, Holds
      <4>. QED  BY <3>1, <4>1, <4>2
    <3>3. ChargeOf(journal, id) \in 0..per_call
      BY ChargeType DEF FInv, Shapes, InFile
    <3>. QED  BY <3>2, <3>3 DEF SpendAssumption
  <2>. QED  BY <2>1, <2>2
<1>7. ~Unlinked => Paid(paid)' /\ Backed(paid, settled, held)'
  BY <1>1, <1>3 DEF Accounts, Paid, Backed, file
<1>. QED  BY <1>4, <1>5, <1>6, <1>7 DEF Books, Accounts

\* The line that is being added is about the caller inside the ledger, which
\* is charged there what it owes.
LEMMA BooksLine ==
  ASSUME SpendAssumption, FInv, step = "checked", Attested,
         NEW part \in {"line", "bare", "piece"},
         journal' = Append(journal, [rec |-> pending, part |-> part]),
         NEW settled \in Amounts, NEW held \in Amounts,
         NEW paid \in Amounts, Accounts(settled, held, paid)
  PROVE  /\ \A id \in Ids : id # pending.id =>
              settled[id] + held[id] <= ChargeOf(journal', id)
         /\ ~Unlinked =>
              \A n \in 1..Len(journal') : journal'[n].rec.ev # "reserve" =>
                paid[journal'[n].rec.id] <= journal'[n].rec.usd
<1> DEFINE ch == [rec |-> pending, part |-> part]
<1>1. /\ journal' \in Seq(Chunk) /\ Len(journal') = Len(journal) + 1 /\ Len(journal) \in Nat
      /\ \A n \in 1..Len(journal) : n \in 1..Len(journal') /\ journal'[n] = journal[n]
      /\ \A n \in 1..Len(journal') : n \in 1..Len(journal) \/ n = Len(journal')
      /\ journal'[Len(journal')].rec = pending
      /\ ch \in Chunk
  BY Appending
<1>2. OnceEach(journal') /\ journal \in Seq(Chunk)
  BY LineAdded DEF FInv, Shapes
<1>3. /\ lock \in Callers /\ open /\ pending.id = call[lock].id /\ pending.id \in Ids
      /\ pending.ev = "reserve" \/ pending.ev = "reconcile" \/ pending.ev = "forfeit"
      /\ pending.ev = "reconcile" => call[lock].pc = "executed" /\ pending.usd = call[lock].cost
      /\ pending.ev = "forfeit" => pending.usd = per_call
  BY Holder DEF Record
<1>4. ASSUME NEW id \in Ids, id # pending.id
      PROVE  settled[id] + held[id] <= ChargeOf(journal', id)
  <2>1. ch.rec.id # id
    BY <1>4
  <2>2. journal' = Append(journal, ch)
    OBVIOUS
  <2>3. OnceEach(Append(journal, ch))
    BY <1>2, <2>2
  <2> HIDE DEF ch
  <2>4. ChargeOf(journal', id) = ChargeOf(journal, id) /\ OnceEach(journal)
    BY <1>1, <1>2, <2>1, <2>2, <2>3, ChargeKept
  <2>5. ChargeOf(journal, id) \in 0..per_call
    BY <1>2, <2>4, ChargeType
  <2>6. CASE identity = None
    BY <1>3, <2>4, <2>5, <2>6 DEF Accounts, Holds, SpendAssumption
  <2>7. CASE identity = journal
    BY <1>3, <2>4, <2>7 DEF Accounts, Within, Appended
  <2>. QED  BY <2>6, <2>7 DEF Attested, Stat
<1>5. ASSUME ~Unlinked, NEW n \in 1..Len(journal'), journal'[n].rec.ev # "reserve"
      PROVE  paid[journal'[n].rec.id] <= journal'[n].rec.usd
  <2>1. CASE n \in 1..Len(journal)
    BY <1>1, <1>5, <2>1 DEF Accounts, Paid
  <2>2. CASE n = Len(journal')
    <3>1. CASE pending.ev = "reconcile"
      <4>1. paid[pending.id] = pending.usd /\ pending.usd \in Nat
        BY <1>3, <1>5, <3>1, AmountType DEF Accounts, Paid
      <4>. QED  BY <1>1, <2>2, <4>1
    <3>2. CASE pending.ev = "forfeit"
      BY <1>1, <1>3, <2>2, <3>2, AmountType
    <3>. QED  BY <1>1, <1>3, <1>5, <2>2, <3>1, <3>2
  <2>. QED  BY <1>1, <2>1, <2>2
<1>. QED  BY <1>4, <1>5

LEMMA BooksWrite ==
  ASSUME SpendAssumption, FInv, Write, NEW settled \in Amounts, NEW held \in Amounts,
         NEW paid \in Amounts, Accounts(settled, held, paid)
  PROVE  Books'
<1>1. /\ \A id \in Ids : id # pending.id =>
           settled[id] + held[id] <= ChargeOf(journal', id)
      /\ ~Unlinked =>
           \A n \in 1..Len(journal') : journal'[n].rec.ev # "reserve" =>
             paid[journal'[n].rec.id] <= journal'[n].rec.usd
  BY BooksLine DEF Write
<1>2. \A n \in 1..stable : journal'[n] = journal[n]
  BY Appending DEF Write, FInv, Shapes
<1>3. step' = "written" /\ UNCHANGED <<stable, open, memory, lock, pending, call, incurred, attempts>>
  BY DEF Write
<1>4. Totals(settled, held)'
  BY <1>3 DEF Accounts, Totals, memory
<1>5. Holds(settled, held)'
  BY <1>3 DEF Accounts, Holds, Active, memory
<1>6. Within(settled, held)'
  BY <1>1, <1>3 DEF Within, Appended
<1>7. ~Unlinked => Paid(paid)' /\ Backed(paid, settled, held)'
  <2> SUFFICES ASSUME ~Unlinked  PROVE Paid(paid)' /\ Backed(paid, settled, held)'
    OBVIOUS
  <2>1. Paid(paid) /\ Backed(paid, settled, held)
    BY DEF Accounts
  <2>2. \A id \in Ids : paid[id] > 0 => \E n \in 1..stable : journal'[n].rec = Reservation(id)
    BY <1>2, <2>1 DEF Paid
  <2>. QED  BY <1>1, <1>3, <2>1, <2>2 DEF Paid, Backed
<1>. QED  BY <1>4, <1>5, <1>6, <1>7 DEF Books, Accounts

LEMMA BooksWriteFails ==
  ASSUME SpendAssumption, FInv, WriteFails, NEW settled \in Amounts, NEW held \in Amounts,
         NEW paid \in Amounts, Accounts(settled, held, paid)
  PROVE  Books'
<1>1. /\ lock' = None /\ step' = "none" /\ pending' = None
      /\ \A c \in Callers :
           /\ call'[c].pc # "idle" => call[c].pc # "idle" /\ call'[c].id = call[c].id
           /\ call'[c].pc # "reserving"
           /\ call'[c].pc \in {"reserved", "executed"} => c # lock /\ call'[c] = call[c]
           /\ call'[c].pc = "failed" => Active(c)
  BY RaisedCalls DEF WriteFails
<1>2. \A c \in Callers : Active(c)' => Active(c) /\ call'[c].id = call[c].id
  BY <1>1 DEF Active
<1>3. /\ UNCHANGED <<stable, linked, open, memory, incurred, acked, attempts, opens>>
      /\ step = "checked" /\ Attested
  BY DEF WriteFails
<1>4. Totals(settled, held)'
  BY <1>3 DEF Accounts, Totals, memory
<1>5. Holds(settled, held)'
  BY <1>1, <1>2, <1>3 DEF Accounts, Holds, memory
<1>6. CASE journal' = journal
  <2>1. Within(settled, held)'
    BY <1>1, <1>3, <1>6 DEF Accounts, Within, Appended, memory
  <2>2. ~Unlinked => Paid(paid)' /\ Backed(paid, settled, held)'
    BY <1>1, <1>3, <1>6 DEF Accounts, Paid, Backed
  <2>. QED  BY <1>4, <1>5, <2>1, <2>2 DEF Books, Accounts
<1>7. CASE journal' # journal
  <2>1. PICK part \in {"bare", "piece"} :
          journal' = Append(journal, [rec |-> pending, part |-> part])
    BY <1>7 DEF WriteFails
  <2>2. ~Unlinked =>
          \A n \in 1..Len(journal') : journal'[n].rec.ev # "reserve" =>
            paid[journal'[n].rec.id] <= journal'[n].rec.usd
    BY <1>3, <2>1, BooksLine
  <2>3. \A n \in 1..stable : journal'[n] = journal[n]
    BY <1>3, <2>1, Appending DEF FInv, Shapes
  <2>4. OnceEach(journal') /\ journal' \in Seq(Chunk)
    BY <1>3, <2>1, LineAdded, Appending
  <2>5. Within(settled, held)'
    <3> SUFFICES ASSUME open, identity = journal', NEW id \in Ids
                 PROVE  settled[id] + held[id] <= ChargeOf(journal', id)
      BY <1>1, <1>3 DEF Within, memory
    <3>1. identity = None
      BY <1>3, <1>7 DEF Attested, Stat
    <3>. QED  BY <2>4, <3>1, NoneAssumption
  <2>6. ~Unlinked => Paid(paid)' /\ Backed(paid, settled, held)'
    <3> SUFFICES ASSUME ~Unlinked  PROVE Paid(paid)' /\ Backed(paid, settled, held)'
      OBVIOUS
    <3>1. Paid(paid) /\ Backed(paid, settled, held)
      BY DEF Accounts
    <3>2. \A id \in Ids : paid[id] > 0 => \E n \in 1..stable : journal'[n].rec = Reservation(id)
      BY <2>3, <3>1 DEF Paid
    <3>. QED  BY <1>1, <1>3, <2>2, <3>1, <3>2 DEF Paid, Backed
  <2>. QED  BY <1>4, <1>5, <2>5, <2>6 DEF Books, Accounts
<1>. QED  BY <1>6, <1>7

LEMMA BooksFsync ==
  ASSUME SpendAssumption, FInv, Fsync \/ FsyncDirectory, NEW settled \in Amounts, NEW held \in Amounts,
         NEW paid \in Amounts, Accounts(settled, held, paid)
  PROVE  Books'
<1>1. /\ UNCHANGED <<journal, open, spent, reserved, lock, pending, call, incurred, attempts>>
      /\ step \in {"written", "synced"} /\ step' \in {"synced", "rooted"}
      /\ stable' \in Nat /\ stable <= stable' /\ stable \in Nat
  BY DEF Fsync, FsyncDirectory, memory, FInv, Shapes
<1>2. identity' = journal /\ identity' # None
  BY NoneAssumption DEF Fsync, FsyncDirectory, memory, Stat, FInv, Attesting, Shapes
<1>3. Totals(settled, held)'
  BY <1>1 DEF Accounts, Totals
<1>4. Holds(settled, held)'
  BY <1>1, <1>2 DEF Accounts, Holds, Active
<1>5. Within(settled, held)'
  <2>1. identity = journal \/ step = "written"
    BY <1>1 DEF FInv, Attesting
  <2>. QED  BY <1>1, <2>1 DEF Accounts, Within, Appended
<1>6. ~Unlinked => Paid(paid)' /\ Backed(paid, settled, held)'
  <2> SUFFICES ASSUME ~Unlinked  PROVE Paid(paid)' /\ Backed(paid, settled, held)'
    OBVIOUS
  <2>1. Paid(paid) /\ Backed(paid, settled, held)
    BY DEF Accounts
  <2>2. \A n \in 1..stable : n \in 1..stable'
    BY <1>1
  <2>. QED  BY <1>1, <2>1, <2>2 DEF Paid, Backed
<1>. QED  BY <1>3, <1>4, <1>5, <1>6 DEF Books, Accounts

LEMMA BooksReserve ==
  ASSUME SpendAssumption, FInv, NEW c \in Callers, Reserve(c),
         NEW settled \in Amounts, NEW held \in Amounts,
         NEW paid \in Amounts, Accounts(settled, held, paid)
  PROVE  Books'
<1>1. /\ step = "none" /\ step' = "checked" /\ attempts' = attempts + 1 /\ attempts \in Nat
      /\ spent + reserved + per_call <= maximum_usd
      /\ attempts' \in Ids
      /\ UNCHANGED <<file, memory, open, incurred>>
  BY DEF Reserve, Begin, FInv, Locking, Shapes, SpendAssumption, Ids
<1>2. /\ call'[c].pc = "reserving" /\ call'[c].id = attempts'
      /\ \A d \in Callers : d # c => call'[d] = call[d]
  BY DEF Reserve, FInv, Shapes
<1>3. attempts' > attempts /\ \A id \in Ids : id > attempts' => id > attempts
  BY <1>1 DEF Ids, SpendAssumption
<1>4. Totals(settled, held)'
  BY <1>1, <1>3 DEF Accounts, Totals, memory
<1>5. Holds(settled, held)'
  <2>1. settled[attempts'] = 0 /\ held[attempts'] = 0
    BY <1>1, <1>3 DEF Accounts, Totals
  <2>. QED  BY <1>1, <1>2, <2>1 DEF Accounts, Holds, Active, memory
<1>6. Within(settled, held)'
  BY <1>1 DEF Accounts, Within, Appended, file, memory
<1>7. ~Unlinked => Paid(paid)' /\ Backed(paid, settled, held)'
  <2> SUFFICES ASSUME ~Unlinked  PROVE Paid(paid)' /\ Backed(paid, settled, held)'
    OBVIOUS
  <2>1. Paid(paid) /\ Backed(paid, settled, held)
    BY DEF Accounts
  <2>2. paid[attempts'] = 0
    BY <1>1, <1>3, <2>1 DEF Paid
  <2>. QED  BY <1>1, <1>2, <1>3, <2>1, <2>2 DEF Paid, Backed, file
<1>. QED  BY <1>4, <1>5, <1>6, <1>7 DEF Books, Accounts

LEMMA BooksClosing ==
  ASSUME SpendAssumption, FInv, NEW c \in Callers, Reconcile(c) \/ Forfeit(c),
         NEW settled \in Amounts, NEW held \in Amounts,
         NEW paid \in Amounts, Accounts(settled, held, paid)
  PROVE  Books'
<1>1. /\ step = "none" /\ step' = "checked" /\ pending'.ev # "reserve"
      /\ UNCHANGED <<file, memory, open, incurred, call, attempts>>
  BY DEF Reconcile, Forfeit, Begin, FInv, Locking
<1>2. Totals(settled, held)' /\ Holds(settled, held)' /\ Within(settled, held)'
  BY <1>1 DEF Accounts, Totals, Holds, Within, Active, Appended, file, memory
<1>3. ~Unlinked => Paid(paid)' /\ Backed(paid, settled, held)'
  BY <1>1 DEF Accounts, Paid, Backed, file
<1>. QED  BY <1>2, <1>3 DEF Books, Accounts

\* An append that returned settles what it is about.
LEMMA BooksSettle ==
  ASSUME SpendAssumption, FInv, Settle, NEW settled \in Amounts, NEW held \in Amounts,
         NEW paid \in Amounts, Accounts(settled, held, paid)
  PROVE  Books'
<1>1. PICK id \in Ids : id = pending.id
  BY Holder DEF Settle
<1>2. /\ lock \in Callers /\ open /\ id = call[lock].id
      /\ call[lock].pc \in {"reserving", "executed", "failed"}
      /\ pending \in Record
      /\ pending.ev = "reserve" <=> call[lock].pc = "reserving"
      /\ pending.ev \in {"reserve", "forfeit"} => pending.usd = per_call
      /\ pending.ev # "reserve" <=> Active(lock)
      /\ \A c \in Callers : call[c].pc = "reserving" => c = lock
  BY <1>1, Holder DEF Settle
<1>3. /\ identity = journal /\ step = "rooted" /\ step' = "none" /\ lock' = None
      /\ Len(journal) \in 1..Len(journal) /\ journal[Len(journal)].rec = pending
      /\ journal \in Seq(Chunk) /\ OnceEach(journal) /\ journal # None
      /\ UNCHANGED <<file, open, identity, incurred, attempts>>
  BY NoneAssumption DEF Settle, Unlock, FInv, Shapes, Attesting, Appended, InFile
<1>4. \A c \in Callers : c # lock => call'[c] = call[c]
  BY <1>2 DEF Settle, FInv, Shapes
<1>5. \A c \in Callers : c # lock /\ call[c].pc # "idle" => call[c].id # id
  BY <1>2 DEF FInv, Identities
<1>6. id <= attempts /\ id \in Nat /\ attempts \in Nat
  BY <1>2 DEF FInv, Identities, Shapes, Ids, SpendAssumption
<1>7. \A i \in Ids : i # id => settled[i] + held[i] <= ChargeOf(journal, i)
  BY <1>1, <1>2, <1>3 DEF Accounts, Within
<1>8. /\ per_call \in 0..per_call /\ per_call \in Nat
      /\ pending.usd \in 0..per_call /\ pending.usd \in Nat
  BY <1>2 DEF Record, SpendAssumption
<1>9. /\ spent = Dollars(settled) /\ reserved = Dollars(held)
      /\ spent \in Nat /\ reserved \in Nat /\ spent + reserved <= maximum_usd
  BY CoinsFinite DEF Accounts, Totals
<1>10. CASE pending.ev = "reserve"
  <2>1. PICK holding \in Amounts : holding = [held EXCEPT ![id] = per_call]
    BY <1>8 DEF Amounts
  <2>2. settled[id] = 0 /\ held[id] = 0
    BY <1>2, <1>10 DEF Accounts, Holds
  <2>3. Dollars(holding) = Dollars(held) + per_call
    BY <1>8, <2>1, <2>2, DollarsSet
  <2>4. holding[id] = per_call /\ \A i \in Ids : i # id => holding[i] = held[i]
    BY <2>1 DEF Amounts
  <2>5. /\ spent' = spent /\ reserved' = reserved + per_call
        /\ call'[lock].pc = "reserved" /\ call'[lock].id = id
    <3>1. call[lock] \in CallType /\ call \in [Callers -> CallType]
      BY <1>2 DEF FInv, Shapes
    <3>2. call'[lock] = [call[lock] EXCEPT !.pc = "reserved"]
      BY <1>2, <1>10, <3>1 DEF Settle
    <3>. QED  BY <1>2, <1>8, <1>10, <3>1, <3>2 DEF Settle, CallType
  <2>6. spent + reserved + per_call <= maximum_usd
    BY <1>2, <1>10 DEF Accounts, Holds, SpendAssumption
  <2>7. Totals(settled, holding)'
    <3>1. /\ spent' = Dollars(settled) /\ reserved' = Dollars(holding)
          /\ spent' + reserved' <= maximum_usd
      BY <1>8, <1>9, <2>3, <2>5, <2>6 DEF SpendAssumption
    <3>2. \A i \in Ids : settled[i] = 0 \/ holding[i] = 0
      BY <2>2, <2>4 DEF Accounts, Totals
    <3>3. \A i \in Ids : i > attempts => i # id /\ settled[i] = 0 /\ held[i] = 0
      BY <1>6 DEF Accounts, Totals
    <3>4. \A i \in Ids : i > attempts => settled[i] = 0 /\ holding[i] = 0
      BY <2>4, <3>3
    <3>. QED  BY <1>3, <3>1, <3>2, <3>4 DEF Totals
  <2>8. Holds(settled, holding)'
    <3>1. ASSUME NEW c \in Callers, call'[c].pc # "idle"
          PROVE  c = lock \/ (call'[c] = call[c] /\ call[c].id \in Ids /\ call[c].id # id)
      BY <1>4, <1>5, <3>1 DEF FInv, Identities, Shapes, Ids, SpendAssumption
    <3>2. ASSUME NEW c \in Callers, call'[c].pc = "reserving"
          PROVE  settled[call'[c].id] = 0 /\ holding[call'[c].id] = 0
      BY <1>2, <1>4, <2>5, <3>2
    <3>3. ASSUME NEW c \in Callers, Active(c)'  PROVE holding[call'[c].id] = per_call
      BY <2>4, <2>5, <3>1, <3>3 DEF Active, Accounts, Holds
    <3>. QED  BY <1>3, <3>2, <3>3 DEF Holds
  <2>9. ChargeOf(journal, id) = per_call
    <3>1. \A m \in 1..Len(journal) : journal[m].rec.id = id => journal[m].rec.ev = "reserve"
      BY <1>2, <1>3, <1>10 DEF FInv, InFile
    <3>. QED  BY <1>1, <1>2, <1>3, <1>8, <1>10, <3>1, ChargedBy
  <2>10. Within(settled, holding)'
    BY <1>3, <1>7, <1>8, <2>2, <2>4, <2>9 DEF Within, file
  <2>11. ~Unlinked => Paid(paid)' /\ Backed(paid, settled, holding)'
    <3> SUFFICES ASSUME ~Unlinked  PROVE Paid(paid)' /\ Backed(paid, settled, holding)'
      OBVIOUS
    <3>1. Paid(paid) /\ Backed(paid, settled, held)
      BY DEF Accounts
    <3>2. paid[id] = 0
      BY <1>2, <1>10, <3>1 DEF Paid
    <3>3. Paid(paid)'
      BY <1>2, <1>3, <1>4, <2>5, <3>1, <3>2 DEF Paid, file
    <3>4. Backed(paid, settled, holding)'
      BY <1>2, <1>3, <1>8, <2>2, <2>4, <3>1, <3>2 DEF Backed
    <3>. QED  BY <3>3, <3>4
  <2>. QED  BY <2>7, <2>8, <2>10, <2>11 DEF Books, Accounts
<1>11. CASE pending.ev # "reserve"
  <2>1. PICK holding \in Amounts : holding = [held EXCEPT ![id] = 0]
    BY DollarsDrop
  <2>2. settled[id] = 0 /\ held[id] = per_call
    BY <1>2, <1>8, <1>11 DEF Accounts, Holds, Totals, SpendAssumption
  <2>3. PICK settling \in Amounts : settling = [settled EXCEPT ![id] = pending.usd]
    BY <1>8, <2>2, DollarsSet
  <2>4. Dollars(held) = Dollars(holding) + per_call
    BY <2>1, <2>2, DollarsDrop
  <2>5. Dollars(settling) = Dollars(settled) + pending.usd
    BY <1>8, <2>2, <2>3, DollarsSet
  <2>6. /\ holding[id] = 0 /\ settling[id] = pending.usd
        /\ \A i \in Ids : i # id => holding[i] = held[i] /\ settling[i] = settled[i]
    BY <2>1, <2>3 DEF Amounts
  <2>7. /\ spent' = spent + pending.usd /\ reserved' = reserved - per_call
        /\ call'[lock].pc = "idle"
    BY <1>2, <1>11 DEF Settle, FInv, Shapes, Idle
  <2>8. Dollars(holding) \in Nat
    BY CoinsFinite
  <2>9. Totals(settling, holding)'
    <3>1. /\ spent' = Dollars(settling) /\ reserved' = Dollars(holding)
          /\ spent' + reserved' <= maximum_usd
      <4>1. pending.usd <= per_call
        BY <1>8
      <4>. QED  BY <1>8, <1>9, <2>4, <2>5, <2>7, <2>8, <4>1 DEF SpendAssumption
    <3>2. \A i \in Ids : settling[i] = 0 \/ holding[i] = 0
      BY <2>6 DEF Accounts, Totals
    <3>3. \A i \in Ids : i > attempts => i # id /\ settled[i] = 0 /\ held[i] = 0
      BY <1>6 DEF Accounts, Totals
    <3>4. \A i \in Ids : i > attempts => settling[i] = 0 /\ holding[i] = 0
      BY <2>6, <3>3
    <3>. QED  BY <1>3, <3>1, <3>2, <3>4 DEF Totals
  <2>10. Holds(settling, holding)'
    <3>1. ASSUME NEW c \in Callers, call'[c].pc # "idle"
          PROVE  c # lock /\ call'[c] = call[c] /\ call[c].id \in Ids /\ call[c].id # id
      BY <1>4, <1>5, <2>7, <3>1 DEF FInv, Identities, Shapes, Ids, SpendAssumption
    <3>2. ASSUME NEW c \in Callers, Active(c)'  PROVE holding[call'[c].id] = per_call
      BY <2>6, <3>1, <3>2 DEF Active, Accounts, Holds
    <3>3. ASSUME NEW c \in Callers  PROVE call'[c].pc # "reserving"
      BY <1>2, <3>1
    <3>. QED  BY <1>3, <3>2, <3>3 DEF Holds
  <2>11. ChargeOf(journal, id) = pending.usd
    BY <1>1, <1>3, <1>11, ChargedBy
  <2>12. Within(settling, holding)'
    BY <1>3, <1>7, <1>8, <2>6, <2>11 DEF Within, file
  <2>13. ~Unlinked => Paid(paid)' /\ Backed(paid, settling, holding)'
    <3> SUFFICES ASSUME ~Unlinked  PROVE Paid(paid)' /\ Backed(paid, settling, holding)'
      OBVIOUS
    <3>1. Paid(paid) /\ Backed(paid, settled, held)
      BY DEF Accounts
    <3>2. paid[id] <= pending.usd
      BY <1>1, <1>3, <1>11, <3>1 DEF Paid
    <3>3. Paid(paid)'
      BY <1>3, <1>4, <2>7, <3>1 DEF Paid, file
    <3>4. Backed(paid, settling, holding)'
      BY <1>2, <1>3, <1>8, <2>6, <3>1, <3>2 DEF Backed
    <3>. QED  BY <3>3, <3>4
  <2>. QED  BY <2>9, <2>10, <2>12, <2>13 DEF Books, Accounts
<1>. QED  BY <1>10, <1>11

\* The provider is paid within what is held for the attempt.
LEMMA BooksExecute ==
  ASSUME SpendAssumption, FInv, NEW c \in Callers, Execute(c),
         NEW settled \in Amounts, NEW held \in Amounts,
         NEW paid \in Amounts, Accounts(settled, held, paid)
  PROVE  Books'
<1>1. PICK usd \in 0..per_call :
        /\ incurred' = incurred + usd
        /\ \/ call' = [call EXCEPT ![c].pc = "executed", ![c].cost = usd]
           \/ call' = [call EXCEPT ![c].pc = "failed"]
  BY DEF Execute
<1>2. /\ call[c].pc = "reserved" /\ Active(c) /\ open
      /\ UNCHANGED <<file, open, memory, append, attempts>>
  BY DEF Execute, Active, FInv, Locking
<1>3. /\ \A d \in Callers : d # c => call'[d] = call[d]
      /\ call'[c].id = call[c].id /\ call'[c].pc \in {"executed", "failed"}
      /\ call'[c].pc = "executed" => call'[c].cost = usd
  <2>1. call \in [Callers -> CallType] /\ call[c] \in CallType
    BY DEF FInv, Shapes
  <2> DEFINE e == [call[c] EXCEPT !.pc = "executed", !.cost = usd]
             f == [call[c] EXCEPT !.pc = "failed"]
  <2>2. /\ e.pc = "executed" /\ e.id = call[c].id /\ e.cost = usd
        /\ f.pc = "failed" /\ f.id = call[c].id
    BY <2>1 DEF CallType
  <2>3. call' = [call EXCEPT ![c] = e] \/ call' = [call EXCEPT ![c] = f]
    BY <1>1, <2>1
  <2> HIDE DEF e, f
  <2>. QED  BY <2>1, <2>2, <2>3
<1>4. Totals(settled, held)'
  BY <1>2 DEF Accounts, Totals, memory
<1>5. Holds(settled, held)'
  BY <1>2, <1>3 DEF Accounts, Holds, Active, memory, append
<1>6. Within(settled, held)'
  BY <1>2 DEF Accounts, Within, Appended, file, memory, append
<1>7. CASE Unlinked
  BY <1>4, <1>5, <1>6, <1>7 DEF Books, Accounts
<1>8. CASE ~Unlinked
  <2>1. Paid(paid) /\ Backed(paid, settled, held)
    BY <1>8 DEF Accounts
  <2>2. PICK id \in Ids : id = call[c].id
    BY <1>2 DEF FInv, Identities, Shapes, Ids, SpendAssumption
  <2>3. paid[id] = 0 /\ settled[id] = 0 /\ held[id] = per_call /\ id <= attempts
    BY <1>2, <2>1, <2>2
       DEF Paid, Accounts, Holds, Totals, SpendAssumption, FInv, Identities
  <2>4. PICK paying \in Amounts : paying = [paid EXCEPT ![id] = usd]
    BY <2>3, DollarsSet
  <2>5. Dollars(paying) = Dollars(paid) + usd
    BY <2>3, <2>4, DollarsSet
  <2>6. paying[id] = usd /\ \A i \in Ids : i # id => paying[i] = paid[i]
    BY <2>4 DEF Amounts
  <2>7. incurred' = Dollars(paying)
    BY <1>1, <2>1, <2>5 DEF Paid
  <2>8. \A i \in Ids : paying[i] <= settled[i] + held[i]
    BY <1>2, <2>1, <2>3, <2>6 DEF Backed, SpendAssumption
  <2>9. PICK booked \in Amounts : \A i \in Ids : booked[i] = settled[i] + held[i]
    <3> DEFINE b == [i \in Ids |-> settled[i] + held[i]]
    <3>1. ASSUME NEW i \in Ids  PROVE settled[i] + held[i] \in 0..per_call
      BY AmountType DEF Accounts, Totals, SpendAssumption
    <3>2. b \in Amounts
      BY <3>1 DEF Amounts
    <3>. QED  BY <3>2
  <2>10. Dollars(booked) = spent + reserved
    BY <2>9, DollarsAdd DEF Accounts, Totals
  <2>11. Dollars(paying) <= Dollars(booked)
    BY <2>8, <2>9, DollarsGrow
  <2>12. incurred' <= maximum_usd
    BY <2>7, <2>10, <2>11, CoinsFinite DEF Accounts, Totals, SpendAssumption
  <2>13. \A n \in 1..Len(journal) : journal[n].rec.id = id => journal[n].rec.ev = "reserve"
    BY <1>2, <2>2 DEF FInv, InFile, Unclosed
  <2>14. \E n \in 1..stable : journal[n].rec = Reservation(id)
    BY <1>2, <2>2 DEF FInv, InFile, Journaled
  <2>15. \A d \in Callers : d # c /\ call[d].pc # "idle" => call[d].id # id
    BY <1>2, <2>2 DEF FInv, Identities
  <2>16. \A n \in 1..Len(journal) : journal[n].rec.id \in Ids
    BY LineType DEF FInv, Shapes
  <2>17. \A d \in Callers :
           /\ call'[d].pc \in {"reserving", "reserved"} => paying[call'[d].id] = 0
           /\ call'[d].pc = "executed" => paying[call'[d].id] = call'[d].cost
    <3> SUFFICES ASSUME NEW d \in Callers, call'[d].pc \in {"reserving", "reserved", "executed"}
                 PROVE  /\ call'[d].pc \in {"reserving", "reserved"} => paying[call'[d].id] = 0
                        /\ call'[d].pc = "executed" => paying[call'[d].id] = call'[d].cost
      OBVIOUS
    <3>1. CASE d = c
      BY <1>3, <2>2, <2>6, <3>1
    <3>2. CASE d # c
      <4>1. call'[d] = call[d] /\ call[d].id \in Ids /\ call[d].id # id
        BY <1>3, <2>15, <3>2 DEF FInv, Identities, Shapes, Ids, SpendAssumption
      <4>. QED  BY <2>1, <2>6, <4>1 DEF Paid
    <3>. QED  BY <3>1, <3>2
  <2>18. /\ \A i \in Ids : i > attempts => paying[i] = 0
         /\ \A i \in Ids : paying[i] > 0 => \E n \in 1..stable : journal[n].rec = Reservation(i)
         /\ \A n \in 1..Len(journal) :
              journal[n].rec.ev # "reserve" => paying[journal[n].rec.id] <= journal[n].rec.usd
    <3>1. ASSUME NEW i \in Ids, i > attempts  PROVE paying[i] = 0
      <4>1. attempts \in Nat /\ i \in Nat /\ i # id
        BY <2>3, <3>1 DEF FInv, Shapes, Ids, SpendAssumption
      <4>. QED  BY <2>1, <2>6, <3>1, <4>1 DEF Paid
    <3>2. ASSUME NEW i \in Ids, paying[i] > 0
          PROVE  \E n \in 1..stable : journal[n].rec = Reservation(i)
      BY <2>1, <2>6, <2>14, <3>2 DEF Paid
    <3>3. ASSUME NEW n \in 1..Len(journal), journal[n].rec.ev # "reserve"
          PROVE  paying[journal[n].rec.id] <= journal[n].rec.usd
      BY <2>1, <2>6, <2>13, <2>16, <3>3 DEF Paid
    <3>. QED  BY <3>1, <3>2, <3>3
  <2>19. Paid(paying)'
    BY <1>2, <2>7, <2>12, <2>17, <2>18 DEF Paid, file
  <2>20. Backed(paying, settled, held)'
    BY <1>2, <2>8 DEF Backed
  <2>. QED  BY <1>4, <1>5, <1>6, <2>19, <2>20 DEF Books, Accounts
<1>. QED  BY <1>7, <1>8

\* The process is gone; the file keeps what was stable.
LEMMA BooksGone ==
  ASSUME SpendAssumption, FInv, Crash \/ PowerLoss, NEW settled \in Amounts, NEW held \in Amounts,
         NEW paid \in Amounts, Accounts(settled, held, paid)
  PROVE  Books'
<1>1. /\ open' = FALSE /\ lock' = None /\ spent' = 0 /\ reserved' = 0
      /\ call' = [c \in Callers |-> Idle]
      /\ UNCHANGED <<incurred, attempts>>
  BY DEF Crash, PowerLoss, Gone, Unlock
<1>2. \A c \in Callers : call'[c].pc = "idle"
  BY <1>1 DEF Idle
<1>3. /\ ZeroAmounts \in Amounts /\ Dollars(ZeroAmounts) = 0
      /\ \A id \in Ids : ZeroAmounts[id] = 0
  BY ZeroSum DEF ZeroAmounts
<1>4. Totals(ZeroAmounts, ZeroAmounts)'
  BY <1>1, <1>3 DEF Totals, SpendAssumption
<1>5. Holds(ZeroAmounts, ZeroAmounts)' /\ Within(ZeroAmounts, ZeroAmounts)'
  BY <1>1, <1>2 DEF Holds, Within, Active
<1>6. ~Unlinked => Paid(paid)' /\ Backed(paid, ZeroAmounts, ZeroAmounts)'
  <2> SUFFICES ASSUME ~Unlinked  PROVE Paid(paid)' /\ Backed(paid, ZeroAmounts, ZeroAmounts)'
    OBVIOUS
  <2>1. Paid(paid)
    BY DEF Accounts
  <2>2. /\ \A n \in 1..stable : n \in 1..stable' /\ journal'[n].rec = journal[n].rec
        /\ \A n \in 1..Len(journal') : n \in 1..Len(journal) /\ journal'[n].rec = journal[n].rec
    <3>1. CASE UNCHANGED file
      BY <3>1 DEF file
    <3>2. CASE journal' \in Survivors /\ stable' = Len(journal')
      <4>1. /\ Len(journal') \in stable..Len(journal)
            /\ \A n \in 1..Len(journal') : n \in 1..Len(journal) /\ journal'[n].rec = journal[n].rec
        BY <3>2, Surviving
      <4>2. stable \in 0..Len(journal) /\ Len(journal) \in Nat
        BY DEF FInv, Shapes
      <4>. QED  BY <3>2, <4>1, <4>2
    <3>. QED  BY <3>1, <3>2 DEF Crash, PowerLoss
  <2>3. Paid(paid)'
    <3>1. \A id \in Ids : paid[id] > 0 => \E n \in 1..stable' : journal'[n].rec = Reservation(id)
      BY <2>1, <2>2 DEF Paid
    <3>2. \A n \in 1..Len(journal') :
            journal'[n].rec.ev # "reserve" => paid[journal'[n].rec.id] <= journal'[n].rec.usd
      BY <2>1, <2>2 DEF Paid
    <3>. QED  BY <1>1, <1>2, <2>1, <3>1, <3>2 DEF Paid
  <2>. QED  BY <1>1, <2>3 DEF Backed
<1>. QED  BY <1>3, <1>4, <1>5, <1>6 DEF Books, Accounts

LEMMA BooksStep ==
  ASSUME SpendAssumption, FInv, Books, [Next]_vars
  PROVE  Books'
<1>1. PICK settled \in Amounts, held \in Amounts, paid \in Amounts :
        Accounts(settled, held, paid)
  BY DEF Books
<1>2. CASE UNCHANGED vars
  <2>1. Accounts(settled, held, paid)'
    BY <1>1, <1>2 DEF vars, file, memory, append, Accounts, Totals, Holds, Within, Paid, Backed,
                      Active, Appended
  <2>. QED  BY <2>1 DEF Books
<1>3. CASE \E c \in Callers : Reserve(c) \/ Execute(c) \/ Reconcile(c) \/ Forfeit(c)
  BY <1>1, <1>3, BooksReserve, BooksExecute, BooksClosing
<1>. QED  BY <1>1, <1>2, <1>3, BooksOpen, BooksRefuse, BooksWrite, BooksWriteFails, BooksFsync,
              BooksSettle, BooksGone DEF Next

----------------------------------------------------------------------------
(* The theorems.                                                           *)

LEMMA Invariance == SpendAssumption /\ Spec => [](FInv /\ Books)
<1> SUFFICES ASSUME SpendAssumption  PROVE Spec => [](FInv /\ Books)
  OBVIOUS
<1>1. Init => FInv /\ Books
  BY FileInit, BooksInit
<1>2. FInv /\ Books /\ [Next]_vars => FInv' /\ Books'
  BY FileStep, BooksStep
<1>. QED  BY <1>1, <1>2, PTL DEF Spec

\* Every value has its type, and an open ledger never commits more than the
\* ceiling.
THEOREM TypeCorrect == SpendAssumption /\ Spec => []TypeOK
<1> SUFFICES ASSUME SpendAssumption  PROVE Spec => []TypeOK
  OBVIOUS
<1>1. FInv /\ Books => TypeOK
  <2> SUFFICES ASSUME FInv, Books  PROVE TypeOK
    OBVIOUS
  <2>1. PICK settled \in Amounts, held \in Amounts, paid \in Amounts :
          Accounts(settled, held, paid)
    BY DEF Books
  <2>2. spent \in Nat /\ reserved \in Nat /\ spent + reserved <= maximum_usd
    BY <2>1, CoinsFinite DEF Accounts, Totals
  <2>3. pending \in Record \cup {None}
    BY Holder DEF FInv, Locking
  <2>. QED  BY <2>2, <2>3 DEF FInv, Shapes, CallType, TypeOK
<1>. QED  BY <1>1, Invariance, PTL

\* A reservation is closed by one line of the journal.
THEOREM ClosedOnceHolds == SpendAssumption /\ Spec => []ClosedOnce
<1> SUFFICES ASSUME SpendAssumption  PROVE Spec => []ClosedOnce
  OBVIOUS
<1>1. FInv => ClosedOnce
  BY DEF FInv, InFile, OnceEach, ClosedOnce, Closes, LinesAbout
<1>. QED  BY <1>1, Invariance, PTL

\* What memory claims, a restart from a file that is still attested restores.
THEOREM MemoryIsJournaled == SpendAssumption /\ Spec => []MemoryWithinJournal
<1> SUFFICES ASSUME SpendAssumption  PROVE Spec => []MemoryWithinJournal
  OBVIOUS
<1>1. FInv /\ Books => MemoryWithinJournal
  <2> SUFFICES ASSUME FInv, Books, open, lock = None, identity = Stat
               PROVE  spent + reserved <= Charged(journal)
    BY DEF MemoryWithinJournal
  <2>1. PICK settled \in Amounts, held \in Amounts, paid \in Amounts :
          Accounts(settled, held, paid)
    BY DEF Books
  <2>2. journal \in Seq(Chunk) /\ OnceEach(journal)
    BY DEF FInv, Shapes, InFile
  <2>3. PICK charged \in Amounts : charged = [id \in Ids |-> ChargeOf(journal, id)]
    BY <2>2, ChargeType DEF Amounts
  <2>4. \A id \in Ids : settled[id] + held[id] <= charged[id]
    BY <2>1, <2>3 DEF Accounts, Within, Stat, FInv, Locking, Appended
  <2>5. PICK booked \in Amounts : \A id \in Ids : booked[id] = settled[id] + held[id]
    <3> DEFINE b == [id \in Ids |-> settled[id] + held[id]]
    <3>1. ASSUME NEW id \in Ids  PROVE settled[id] + held[id] \in 0..per_call
      BY <2>1, AmountType DEF Accounts, Totals, SpendAssumption
    <3>2. b \in Amounts
      BY <3>1 DEF Amounts
    <3>. QED  BY <3>2
  <2>6. Dollars(booked) = spent + reserved
    BY <2>1, <2>5, DollarsAdd DEF Accounts, Totals
  <2>7. Dollars(booked) <= Dollars(charged)
    BY <2>4, <2>5, DollarsGrow
  <2>. QED  BY <2>3, <2>6, <2>7 DEF Charged
<1>. QED  BY <1>1, Invariance, PTL

\* While a stable file is not lost, a restart never charges less than what the
\* provider was really paid, whatever a power loss leaves of the last append.
THEOREM DurablyCoveredHolds == SpendAssumption /\ ~Unlinked /\ Spec => []DurablyCovered
<1> SUFFICES ASSUME SpendAssumption, ~Unlinked  PROVE Spec => []DurablyCovered
  OBVIOUS
<1>1. FInv /\ Books => DurablyCovered
  <2> SUFFICES ASSUME FInv, Books, NEW j \in Survivors
               PROVE  Charged(j) >= incurred
    BY DEF DurablyCovered
  <2>1. PICK settled \in Amounts, held \in Amounts, paid \in Amounts :
          Accounts(settled, held, paid)
    BY DEF Books
  <2>2. /\ j \in Seq(Chunk) /\ Len(j) \in stable..Len(journal)
        /\ \A n \in 1..Len(j) : n \in 1..Len(journal) /\ j[n].rec = journal[n].rec
    BY Surviving
  <2>3. Paid(paid)
    BY <2>1 DEF Accounts
  <2>4. OnceEach(j)
    BY <2>2 DEF FInv, InFile, OnceEach
  <2>5. PICK charged \in Amounts : charged = [id \in Ids |-> ChargeOf(j, id)]
    BY <2>2, <2>4, ChargeType DEF Amounts
  <2>6. \A id \in Ids : paid[id] <= charged[id]
    BY <2>2, <2>3, <2>5, Covered
  <2>7. Dollars(paid) <= Dollars(charged)
    BY <2>6, DollarsGrow
  <2>. QED  BY <2>3, <2>5, <2>7, CoinsFinite DEF Charged, Paid
<1>. QED  BY <1>1, Invariance, PTL

\* Under the same condition the provider is never paid more than the run's
\* ceiling, over every crash, restart and failed append.
THEOREM CeilingIsHeld == SpendAssumption /\ ~Unlinked /\ Spec => []CeilingHolds
<1> SUFFICES ASSUME SpendAssumption, ~Unlinked  PROVE Spec => []CeilingHolds
  OBVIOUS
<1>1. Books => CeilingHolds
  BY DEF Books, Accounts, Paid, CeilingHolds
<1>. QED  BY <1>1, Invariance, PTL
=============================================================================
