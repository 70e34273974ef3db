--------------------------- MODULE HoldoutRunProofs ---------------------------
(***************************************************************************)
(* That a sealed plan is evaluated at most once, after its consumption was *)
(* made durable, and that the evidence of a run is its own and is kept,    *)
(* for any number of runs, plans, roots, suites and pairs.  Each invariant *)
(* rests on the ones before it only.                                       *)
(***************************************************************************)
EXTENDS HoldoutRun, TLAPS

----------------------------------------------------------------------------
(* Where a run is.                                                         *)

RunSet == [pc : Pcs, root : Roots \cup {None}, created : BOOLEAN, next : Nat \ {0}]
RecordSet ==
  [state : {"absent", "created", "written", "synced", "durable"},
   by : Runs \cup {None}, root : Roots \cup {None}]
LedgerSet ==
  [holder : Runs \cup {None}, suite : Suites \cup {None},
   attempts : SUBSET [arm : Arms, by : Runs]]
DirSet == {NoDir} \cup SUBSET {"spend", "snapshot", "ledger", "pairs", "run.json"}
PairDirSet == SUBSET (Pairs \X ({"pair"} \cup Roles))
ArmsSet == [Roles -> {"new", "made", "planned", "synced", "ended", "raised"}]

\* The ledger of a root is held by the run that is at work in it.
Held ==
  \A d \in Roots, r \in Runs :
    ledger[d].holder = r <=> run[r].root = d /\ run[r].pc \in {"running", "pair"}

\* A run has a root from its preflight on; an idle one dispatched nothing.  One
\* in a pair selected it.
Placed ==
  \A r \in Runs :
    /\ IF run[r].pc = "idle" THEN r \notin dispatched ELSE run[r].root \in Roots
    /\ run[r].pc = "pair" => run[r].next \in 1 .. Len(PairsOf[r])

TInv ==
  /\ run \in [Runs -> RunSet]
  /\ suite \in [Runs -> Suites]
  /\ record \in [Plans -> RecordSet]
  /\ dir \in [Roots -> DirSet]
  /\ pairs \in [Roots -> PairDirSet]
  /\ ledger \in [Roots -> LedgerSet]
  /\ arms \in [Runs -> ArmsSet]
  /\ dispatched \in SUBSET Runs
  /\ Held
  /\ Placed

LEMMA TInvTypes == TInv => TypeOK
  BY DEF TInv, TypeOK, RunSet, RecordSet, LedgerSet, DirSet, PairDirSet, ArmsSet, Held, Root

\* Only the run r moves, and stays in its root.
Moves(r, pc) ==
  /\ run' \in [Runs -> RunSet]
  /\ run'[r].pc = pc /\ run'[r].root = run[r].root
  /\ pc = "pair" => run'[r].next = run[r].next
  /\ \A q \in Runs \ {r} : run'[q] = run[q]

Working == {"running", "pair"}  \* holding a ledger

LEMMA PairWorks == "pair" \in Working
BY DEF Working

LEMMA NoneIsNoRun == \A r \in Runs : r # None
  BY HoldoutAssumption

LEMMA TypeInit == Init => TInv
<1> SUFFICES ASSUME Init PROVE TInv
  OBVIOUS
<1>1. \A r \in Runs : run[r] = Idle
  BY DEF Init
<1>2. run \in [Runs -> RunSet]
  BY DEF Init, Idle, Pcs, RunSet
<1>3. record \in [Plans -> RecordSet]
  BY DEF Init, NoRecord, RecordSet
<1>4. ledger \in [Roots -> LedgerSet]
  BY DEF Init, NoLedger, LedgerSet
<1>5. dir \in [Roots -> DirSet] /\ pairs \in [Roots -> PairDirSet]
  BY DEF Init, DirSet, PairDirSet
<1>. arms \in [Runs -> ArmsSet]
  BY DEF Init, Fresh, ArmsSet
<1>6. Held
  <2>1. \A d \in Roots : ledger[d].holder = None
    BY DEF Init, NoLedger
  <2>2. Idle.pc = "idle"
    BY DEF Idle
  <2>3. \A r \in Runs : run[r].pc = "idle"
    BY <1>1, <2>2
  <2>. QED  BY <2>1, <2>3, NoneIsNoRun DEF Held
<1>7. Placed
  BY <1>1 DEF Init, Placed, Idle
<1>. QED  BY <1>2, <1>3, <1>4, <1>5, <1>6, <1>7 DEF Init, TInv

LEMMA GoMoves ==
  ASSUME TInv, NEW r \in Runs, NEW pc \in Pcs, Go(r, pc)
  PROVE  Moves(r, pc)
<1>1. run[r] \in RunSet /\ run' = [run EXCEPT ![r] = [run[r] EXCEPT !.pc = pc]]
  BY DEF TInv, Go
<1>2. [run[r] EXCEPT !.pc = pc] \in RunSet
  BY <1>1 DEF RunSet
<1>3. run'[r] = [run[r] EXCEPT !.pc = pc]
  BY <1>1 DEF TInv
<1>4. run'[r].pc = pc /\ run'[r].root = run[r].root /\ run'[r].next = run[r].next
  BY <1>1, <1>3 DEF RunSet
<1>. QED  BY <1>1, <1>2, <1>4 DEF TInv, Moves

LEMMA MakeMoves ==
  ASSUME TInv, NEW r \in Runs, MakeRoot(r)
  PROVE  Moves(r, "found")
<1>1. run' = [run EXCEPT ![r] = [run[r] EXCEPT !.pc = "found", !.created = ~Exists(Root(r))]]
  BY DEF MakeRoot, TInv
<1>2. Exists(Root(r)) \in BOOLEAN
  BY DEF Exists
<1>3. [run[r] EXCEPT !.pc = "found", !.created = ~Exists(Root(r))] \in RunSet
  BY <1>2 DEF TInv, RunSet, Pcs
<1>. QED  BY <1>1, <1>3 DEF TInv, Moves, RunSet

LEMMA EndMoves ==
  ASSUME TInv, NEW r \in Runs, EndPair(r)
  PROVE  Moves(r, "running")
<1>1. run' = [run EXCEPT ![r] = [run[r] EXCEPT !.pc = "running", !.next = @ + 1]]
  BY DEF EndPair, TInv
<1>2. [run[r] EXCEPT !.pc = "running", !.next = @ + 1] \in RunSet
  <2>1. run[r] \in RunSet /\ run[r].next + 1 \in Nat \ {0}
    BY DEF TInv, RunSet
  <2>2. "running" \in Pcs
    BY DEF Pcs
  <2>. QED  BY <2>1, <2>2 DEF RunSet
<1>. QED  BY <1>1, <1>2 DEF TInv, Moves, RunSet

\* Where the steps of an arm take it: the run is in a pair that it selected.
LEMMA InPair ==
  ASSUME TInv, NEW r \in Runs, run[r].pc = "pair"
  PROVE  /\ run[r].root \in Roots /\ run[r].next \in 1 .. Len(PairsOf[r])
         /\ PairsOf[r] # <<>> /\ Pair(r) \in Pairs
<1>1. run[r].root \in Roots /\ run[r].next \in 1 .. Len(PairsOf[r])
  BY DEF TInv, Placed
<1>. QED  BY <1>1, HoldoutAssumption DEF Pair

\* A run that moves within its root, in or out of the ledger as before.
LEMMA Moved ==
  ASSUME TInv, NEW r \in Runs, NEW pc \in Pcs \ {"idle"}, Moves(r, pc),
         run[r].pc # "idle", pc \in Working <=> run[r].pc \in Working,
         pc = "pair" => run[r].next \in 1 .. Len(PairsOf[r])
  PROVE  /\ (dispatched' = dispatched) => Placed'
         /\ (\A d \in Roots : ledger'[d].holder = ledger[d].holder) => Held'
<1>1. (dispatched' = dispatched) => Placed'
  BY DEF TInv, Placed, Moves
<1>2. Held /\ run'[r].root = run[r].root /\ run'[r].pc = pc
  BY DEF TInv, Moves
<1>3. \A d \in Roots, q \in Runs :
        (run'[q].root = d /\ run'[q].pc \in {"running", "pair"})
          <=> (run[q].root = d /\ run[q].pc \in {"running", "pair"})
  BY <1>2 DEF Moves, Working
<1>. QED  BY <1>1, <1>2, <1>3 DEF Held

\* A process that ends drops the lock it holds.
LEMMA Ends ==
  ASSUME TInv, NEW r \in Runs, NEW pc \in Pcs \ ({"idle"} \cup Working),
         Go(r, pc), Release(r), run[r].pc # "idle",
         UNCHANGED <<suite, record, dir, pairs, dispatched>>
  PROVE  TInv'
<1>1. Moves(r, pc)
  BY GoMoves
<1>2. ledger' \in [Roots -> LedgerSet]
  <2>1. \A d \in Roots : ledger[d] \in LedgerSet /\ [ledger[d] EXCEPT !.holder = None] \in LedgerSet
    BY DEF TInv, LedgerSet
  <2>. QED  BY <2>1 DEF Release
<1>. arms' \in [Runs -> ArmsSet]
  BY DEF Release, Fresh, TInv, ArmsSet
<1>3. \A d \in Roots : ledger'[d].holder =
        IF ledger[d].holder = r THEN None ELSE ledger[d].holder
  <2>1. \A d \in Roots : ledger[d] \in LedgerSet
    BY DEF TInv
  <2>. QED  BY <2>1 DEF Release, LedgerSet
<1>4. Held'
  <2>1. \A d \in Roots, q \in Runs \ {r} :
          ledger'[d].holder = q <=> run'[q].root = d /\ run'[q].pc \in {"running", "pair"}
    BY <1>1, <1>3, NoneIsNoRun DEF TInv, Held, Moves
  <2>2. \A d \in Roots : ledger'[d].holder # r
    BY <1>3, NoneIsNoRun
  <2>. QED  BY <1>1, <2>1, <2>2 DEF Held, Moves, Working
<1>5. Placed'
  BY <1>1 DEF TInv, Placed, Moves, Working
<1>. QED  BY <1>1, <1>2, <1>4, <1>5 DEF TInv, Moves

\* A directory of a pair or of an arm is made.
LEMMA DirMade ==
  ASSUME TInv, NEW d, NEW p \in Pairs, NEW place \in {"pair"} \cup Roles,
         pairs' = [pairs EXCEPT ![d] = @ \cup {<<p, place>>}]
  PROVE  pairs' \in [Roots -> PairDirSet]
<1>1. <<p, place>> \in Pairs \X ({"pair"} \cup Roles)
  OBVIOUS
<1>2. ASSUME NEW e \in Roots  PROVE pairs[e] \cup {<<p, place>>} \in PairDirSet
  BY <1>1 DEF TInv, PairDirSet
<1>. QED  BY <1>2 DEF TInv

LEMMA TypeStep == TInv /\ [Next]_vars => TInv'
<1> SUFFICES ASSUME TInv, [Next]_vars PROVE TInv'
  OBVIOUS
<1>1. ASSUME NEW r \in Runs, Preflight(r) PROVE TInv'
  <2>1. PICK d \in Roots : run' = [run EXCEPT ![r].pc = "checked", ![r].root = d]
    BY <1>1 DEF Preflight
  <2>n. [run[r] EXCEPT !.pc = "checked", !.root = d] \in RunSet
    BY DEF TInv, RunSet, Pcs
  <2>m. run' = [run EXCEPT ![r] = [run[r] EXCEPT !.pc = "checked", !.root = d]]
    BY <2>1
  <2>2. /\ run' \in [Runs -> RunSet]
        /\ run'[r].pc = "checked" /\ run'[r].root = d
        /\ \A q \in Runs \ {r} : run'[q] = run[q]
    <3>1. run'[r] = [run[r] EXCEPT !.pc = "checked", !.root = d]
      BY <2>m DEF TInv
    <3>2. run[r] \in RunSet
      BY DEF TInv
    <3>3. run'[r].pc = "checked" /\ run'[r].root = d
      BY <3>1, <3>2 DEF RunSet
    <3>. QED  BY <2>n, <2>m, <3>3 DEF TInv
  <2>3. run[r].pc = "idle" /\ UNCHANGED <<suite, record, dir, pairs, ledger, arms, dispatched>>
    BY <1>1 DEF Preflight, At, work
  <2>4. Held'
    BY <2>2, <2>3 DEF TInv, Held
  <2>5. Placed'
    BY <2>2, <2>3 DEF TInv, Placed
  <2>. QED  BY <2>2, <2>3, <2>4, <2>5 DEF TInv
<1>2. ASSUME NEW r \in Runs, FindRoot(r) \/ InspectRoot(r) \/ FindRecord(r) \/ ClaimFails(r)
                             \/ FindSpend(r)
      PROVE TInv'
  <2>1. PICK pc \in Pcs \ ({"idle"} \cup Working) : Go(r, pc)
    BY <1>2 DEF FindRoot, InspectRoot, FindRecord, ClaimFails, FindSpend, Pcs, Working
  <2>2. run[r].pc \notin {"idle"} \cup Working
    BY <1>2 DEF FindRoot, InspectRoot, FindRecord, ClaimFails, FindSpend, At, Working
  <2>3. UNCHANGED <<suite, record, dir, pairs, ledger, arms, dispatched>>
    BY <1>2 DEF FindRoot, InspectRoot, FindRecord, ClaimFails, FindSpend, work
  <2>4. Moves(r, pc)
    BY <2>1, GoMoves
  <2>. QED  BY <2>1, <2>2, <2>3, <2>4, Moved, PairWorks DEF TInv, Moves
<1>3. ASSUME NEW r \in Runs, MakeRoot(r) PROVE TInv'
  <2>4. Moves(r, "found")
    BY <1>3, MakeMoves
  <2>5. dir' \in [Roots -> DirSet]
    BY <1>3 DEF MakeRoot, TInv, DirSet
  <2>6. run[r].pc = "missing" /\ UNCHANGED <<suite, record, pairs, ledger, arms, dispatched>>
    BY <1>3 DEF MakeRoot, At, work
  <2>7. "found" \in Pcs \ ({"idle"} \cup Working) /\ "missing" \notin {"idle"} \cup Working
    BY DEF Pcs, Working
  <2>. QED  BY <2>4, <2>5, <2>6, <2>7, Moved DEF TInv, Moves
<1>4. ASSUME NEW r \in Runs, OpenRecord(r) \/ WriteRecord(r) \/ SyncRecord(r) \/ SyncRegistry(r)
      PROVE TInv'
  <2>1. PICK pc \in Pcs \ ({"idle"} \cup Working) : Go(r, pc)
    BY <1>4 DEF OpenRecord, WriteRecord, SyncRecord, SyncRegistry, Persist, Pcs, Working
  <2>2. run[r].pc \notin {"idle"} \cup Working
    BY <1>4 DEF OpenRecord, WriteRecord, SyncRecord, SyncRegistry, Persist, At, Working
  <2>3. UNCHANGED <<suite, dir, pairs, ledger, arms, dispatched>>
    BY <1>4 DEF OpenRecord, WriteRecord, SyncRecord, SyncRegistry, Persist, work
  <2>4. record' \in [Plans -> RecordSet]
    <3>1. run[r].root \in Roots \cup {None}
      BY DEF TInv, RunSet
    <3>2. CASE OpenRecord(r)
      BY <3>1, <3>2 DEF OpenRecord, TInv, RecordSet, Root
    <3>3. ASSUME NEW from, NEW to, NEW state \in {"written", "synced", "durable"},
                 Persist(r, from, to, state)
          PROVE  record' \in [Plans -> RecordSet]
      <4>1. \A p \in Plans : [record[p] EXCEPT !.state = state] \in RecordSet
        BY DEF TInv, RecordSet
      <4>. QED  BY <3>3, <4>1 DEF Persist, TInv
    <3>. QED  BY <1>4, <3>2, <3>3 DEF WriteRecord, SyncRecord, SyncRegistry
  <2>5. Moves(r, pc)
    BY <2>1, GoMoves
  <2>. QED  BY <2>1, <2>2, <2>3, <2>4, <2>5, Moved, PairWorks DEF TInv, Moves
<1>5. ASSUME NEW r \in Runs, Cleanup(r) \/ MakeSpend(r) \/ WriteSnapshot(r) \/ WriteResult(r)
      PROVE TInv'
  <2>1. PICK pc \in Pcs \ ({"idle"} \cup Working) : Go(r, pc)
    BY <1>5 DEF Cleanup, MakeSpend, WriteSnapshot, WriteResult, Pcs, Working
  <2>2. run[r].pc \notin {"idle"} \cup Working
    BY <1>5 DEF Cleanup, MakeSpend, WriteSnapshot, WriteResult, At, Working
  <2>3. UNCHANGED <<suite, record, pairs, ledger, arms, dispatched>>
    BY <1>5 DEF Cleanup, MakeSpend, WriteSnapshot, WriteResult, work
  <2>4. dir' \in [Roots -> DirSet]
    <3>1. CASE Cleanup(r)
      BY <3>1 DEF Cleanup, TInv, DirSet
    <3>2. CASE MakeSpend(r)
      BY <3>2 DEF MakeSpend, Exists, TInv, DirSet
    <3>3. CASE WriteSnapshot(r)
      BY <3>3 DEF WriteSnapshot, TInv, DirSet
    <3>4. CASE WriteResult(r)
      BY <3>4 DEF WriteResult, TInv, DirSet
    <3>. QED  BY <1>5, <3>1, <3>2, <3>3, <3>4
  <2>5. Moves(r, pc)
    BY <2>1, GoMoves
  <2>. QED  BY <2>1, <2>2, <2>3, <2>4, <2>5, Moved, PairWorks DEF TInv, Moves
<1>6. ASSUME NEW r \in Runs, OpenLedger(r) PROVE TInv'
  <2> DEFINE l == ledger[Root(r)]
             free == l.holder = None /\ Exists(Root(r)) /\ l.suite \in {None, suite[r]}
  <2>0. run[r].pc = "locking" /\ UNCHANGED <<suite, record, pairs, arms, dispatched>>
    BY <1>6 DEF OpenLedger, At, work
  <2>1. CASE free
    <3>1. /\ Go(r, "running")
          /\ ledger' = [ledger EXCEPT ![Root(r)].holder = r, ![Root(r)].suite = suite[r]]
          /\ dir' = [dir EXCEPT ![Root(r)] = @ \cup {"ledger"}]
      BY <1>6, <2>1 DEF OpenLedger
    <3>2. Moves(r, "running")
      BY <3>1, GoMoves DEF Pcs
    <3>3. run[r].root \in Roots
      BY <2>0 DEF TInv, Placed
    <3>4. ledger' \in [Roots -> LedgerSet] /\ ledger'[Root(r)].holder = r
      <4>1. Root(r) \in Roots /\ ledger \in [Roots -> LedgerSet] /\ suite[r] \in Suites
        BY <3>3 DEF TInv, Root
      <4>2. [ledger[Root(r)] EXCEPT !.holder = r, !.suite = suite[r]] \in LedgerSet
        BY <4>1 DEF LedgerSet
      <4>3. ledger' = [ledger EXCEPT
              ![Root(r)] = [ledger[Root(r)] EXCEPT !.holder = r, !.suite = suite[r]]]
        BY <3>1, <4>1
      <4>. QED  BY <4>1, <4>2, <4>3 DEF LedgerSet
    <3>5. \A d \in Roots \ {Root(r)} : ledger'[d] = ledger[d]
      BY <3>1 DEF TInv
    <3>6. dir' \in [Roots -> DirSet]
      BY <2>1, <3>1 DEF TInv, DirSet, Exists
    <3>7. \A q \in Runs : ~(run[q].root = Root(r) /\ run[q].pc \in {"running", "pair"})
      BY <2>1, <3>3, HoldoutAssumption DEF TInv, Held, Root
    <3>8. Held'
      <4>1. \A q \in Runs \ {r}, d \in Roots :
              ledger'[d].holder = q <=> run'[q].root = d /\ run'[q].pc \in {"running", "pair"}
        BY <3>2, <3>4, <3>5, <3>7 DEF TInv, Held, Moves
      <4>2. \A d \in Roots : ledger'[d].holder = r <=> d = Root(r)
        BY <2>0, <3>3, <3>4, <3>5 DEF TInv, Held, Root
      <4>. QED  BY <3>2, <4>1, <4>2 DEF Held, Moves, Root
    <3>9. Placed'
      BY <2>0, <3>2, <3>3 DEF TInv, Placed, Moves
    <3>. QED  BY <2>0, <3>2, <3>4, <3>6, <3>8, <3>9 DEF TInv, Moves
  <2>2. CASE ~free
    <3>1. Go(r, "failed") /\ UNCHANGED <<dir, ledger>>
      BY <1>6, <2>2 DEF OpenLedger
    <3>2. "failed" \in Pcs \ ({"idle"} \cup Working) /\ "locking" \notin {"idle"} \cup Working
      BY DEF Pcs, Working
    <3>3. Moves(r, "failed")
      BY <3>1, <3>2, GoMoves
    <3>. QED  BY <2>0, <3>1, <3>2, <3>3, Moved DEF TInv, Moves
  <2>. QED  BY <2>1, <2>2
<1>7. ASSUME NEW r \in Runs, OpenPair(r) PROVE TInv'
  <2>0. /\ run[r].pc = "running" /\ run[r].next \in 1 .. Len(PairsOf[r])
        /\ UNCHANGED <<suite, record, dispatched>>
    BY <1>7 DEF OpenPair, At, TInv, RunSet
  <2>1. CASE <<Pair(r), "pair">> \in pairs[Root(r)]
    <3>1. Go(r, "failed") /\ Release(r) /\ UNCHANGED <<dir, pairs>>
      BY <1>7, <2>1 DEF OpenPair
    <3>. QED  BY <2>0, <3>1, Ends DEF Pcs, Working
  <2>2. CASE <<Pair(r), "pair">> \notin pairs[Root(r)]
    <3>1. /\ Go(r, "pair") /\ UNCHANGED <<ledger, arms>>
          /\ pairs' = [pairs EXCEPT ![Root(r)] = @ \cup {<<Pair(r), "pair">>}]
          /\ dir' = [dir EXCEPT ![Root(r)] = (@ \ NoDir) \cup {"pairs"}]
      BY <1>7, <2>2 DEF OpenPair
    <3>2. Pair(r) \in Pairs
      BY <2>0, HoldoutAssumption DEF Pair
    <3>3. pairs' \in [Roots -> PairDirSet]
      BY <3>1, <3>2, DirMade
    <3>4. dir' \in [Roots -> DirSet]
      BY <3>1 DEF TInv, DirSet
    <3>5. "pair" \in Pcs \ {"idle"} /\ "pair" \in Working /\ "running" \in Working
      BY DEF Pcs, Working
    <3>6. Moves(r, "pair")
      BY <3>1, <3>5, GoMoves
    <3>7. Held' /\ Placed'
      BY <2>0, <3>1, <3>5, <3>6, Moved
    <3>. QED  BY <2>0, <3>1, <3>3, <3>4, <3>6, <3>7 DEF TInv, Moves
  <2>. QED  BY <2>1, <2>2
<1>8. ASSUME NEW r \in Runs,
             \/ \E a \in Roles : StartArm(r, a) \/ PlanArm(r, a) \/ Dispatch(r, a) \/ FailArm(r, a)
             \/ PassBarrier(r)
      PROVE TInv'
  <2>0. UNCHANGED <<run, suite, record, dir>>
    BY <1>8 DEF StartArm, PlanArm, Dispatch, FailArm, PassBarrier
  <2>1. arms' \in [Runs -> ArmsSet]
    <3>1. CASE PassBarrier(r)
      BY <3>1 DEF PassBarrier, TInv, ArmsSet
    <3>2. ASSUME NEW a \in Roles,
                 StartArm(r, a) \/ PlanArm(r, a) \/ Dispatch(r, a) \/ FailArm(r, a)
          PROVE  arms' \in [Runs -> ArmsSet]
      <4>1. PICK pc \in {"made", "planned", "ended", "raised"} : ArmGoes(r, a, pc)
        BY <3>2 DEF StartArm, PlanArm, Dispatch, FailArm, EndArm
      <4>2. [arms[r] EXCEPT ![a] = pc] \in ArmsSet
        BY <4>1 DEF TInv, ArmsSet
      <4>3. arms' = [arms EXCEPT ![r] = [arms[r] EXCEPT ![a] = pc]]
        BY <4>1 DEF ArmGoes, TInv
      <4>. QED  BY <4>2, <4>3 DEF TInv
    <3>. QED  BY <1>8, <3>1, <3>2
  <2>3. pairs' \in [Roots -> PairDirSet]
    <3>1. CASE pairs' = pairs
      BY <3>1 DEF TInv
    <3>2. ASSUME NEW a \in Roles, StartArm(r, a), pairs' # pairs  PROVE pairs' \in [Roots -> PairDirSet]
      <4>1. pairs' = [pairs EXCEPT ![Root(r)] = @ \cup {<<Pair(r), a>>}]
        BY <3>2 DEF StartArm
      <4>2. Pair(r) \in Pairs
        BY <3>2, InPair DEF StartArm, ArmAt, At
      <4>. QED  BY <4>1, <4>2, DirMade
    <3>. QED  BY <1>8, <3>1, <3>2 DEF PlanArm, Dispatch, FailArm, PassBarrier
  <2>4. /\ ledger' \in [Roots -> LedgerSet]
        /\ \A d \in Roots : ledger'[d].holder = ledger[d].holder
    <3>1. CASE ledger' = ledger
      BY <3>1 DEF TInv
    <3>2. ASSUME NEW a \in Roles, PlanArm(r, a), ledger' # ledger  PROVE <2>4
      <4>1. ledger' = [ledger EXCEPT ![Root(r)].attempts =
                         @ \cup {[arm |-> <<Pair(r), a>>, by |-> r]}]
        BY <3>2 DEF PlanArm
      <4>2. [arm |-> <<Pair(r), a>>, by |-> r] \in [arm : Arms, by : Runs]
        BY <3>2, InPair DEF PlanArm, ArmAt, At, Arms
      <4>3. ASSUME NEW d \in Roots
            PROVE  /\ ledger[d] \in LedgerSet
                   /\ [ledger[d] EXCEPT !.attempts = @ \cup {[arm |-> <<Pair(r), a>>, by |-> r]}]
                        \in LedgerSet
        BY <4>2 DEF TInv, LedgerSet
      <4>. QED  BY <4>1, <4>3 DEF TInv, LedgerSet
    <3>. QED  BY <1>8, <3>1, <3>2 DEF StartArm, Dispatch, FailArm, PassBarrier
  <2>5. dispatched' \in SUBSET Runs /\ Placed'
    <3>1. CASE dispatched' = dispatched
      BY <2>0, <3>1 DEF TInv, Placed
    <3>2. CASE \E a \in Roles : Dispatch(r, a)
      <4>1. dispatched' = dispatched \cup {r} /\ run[r].pc = "pair"
        BY <3>2 DEF Dispatch, ArmAt, At
      <4>. QED  BY <2>0, <4>1 DEF TInv, Placed
    <3>. QED  BY <1>8, <3>1, <3>2 DEF StartArm, PlanArm, FailArm, PassBarrier
  <2>6. Held'
    BY <2>0, <2>4 DEF TInv, Held
  <2>. QED  BY <2>0, <2>1, <2>3, <2>4, <2>5, <2>6 DEF TInv
<1>9. ASSUME NEW r \in Runs, Close(r) \/ Crash(r) \/ PairRaises(r) PROVE TInv'
  <2>1. PICK pc \in Pcs \ ({"idle"} \cup Working) : Go(r, pc) /\ Release(r)
    BY <1>9 DEF Close, Crash, PairRaises, Pcs, Working
  <2>2. run[r].pc # "idle" /\ UNCHANGED <<suite, record, dir, pairs, dispatched>>
    BY <1>9 DEF Close, Crash, PairRaises, ArmAt, At, Ended
  <2>. QED  BY <2>1, <2>2, Ends
<1>12. ASSUME NEW r \in Runs, EndPair(r) PROVE TInv'
  <2>1. /\ Moves(r, "running") /\ run[r].pc = "pair"
        /\ UNCHANGED <<suite, record, dir, pairs, ledger, dispatched>>
    BY <1>12, EndMoves DEF EndPair, At
  <2>2. arms' \in [Runs -> ArmsSet]
    BY <1>12 DEF EndPair, Fresh, TInv, ArmsSet
  <2>3. Held' /\ Placed'
    BY <2>1, Moved DEF Pcs, Working
  <2>. QED  BY <2>1, <2>2, <2>3 DEF TInv, Moves
<1>10. ASSUME PowerLoss PROVE TInv'
  <2>1. UNCHANGED <<suite, dir, pairs, dispatched>> /\ arms' \in [Runs -> ArmsSet]
    BY <1>10 DEF PowerLoss, Fresh, ArmsSet
  <2>2. run' \in [Runs -> RunSet]
    <3>1. \A r \in Runs : run[r] \in RunSet /\ [run[r] EXCEPT !.pc = "failed"] \in RunSet
      BY DEF TInv, RunSet, Pcs
    <3>. QED  BY <1>10, <3>1 DEF PowerLoss
  <2>3. ASSUME NEW r \in Runs
        PROVE  /\ run'[r].root = run[r].root
               /\ run'[r].pc \notin {"running", "pair"}
               /\ (run'[r].pc = "idle") <=> (run[r].pc = "idle")
    BY <1>10 DEF PowerLoss, Ended, TInv, RunSet
  <2>4. ledger' \in [Roots -> LedgerSet] /\ \A d \in Roots : ledger'[d].holder = None
    <3>1. \A d \in Roots : ledger[d] \in LedgerSet
      BY DEF TInv
    <3>. QED  BY <1>10, <3>1 DEF PowerLoss, LedgerSet
  <2>5. record' \in [Plans -> RecordSet]
    <3>1. NoRecord \in RecordSet
      BY DEF NoRecord, RecordSet
    <3>. QED  BY <1>10, <3>1 DEF PowerLoss, TInv
  <2>6. Held'
    <3>1. SUFFICES ASSUME NEW d \in Roots, NEW r \in Runs
                   PROVE  ~(ledger'[d].holder = r) /\ run'[r].pc \notin {"running", "pair"}
      BY DEF Held
    <3>. QED  BY <2>3, <2>4, NoneIsNoRun
  <2>7. Placed'
    <3>1. SUFFICES ASSUME NEW r \in Runs
                   PROVE  /\ IF run'[r].pc = "idle" THEN r \notin dispatched'
                                                    ELSE run'[r].root \in Roots
                          /\ run'[r].pc # "pair"
      BY DEF Placed
    <3>. QED  BY <2>1, <2>3 DEF TInv, Placed
  <2>. QED  BY <2>1, <2>2, <2>4, <2>5, <2>6, <2>7 DEF TInv
<1>11. CASE UNCHANGED vars
  BY <1>11 DEF vars, TInv, Held, Placed
<1>. QED
  BY <1>1, <1>2, <1>3, <1>4, <1>5, <1>6, <1>7, <1>8, <1>9, <1>10, <1>11, <1>12 DEF Next

\* Types, and who holds which ledger, in every reachable state.
THEOREM TypeCorrect == Spec => []TypeOK
<1>1. Spec => []TInv
  BY TypeInit, TypeStep, PTL DEF Spec
<1>. QED  BY <1>1, TInvTypes, PTL

----------------------------------------------------------------------------
(* The plan.                                                               *)

\* A run past its claim.
Using == {"setup", "spendless", "snapshot", "locking", "running", "pair",
          "closed", "finished"}

\* The record of its plan is the one r made, and got as far as state.
Claimed(r, state) ==
  record[PlanOf[r]] = [state |-> state, by |-> r, root |-> run[r].root]

\* What the record of its plan says of a run, at each step of the claim and for
\* ever after.
CInv ==
  \A r \in Runs :
    /\ run[r].pc \in {"claiming", "unclaimed", "opened", "written", "synced"} =>
         PlanOf[r] # None
    /\ PlanOf[r] # None =>
         /\ run[r].pc = "opened" => Claimed(r, "created")
         /\ run[r].pc = "written" => Claimed(r, "written")
         /\ run[r].pc = "synced" => Claimed(r, "synced")
         /\ run[r].pc \in Using \/ r \in dispatched => Claimed(r, "durable")

\* What a claim says of the fields of the record.
LEMMA ClaimedFields ==
  ASSUME NEW r, NEW state, Claimed(r, state)
  PROVE  record[PlanOf[r]].state = state /\ record[PlanOf[r]].by = r
BY DEF Claimed

\* A run that called a provider has its claim.
LEMMA DispatchedClaims ==
  ASSUME CInv, NEW r \in Runs, PlanOf[r] # None, r \in dispatched
  PROVE  Claimed(r, "durable")
BY DEF CInv

\* A move that is no part of a claim, or gives one up.
LEMMA ClaimsKeep ==
  ASSUME TInv, CInv, NEW r \in Runs, NEW pc \in Pcs, Moves(r, pc),
         UNCHANGED <<record, dispatched>>,
         pc \notin {"opened", "written", "synced"},
         pc \in {"claiming", "unclaimed"} => PlanOf[r] # None,
         pc \in Using => run[r].pc \in Using \/ PlanOf[r] = None
  PROVE  CInv'
<1> SUFFICES ASSUME NEW q \in Runs
             PROVE  /\ run'[q].pc \in {"claiming", "unclaimed", "opened", "written", "synced"} =>
                         PlanOf[q] # None
                    /\ PlanOf[q] # None =>
                         /\ run'[q].pc = "opened" => Claimed(q, "created")'
                         /\ run'[q].pc = "written" => Claimed(q, "written")'
                         /\ run'[q].pc = "synced" => Claimed(q, "synced")'
                         /\ run'[q].pc \in Using \/ q \in dispatched' => Claimed(q, "durable")'
  BY DEF CInv, Claimed
<1>1. run'[q].root = run[q].root
  BY DEF Moves
<1>2. \A state : Claimed(q, state) => Claimed(q, state)'
  BY <1>1 DEF Claimed
<1>3. CASE q # r
  <2>1. run'[q] = run[q]
    BY <1>3 DEF Moves
  <2>. QED  BY <1>2, <2>1 DEF CInv
<1>4. CASE q = r
  <2>1. run'[q].pc = pc
    BY <1>4 DEF Moves
  <2>. QED  BY <1>2, <1>4, <2>1 DEF CInv
<1>. QED  BY <1>3, <1>4

\* The next step of a claim, or its beginning, concerns nobody else: no other
\* run is past the O_EXCL of the same plan.
LEMMA ClaimsAdvance ==
  ASSUME TInv, CInv, NEW r \in Runs, NEW pc \in {"opened", "written", "synced", "setup"},
         NEW state \in {"created", "written", "synced", "durable"},
         Moves(r, pc), PlanOf[r] # None, dispatched' = dispatched,
         record' = [record EXCEPT ![PlanOf[r]] =
                      [state |-> state, by |-> r, root |-> run[r].root]],
         record[PlanOf[r]].state = "absent" \/ record[PlanOf[r]].by = r,
         r \in dispatched => state = "durable",
         <<pc, state>> \in {<<"opened", "created">>, <<"written", "written">>,
                            <<"synced", "synced">>, <<"setup", "durable">>}
  PROVE  CInv'
<1> SUFFICES ASSUME NEW q \in Runs
             PROVE  /\ run'[q].pc \in {"claiming", "unclaimed", "opened", "written", "synced"} =>
                         PlanOf[q] # None
                    /\ PlanOf[q] # None =>
                         /\ run'[q].pc = "opened" => Claimed(q, "created")'
                         /\ run'[q].pc = "written" => Claimed(q, "written")'
                         /\ run'[q].pc = "synced" => Claimed(q, "synced")'
                         /\ run'[q].pc \in Using \/ q \in dispatched' => Claimed(q, "durable")'
  BY DEF CInv, Claimed
<1>1. PlanOf[r] \in Plans /\ (PlanOf[q] # None => PlanOf[q] \in Plans)
  BY HoldoutAssumption
<1>2. CASE q = r
  <2>1. Claimed(r, state)'
    BY <1>1 DEF Claimed, TInv, Moves
  <2>2. run'[q].pc = pc
    BY <1>2 DEF Moves
  <2>. QED  BY <1>2, <2>1, <2>2 DEF Using
<1>3. CASE q # r
  <2>1. run'[q] = run[q]
    BY <1>3 DEF Moves
  <2>2. CASE PlanOf[q] = None
    BY <2>1, <2>2 DEF CInv
  <2>3. CASE PlanOf[q] # None /\ PlanOf[q] # PlanOf[r]
    <3>1. record'[PlanOf[q]] = record[PlanOf[q]]
      BY <1>1, <2>3 DEF TInv
    <3>2. \A s : Claimed(q, s) => Claimed(q, s)'
      BY <2>1, <3>1 DEF Claimed
    <3>. QED  BY <2>1, <3>2 DEF CInv
  <2>4. CASE PlanOf[q] # None /\ PlanOf[q] = PlanOf[r]
    <3>1. ASSUME NEW s \in {"created", "written", "synced", "durable"}  PROVE ~Claimed(q, s)
      BY <1>3, <2>4 DEF Claimed
    <3>. QED  BY <2>1, <2>4, <3>1 DEF CInv
  <2>. QED  BY <2>2, <2>3, <2>4
<1>. QED  BY <1>2, <1>3

LEMMA ClaimsStep == TInv /\ CInv /\ [Next]_vars => CInv'
<1> SUFFICES ASSUME TInv, CInv, [Next]_vars PROVE CInv'
  OBVIOUS
<1>1. ASSUME NEW r \in Runs, Preflight(r) PROVE CInv'
  <2>1. /\ run'[r].pc = "checked" /\ r \notin dispatched
        /\ \A q \in Runs \ {r} : run'[q] = run[q]
        /\ UNCHANGED <<record, dispatched>>
    BY <1>1 DEF Preflight, At, TInv, Placed
  <2>2. ASSUME NEW q \in Runs \ {r}  PROVE \A s : Claimed(q, s) => Claimed(q, s)'
    BY <2>1 DEF Claimed
  <2>. QED  BY <2>1, <2>2 DEF CInv, Using, Claimed
<1>2. ASSUME NEW r \in Runs, FindRoot(r) \/ Cleanup(r) \/ Close(r) \/ Crash(r) \/ ClaimFails(r)
                             \/ FindSpend(r) \/ MakeSpend(r) \/ WriteSnapshot(r)
                             \/ OpenLedger(r) \/ OpenPair(r) \/ PairRaises(r) \/ WriteResult(r)
      PROVE CInv'
  <2>1. PICK pc : /\ pc \in {"found", "missing"} \cup Using \cup {"cleanup", "failed"}
                  /\ Go(r, pc)
                  /\ pc \in Using => run[r].pc \in Using
    BY <1>2 DEF FindRoot, Cleanup, Close, Crash, ClaimFails, FindSpend, MakeSpend, WriteSnapshot,
                OpenLedger, OpenPair, PairRaises, WriteResult, ArmAt, At, Using
  <2>2. UNCHANGED <<record, dispatched>>
    BY <1>2 DEF FindRoot, Cleanup, Close, Crash, ClaimFails, FindSpend, MakeSpend, WriteSnapshot,
                OpenLedger, OpenPair, PairRaises, WriteResult
  <2>3. pc \in Pcs /\ pc \notin {"claiming", "unclaimed", "opened", "written", "synced"}
    BY <2>1 DEF Pcs, Using
  <2>4. Moves(r, pc)
    BY <2>1, <2>3, GoMoves
  <2>. QED  BY <2>1, <2>2, <2>3, <2>4, ClaimsKeep
<1>3. ASSUME NEW r \in Runs, MakeRoot(r) PROVE CInv'
  <2>1. Moves(r, "found")
    BY <1>3, MakeMoves
  <2>2. UNCHANGED <<record, dispatched>>
    BY <1>3 DEF MakeRoot
  <2>. QED  BY <2>1, <2>2, ClaimsKeep DEF Pcs, Using
<1>4. ASSUME NEW r \in Runs, InspectRoot(r) PROVE CInv'
  <2>1. PICK pc : /\ pc \in {"failed", "setup", "claiming"}
                  /\ Go(r, pc)
                  /\ pc = "setup" => PlanOf[r] = None
                  /\ pc = "claiming" => PlanOf[r] # None
    BY <1>4 DEF InspectRoot
  <2>2. UNCHANGED <<record, dispatched>>
    BY <1>4 DEF InspectRoot
  <2>3. pc \in Pcs
    BY <2>1 DEF Pcs
  <2>4. Moves(r, pc)
    BY <2>1, <2>3, GoMoves
  <2>. QED  BY <2>1, <2>2, <2>3, <2>4, ClaimsKeep DEF Using
<1>5. ASSUME NEW r \in Runs, FindRecord(r) PROVE CInv'
  <2>1. PICK pc : pc \in {"unclaimed", "cleanup"} /\ Go(r, pc)
    BY <1>5 DEF FindRecord
  <2>2. UNCHANGED <<record, dispatched>> /\ PlanOf[r] # None
    BY <1>5 DEF FindRecord, At, CInv
  <2>3. pc \in Pcs
    BY <2>1 DEF Pcs
  <2>4. Moves(r, pc)
    BY <2>1, <2>3, GoMoves
  <2>. QED  BY <2>1, <2>2, <2>3, <2>4, ClaimsKeep DEF Using
<1>6. ASSUME NEW r \in Runs, OpenRecord(r) PROVE CInv'
  <2>1. PlanOf[r] # None /\ run[r].pc = "unclaimed" /\ dispatched' = dispatched
    BY <1>6 DEF OpenRecord, At, CInv
  <2>2. CASE record[PlanOf[r]].state = "absent"
    <3>1. /\ Go(r, "opened")
          /\ record' = [record EXCEPT ![PlanOf[r]] =
                          [state |-> "created", by |-> r, root |-> run[r].root]]
      BY <1>6, <2>2 DEF OpenRecord, Root
    <3>2. Moves(r, "opened")
      BY <3>1, GoMoves DEF Pcs
    <3>3. r \notin dispatched
      BY <2>1, <2>2, DispatchedClaims, ClaimedFields
    <3>. QED  BY <2>1, <2>2, <3>1, <3>2, <3>3, ClaimsAdvance
  <2>3. CASE record[PlanOf[r]].state # "absent"
    <3>1. Go(r, "cleanup") /\ UNCHANGED record
      BY <1>6, <2>3 DEF OpenRecord
    <3>2. Moves(r, "cleanup")
      BY <3>1, GoMoves DEF Pcs
    <3>. QED  BY <2>1, <3>1, <3>2, ClaimsKeep DEF Pcs, Using
  <2>. QED  BY <2>2, <2>3
<1>7. ASSUME NEW r \in Runs, NEW from, NEW pc, NEW old, NEW state, Persist(r, from, pc, state),
             <<from, pc, old, state>> \in {<<"opened", "written", "created", "written">>,
                                          <<"written", "synced", "written", "synced">>,
                                          <<"synced", "setup", "synced", "durable">>}
      PROVE CInv'
  <2>1. /\ run[r].pc = from /\ Go(r, pc) /\ dispatched' = dispatched
        /\ record' = [record EXCEPT ![PlanOf[r]].state = state]
    BY <1>7 DEF Persist, At
  <2>2. PlanOf[r] # None /\ Claimed(r, old) /\ old # "durable"
    BY <1>7, <2>1 DEF CInv
  <2>3. r \notin dispatched
    BY <2>2, DispatchedClaims, ClaimedFields
  <2>4. record' = [record EXCEPT ![PlanOf[r]] = [state |-> state, by |-> r, root |-> run[r].root]]
    <3>1. record[PlanOf[r]] = [state |-> old, by |-> r, root |-> run[r].root]
      BY <2>2 DEF Claimed
    <3>2. [record[PlanOf[r]] EXCEPT !.state = state]
            = [state |-> state, by |-> r, root |-> run[r].root]
      BY <3>1
    <3>. QED  BY <2>1, <3>2
  <2>5. Moves(r, pc)
    <3>1. pc \in Pcs
      BY <1>7 DEF Pcs
    <3>. QED  BY <2>1, <3>1, GoMoves
  <2>6. record[PlanOf[r]].by = r
    BY <2>2 DEF Claimed
  <2>7. /\ pc \in {"opened", "written", "synced", "setup"}
        /\ state \in {"created", "written", "synced", "durable"}
        /\ <<pc, state>> \in {<<"opened", "created">>, <<"written", "written">>,
                              <<"synced", "synced">>, <<"setup", "durable">>}
    BY <1>7
  <2>. QED  BY <2>1, <2>2, <2>3, <2>4, <2>5, <2>6, <2>7, ClaimsAdvance
<1>8. ASSUME NEW r \in Runs, WriteRecord(r) \/ SyncRecord(r) \/ SyncRegistry(r) PROVE CInv'
  BY <1>7, <1>8 DEF WriteRecord, SyncRecord, SyncRegistry
<1>9. ASSUME NEW r \in Runs,
             \/ \E a \in Roles : StartArm(r, a) \/ PlanArm(r, a) \/ Dispatch(r, a) \/ FailArm(r, a)
             \/ PassBarrier(r)
      PROVE CInv'
  <2>1. UNCHANGED <<run, record>>
    BY <1>9 DEF StartArm, PlanArm, Dispatch, FailArm, PassBarrier
  <2>2. dispatched' = dispatched \/ (dispatched' = dispatched \cup {r} /\ run[r].pc = "pair")
    BY <1>9 DEF StartArm, PlanArm, Dispatch, FailArm, PassBarrier, ArmAt, At
  <2>3. ASSUME NEW q \in Runs, q \in dispatched'
        PROVE  q \in dispatched \/ run[q].pc \in Using
    BY <2>2, <2>3 DEF Using
  <2>. QED  BY <2>1, <2>3 DEF CInv, Claimed
<1>12. ASSUME NEW r \in Runs, EndPair(r) PROVE CInv'
  <2>1. /\ Moves(r, "running") /\ run[r].pc = "pair"
        /\ UNCHANGED <<record, dispatched>>
    BY <1>12, EndMoves DEF EndPair, At
  <2>. QED  BY <2>1, ClaimsKeep DEF Pcs, Using
<1>10. ASSUME PowerLoss PROVE CInv'
  <2>1. ASSUME NEW r \in Runs
        PROVE  run'[r].root = run[r].root /\ (run'[r].pc = run[r].pc \/ run'[r].pc = "failed")
               /\ run'[r].pc \in Ended
    BY <1>10 DEF PowerLoss, Ended, TInv, RunSet
  <2>2. \A p \in Plans : record[p].state = "durable" => record'[p] = record[p]
    BY <1>10 DEF PowerLoss
  <2>3. ASSUME NEW r \in Runs, PlanOf[r] # None, Claimed(r, "durable")
        PROVE  Claimed(r, "durable")'
    <3>1. PlanOf[r] \in Plans /\ record[PlanOf[r]].state = "durable"
      BY <2>3, HoldoutAssumption DEF Claimed
    <3>. QED  BY <2>1, <2>2, <2>3, <3>1 DEF Claimed
  <2>4. dispatched' = dispatched
    BY <1>10 DEF PowerLoss
  <2>. QED  BY <2>1, <2>3, <2>4 DEF CInv, Using, Ended, Claimed
<1>11. CASE UNCHANGED vars
  BY <1>11 DEF vars, CInv, Claimed
<1>. QED
  BY <1>1, <1>2, <1>3, <1>4, <1>5, <1>6, <1>8, <1>9, <1>10, <1>11, <1>12 DEF Next

LEMMA ClaimsInit == Init => CInv
<1> SUFFICES ASSUME Init PROVE CInv
  OBVIOUS
<1>1. Idle.pc = "idle"
  BY DEF Idle
<1>2. \A r \in Runs : run[r].pc = "idle" /\ r \notin dispatched
  BY <1>1 DEF Init
<1>. QED  BY <1>2 DEF CInv, Using

LEMMA Claims == Spec => [](TInv /\ CInv)
<1>1. Init => TInv /\ CInv
  BY TypeInit, ClaimsInit
<1>2. TInv /\ CInv /\ [Next]_vars => (TInv /\ CInv)'
  BY TypeStep, ClaimsStep
<1>. QED  BY <1>1, <1>2, PTL DEF Spec

LEMMA DispatchedIsConsumed == TInv /\ CInv => ConsumedBeforeDispatch
<1>1. TInv => dispatched \subseteq Runs
  BY DEF TInv
<1>. QED
  BY <1>1, DispatchedClaims DEF Claimed, ConsumedBeforeDispatch, Root

\* Whatever crashes or races, a run of a sealed plan that called a provider had
\* its consumption on storage before, in its name and with its root.
THEOREM ConsumedFirst == Spec => []ConsumedBeforeDispatch
BY DispatchedIsConsumed, Claims, PTL

\* Hence a sealed plan is evaluated by one run at most: its record names one.
THEOREM OnePerPlan == Spec => []OneRunPerPlan
<1>1. TInv /\ CInv => OneRunPerPlan
  <2> SUFFICES ASSUME TInv, CInv, NEW r \in dispatched, NEW q \in dispatched,
                      PlanOf[r] = PlanOf[q], PlanOf[r] # None
               PROVE  r = q
    BY DEF OneRunPerPlan
  <2>1. r \in Runs /\ q \in Runs
    BY DEF TInv
  <2>2. record[PlanOf[r]].by = r /\ record[PlanOf[q]].by = q
    BY <2>1, DispatchedClaims, ClaimedFields
  <2>. QED  BY <2>2
<1>. QED  BY <1>1, Claims, PTL

----------------------------------------------------------------------------
(* The evidence.                                                           *)

\* A run at work, or one that dispatched, has the ledger file in its root.
EInv ==
  \A r \in Runs : r \in dispatched \/ run[r].pc \in Working => "ledger" \in dir[run[r].root]

\* No step removes a ledger file.
FilesKept == \A d \in Roots : "ledger" \in dir[d] => "ledger" \in dir'[d]

LEMMA NoneIsNoFile == "ledger" \notin NoDir
  BY HoldoutAssumption DEF NoDir

\* A run that moves in its root while no ledger file goes.
LEMMA EvidenceMoves ==
  ASSUME TInv, EInv, FilesKept, NEW r \in Runs, NEW pc \in Pcs, Moves(r, pc),
         run[r].pc # "idle",
         pc \in Working => run[r].pc \in Working \/ "ledger" \in dir'[run[r].root],
         dispatched' = dispatched \/ (dispatched' = dispatched \cup {r} /\ run[r].pc \in Working)
  PROVE  EInv'
<1> SUFFICES ASSUME NEW q \in Runs, q \in dispatched' \/ run'[q].pc \in Working
             PROVE  "ledger" \in dir'[run'[q].root]
  BY DEF EInv
<1>1. run'[q].root = run[q].root
  BY DEF Moves
<1>2. run[q].pc # "idle" => run[q].root \in Roots
  BY DEF TInv, Placed
<1>3. q \in dispatched => run[q].pc # "idle"
  BY DEF TInv, Placed
<1>4. q \in dispatched \/ run[q].pc \in Working => "ledger" \in dir'[run[q].root]
  BY <1>2, <1>3 DEF EInv, FilesKept, Working
<1>5. CASE q # r
  <2>1. run'[q].pc = run[q].pc /\ (q \in dispatched' <=> q \in dispatched)
    BY <1>5 DEF Moves
  <2>. QED  BY <1>1, <1>4, <2>1
<1>6. CASE q = r
  BY <1>1, <1>4, <1>6 DEF Moves
<1>. QED  BY <1>5, <1>6

LEMMA FilesStay == TInv /\ [Next]_vars => FilesKept
<1> SUFFICES ASSUME TInv, [Next]_vars, dir' # dir, NEW d \in Roots, "ledger" \in dir[d]
             PROVE  "ledger" \in dir'[d]
  BY DEF FilesKept
<1>1. dir[d] # NoDir /\ dir[d] # {} /\ "ledger" \in dir[d] \ NoDir
  BY NoneIsNoFile
<1>2. PICK r \in Runs : MakeRoot(r) \/ Cleanup(r) \/ MakeSpend(r) \/ WriteSnapshot(r)
                        \/ OpenLedger(r) \/ OpenPair(r) \/ WriteResult(r)
  <2>1. ~UNCHANGED vars /\ ~PowerLoss
    BY DEF vars, PowerLoss
  <2>. QED
    BY <2>1 DEF Next, Preflight, FindRoot, InspectRoot, FindRecord, OpenRecord, WriteRecord,
        SyncRecord, SyncRegistry, Persist, ClaimFails, FindSpend, StartArm, PlanArm, PassBarrier,
        Dispatch, FailArm, PairRaises, EndPair, Close, Crash
<1>3. CASE MakeRoot(r)
  BY <1>1, <1>3 DEF MakeRoot, Exists, TInv
<1>4. CASE Cleanup(r)
  BY <1>1, <1>4 DEF Cleanup, TInv
<1>5. CASE MakeSpend(r)
  BY <1>1, <1>5 DEF MakeSpend, TInv
<1>6. CASE WriteSnapshot(r)
  BY <1>1, <1>6 DEF WriteSnapshot, TInv
<1>7. CASE OpenLedger(r)
  BY <1>1, <1>7 DEF OpenLedger, TInv
<1>8. CASE WriteResult(r)
  BY <1>1, <1>8 DEF WriteResult, TInv
<1>9. CASE OpenPair(r)
  BY <1>1, <1>9 DEF OpenPair, TInv
<1>. QED  BY <1>2, <1>3, <1>4, <1>5, <1>6, <1>7, <1>8, <1>9

LEMMA EvidenceStep == TInv /\ EInv /\ [Next]_vars => EInv'
<1> SUFFICES ASSUME TInv, EInv, [Next]_vars PROVE EInv'
  OBVIOUS
<1>. FilesKept
  BY FilesStay
<1>1. ASSUME NEW r \in Runs, Preflight(r) PROVE EInv'
  <2>1. /\ run'[r].pc = "checked" /\ r \notin dispatched /\ dispatched' = dispatched
        /\ \A q \in Runs \ {r} : run'[q] = run[q]
        /\ dir' = dir
    BY <1>1 DEF Preflight, At, TInv, Placed
  <2>. QED  BY <2>1 DEF EInv, Working
<1>2. ASSUME NEW r \in Runs, FindRoot(r) \/ InspectRoot(r) \/ FindRecord(r) \/ OpenRecord(r)
                             \/ WriteRecord(r) \/ SyncRecord(r) \/ SyncRegistry(r)
                             \/ ClaimFails(r) \/ Cleanup(r) \/ FindSpend(r) \/ MakeSpend(r)
                             \/ WriteSnapshot(r) \/ OpenPair(r) \/ PairRaises(r) \/ Close(r)
                             \/ WriteResult(r) \/ Crash(r)
      PROVE EInv'
  <2>1. PICK pc \in Pcs : Go(r, pc) /\ (pc \in Working => run[r].pc \in Working)
    BY <1>2 DEF FindRoot, InspectRoot, FindRecord, OpenRecord, WriteRecord, SyncRecord,
         SyncRegistry, Persist, ClaimFails, Cleanup, FindSpend, MakeSpend, WriteSnapshot,
         OpenPair, PairRaises, Close, WriteResult, Crash, ArmAt, At, Working, Pcs
  <2>2. dispatched' = dispatched /\ run[r].pc # "idle"
    BY <1>2 DEF FindRoot, InspectRoot, FindRecord, OpenRecord, WriteRecord, SyncRecord,
         SyncRegistry, Persist, ClaimFails, Cleanup, FindSpend, MakeSpend, WriteSnapshot,
         OpenPair, PairRaises, Close, WriteResult, Crash, ArmAt, At, Ended
  <2>3. Moves(r, pc)
    BY <2>1, GoMoves
  <2>. QED  BY <2>1, <2>2, <2>3, EvidenceMoves
<1>3. ASSUME NEW r \in Runs, MakeRoot(r) PROVE EInv'
  <2>1. Moves(r, "found") /\ dispatched' = dispatched /\ run[r].pc # "idle"
    BY <1>3, MakeMoves DEF MakeRoot, At
  <2>. QED  BY <2>1, EvidenceMoves DEF Pcs, Working
<1>4. ASSUME NEW r \in Runs, OpenLedger(r) PROVE EInv'
  <2>1. CASE Go(r, "running") /\ dir' = [dir EXCEPT ![Root(r)] = @ \cup {"ledger"}]
    <3>1. Moves(r, "running") /\ run[r].pc = "locking" /\ dispatched' = dispatched
      BY <1>4, <2>1, GoMoves DEF Pcs, OpenLedger, At
    <3>2. run[r].root \in Roots
      BY <3>1 DEF TInv, Placed
    <3>3. "ledger" \in dir'[run[r].root]
      BY <2>1, <3>2 DEF TInv, Root
    <3>. QED  BY <3>1, <3>3, EvidenceMoves DEF Pcs
  <2>2. CASE Go(r, "failed")
    <3>1. Moves(r, "failed") /\ run[r].pc = "locking" /\ dispatched' = dispatched
      BY <1>4, <2>2, GoMoves DEF Pcs, OpenLedger, At
    <3>. QED  BY <3>1, EvidenceMoves DEF Pcs, Working
  <2>. QED  BY <1>4, <2>1, <2>2 DEF OpenLedger
<1>5. ASSUME NEW r \in Runs,
             \/ \E a \in Roles : StartArm(r, a) \/ PlanArm(r, a) \/ Dispatch(r, a) \/ FailArm(r, a)
             \/ PassBarrier(r)
      PROVE EInv'
  <2>1. UNCHANGED <<run, dir>>
    BY <1>5 DEF StartArm, PlanArm, Dispatch, FailArm, PassBarrier
  <2>2. dispatched' = dispatched \/ (dispatched' = dispatched \cup {r} /\ run[r].pc = "pair")
    BY <1>5 DEF StartArm, PlanArm, Dispatch, FailArm, PassBarrier, ArmAt, At
  <2>. QED  BY <2>1, <2>2 DEF EInv, Working
<1>8. ASSUME NEW r \in Runs, EndPair(r) PROVE EInv'
  <2>1. Moves(r, "running") /\ run[r].pc = "pair" /\ dispatched' = dispatched
    BY <1>8, EndMoves DEF EndPair, At
  <2>. QED  BY <2>1, EvidenceMoves DEF Pcs, Working
<1>6. CASE PowerLoss
  <2>1. ASSUME NEW r \in Runs
        PROVE  /\ run'[r].root = run[r].root
               /\ run'[r].pc \in Working => run[r].pc \in Working
    BY <1>6 DEF PowerLoss, Ended, TInv, RunSet, Working
  <2>2. dir' = dir /\ dispatched' = dispatched
    BY <1>6 DEF PowerLoss
  <2>. QED  BY <2>1, <2>2 DEF EInv
<1>7. CASE UNCHANGED vars
  BY <1>7 DEF vars, EInv
<1>. QED
  BY <1>1, <1>2, <1>3, <1>4, <1>5, <1>6, <1>7, <1>8 DEF Next

\* The root of a run that dispatched keeps its ledger: neither the loser of a
\* claim nor a crash removes it.
THEOREM EvidenceIsKept == Spec => []EvidenceKept
<1>1. Init => TInv /\ EInv
  <2> SUFFICES ASSUME Init PROVE EInv
    BY TypeInit
  <2>1. Idle.pc \notin Working
    BY DEF Idle, Working
  <2>. QED  BY <2>1 DEF Init, EInv
<1>2. TInv /\ EInv /\ [Next]_vars => (TInv /\ EInv)'
  BY TypeStep, EvidenceStep
<1>3. TInv /\ EInv => EvidenceKept
  BY DEF TInv, EInv, EvidenceKept, Root
<1>. QED  BY <1>1, <1>2, <1>3, PTL DEF Spec

----------------------------------------------------------------------------
(* The root.                                                               *)

\* Runs that have pairs begin with the same one.
CommonFirst ==
  \A q, r \in Runs : PairsOf[q] # <<>> /\ PairsOf[r] # <<>> => PairsOf[q][1] = PairsOf[r][1]

\* Before the ledger is opened.
Before == {"idle", "checked", "missing", "found", "claiming", "unclaimed", "opened", "written",
           "synced", "setup", "spendless", "snapshot", "locking"}

\* The directory of its first pair.
First(r) == <<PairsOf[r][1], "pair">>

\* r has made that directory.
Begun(r) == run[r].pc = "pair" \/ (run[r].pc = "running" /\ run[r].next > 1)

\* It is in the root of r, and whatever attempts there are, r made them.
Mine(r) ==
  /\ First(r) \in pairs[run[r].root]
  /\ \A t \in ledger[run[r].root].attempts : t.by = r

\* A root with attempts has the directory every run must make first; one that
\* made it there has made all attempts.  Which arms it planned, in which order,
\* and whether any came to be planned, does not matter.
RInv ==
  /\ OneRunPerRoot
  /\ \A d \in Roots, r \in Runs : ledger[d].attempts # {} /\ PairsOf[r] # <<>> =>
       First(r) \in pairs[d]
  /\ \A r \in Runs :
       /\ run[r].pc \in Before => run[r].next = 1
       /\ run[r].pc \in Working => ledger[run[r].root].suite = suite[r]
       /\ Begun(r) => Mine(r)

\* No attempt is added, no directory goes, and no run begins its work.
Quiet ==
  /\ suite' = suite
  /\ \A d \in Roots :
       /\ ledger'[d].suite = ledger[d].suite /\ ledger'[d].attempts = ledger[d].attempts
       /\ pairs[d] \subseteq pairs'[d]
  /\ \A q \in Runs :
       /\ run'[q].pc \in Working => run[q].pc \in Working /\ run'[q].root = run[q].root
       /\ Begun(q)' => Begun(q)
       /\ run'[q].pc \in Before => run[q].pc \in Before /\ run'[q].next = run[q].next

LEMMA BegunWorks == \A r \in Runs : Begun(r) => run[r].pc \in Working
BY DEF Begun, Working

LEMMA BegunWorksNext == \A r \in Runs : Begun(r)' => run'[r].pc \in Working
BY DEF Begun, Working

LEMMA WorksInRoot == ASSUME TInv, NEW r \in Runs, run[r].pc \in Working  PROVE run[r].root \in Roots
BY DEF TInv, Placed, Working

LEMMA QuietKeeps == TInv /\ RInv /\ Quiet => RInv'
<1> SUFFICES ASSUME TInv, RInv, Quiet PROVE RInv'
  OBVIOUS
<1>1. OneRunPerRoot'
  BY DEF RInv, Quiet, OneRunPerRoot
<1>2. ASSUME NEW d \in Roots, NEW r \in Runs, ledger'[d].attempts # {}, PairsOf[r] # <<>>
      PROVE  First(r) \in pairs'[d]
  BY <1>2 DEF RInv, Quiet
<1>3. ASSUME NEW r \in Runs, run'[r].pc \in Working
      PROVE  ledger'[run'[r].root].suite = suite'[r]
  <2>1. run[r].pc \in Working /\ run'[r].root = run[r].root /\ run[r].root \in Roots
    BY <1>3, WorksInRoot DEF Quiet
  <2>. QED  BY <2>1 DEF RInv, Quiet
<1>4. ASSUME NEW r \in Runs, Begun(r)'  PROVE Mine(r)'
  <2>1. Begun(r) /\ run'[r].root = run[r].root /\ run[r].root \in Roots
    BY <1>4, BegunWorksNext, WorksInRoot DEF Quiet
  <2>2. Mine(r)
    BY <2>1 DEF RInv
  <2>. QED  BY <2>1, <2>2 DEF Mine, Quiet
<1>5. ASSUME NEW r \in Runs, run'[r].pc \in Before PROVE run'[r].next = 1
  BY <1>5 DEF RInv, Quiet
<1>. QED  BY <1>1, <1>2, <1>3, <1>4, <1>5 DEF RInv, First

\* A run that goes on keeps its place in the sequence of pairs.
LEMMA GoKeeps ==
  ASSUME TInv, NEW r \in Runs, NEW pc, Go(r, pc)
  PROVE  /\ run'[r].pc = pc /\ run'[r].root = run[r].root /\ run'[r].next = run[r].next
         /\ \A q \in Runs \ {r} : run'[q] = run[q]
<1>1. run[r] \in RunSet /\ run' = [run EXCEPT ![r] = [run[r] EXCEPT !.pc = pc]]
  BY DEF TInv, Go
<1>2. run'[r] = [run[r] EXCEPT !.pc = pc]
  BY <1>1 DEF TInv
<1>. QED  BY <1>1, <1>2 DEF RunSet, TInv

LEMMA GoQuiet ==
  ASSUME TInv, NEW r \in Runs, NEW pc, Go(r, pc), suite' = suite, pairs' = pairs,
         ledger' = ledger \/ Release(r),
         pc \notin Working, pc \in Before => run[r].pc \in Before
  PROVE  Quiet
<1>1. \A d \in Roots : ledger'[d].suite = ledger[d].suite /\ ledger'[d].attempts = ledger[d].attempts
  <2>1. \A d \in Roots : ledger[d] \in LedgerSet
    BY DEF TInv
  <2>. QED  BY <2>1 DEF Release, LedgerSet
<1>2. /\ run'[r].pc = pc /\ run'[r].root = run[r].root /\ run'[r].next = run[r].next
      /\ \A q \in Runs \ {r} : run'[q] = run[q]
  BY GoKeeps
<1>3. ASSUME NEW q \in Runs  PROVE Begun(q)' => Begun(q)
  BY <1>2 DEF Begun, Working
<1>. QED  BY <1>1, <1>2, <1>3 DEF Quiet

\* The ledger of a run at work has nobody else's work going on.
LEMMA Alone ==
  ASSUME TInv, NEW r \in Runs, NEW q \in Runs, run[r].pc \in Working, run[q].pc \in Working,
         run[r].root = run[q].root
  PROVE  r = q
<1>1. run[r].root \in Roots
  BY WorksInRoot
<1>. QED  BY <1>1 DEF TInv, Held, Working

\* The first pair's directory is refused unless there is no attempt at all.
LEMMA PairStep ==
  ASSUME TInv, RInv, NEW r \in Runs, OpenPair(r)
  PROVE  RInv'
<1> DEFINE own == run[r].root
<1>0. /\ run[r].pc = "running" /\ run[r].next \in 1 .. Len(PairsOf[r])
      /\ own \in Roots /\ PairsOf[r] # <<>> /\ suite' = suite
  <2>1. run[r].pc = "running" /\ run[r].next <= Len(PairsOf[r]) /\ suite' = suite
    BY DEF OpenPair, At
  <2>2. run[r].next \in Nat \ {0} /\ PairsOf[r] \in Seq(Pairs)
    BY HoldoutAssumption DEF TInv, RunSet
  <2>. QED  BY <2>1, <2>2 DEF TInv, Placed
<1>1. CASE <<Pair(r), "pair">> \in pairs[own]
  <2>1. Go(r, "failed") /\ Release(r) /\ pairs' = pairs
    BY <1>1 DEF OpenPair, Root
  <2>. QED  BY <1>0, <2>1, GoQuiet, QuietKeeps DEF Working, Before
<1>2. CASE <<Pair(r), "pair">> \notin pairs[own]
  <2>1. /\ Go(r, "pair") /\ ledger' = ledger
        /\ pairs' = [pairs EXCEPT ![own] = @ \cup {<<Pair(r), "pair">>}]
    BY <1>2 DEF OpenPair, Root
  <2>2. /\ run'[r].pc = "pair" /\ run'[r].root = own
        /\ \A q \in Runs \ {r} : run'[q] = run[q]
    BY <2>1, GoKeeps
  <2>3. <<Pair(r), "pair">> \in pairs'[own] /\ \A d \in Roots : pairs[d] \subseteq pairs'[d]
    BY <1>0, <2>1 DEF TInv
  <2>4. First(r) \in pairs'[own] /\ \A t \in ledger[own].attempts : t.by = r
    <3>1. CASE run[r].next = 1
      <4>1. First(r) = <<Pair(r), "pair">>
        BY <3>1 DEF First, Pair
      <4>2. ledger[own].attempts = {}
        BY <1>0, <1>2, <4>1 DEF RInv
      <4>. QED  BY <2>3, <4>1, <4>2
    <3>2. CASE run[r].next > 1
      <4>1. Mine(r)
        BY <1>0, <3>2 DEF RInv, Begun
      <4>. QED  BY <1>0, <2>3, <4>1 DEF Mine
    <3>. QED  BY <1>0, <3>1, <3>2
  <2>5. ASSUME NEW q \in Runs, Begun(q)'  PROVE Mine(q)'
    <3>1. CASE q = r
      BY <2>1, <2>2, <2>4, <3>1 DEF Mine, First
    <3>2. CASE q # r
      <4>1. run'[q] = run[q]
        BY <2>2, <3>2
      <4>2. Begun(q)
        BY <2>5, <4>1 DEF Begun
      <4>3. Mine(q) /\ run[q].root \in Roots
        BY <4>2, BegunWorks, WorksInRoot DEF RInv
      <4>. QED  BY <2>1, <2>3, <4>1, <4>3 DEF Mine, First
    <3>. QED  BY <3>1, <3>2
  <2>6. OneRunPerRoot'
    BY <1>0, <2>1 DEF RInv, OneRunPerRoot
  <2>7. ASSUME NEW d \in Roots, NEW q \in Runs, ledger'[d].attempts # {}, PairsOf[q] # <<>>
        PROVE  First(q) \in pairs'[d]
    BY <2>1, <2>3, <2>7 DEF RInv
  <2>8. ASSUME NEW q \in Runs
        PROVE  /\ run'[q].pc \in Before => run'[q].next = 1
               /\ run'[q].pc \in Working => ledger'[run'[q].root].suite = suite'[q]
    BY <1>0, <2>1, <2>2 DEF RInv, Before, Working
  <2>. QED  BY <2>5, <2>6, <2>7, <2>8 DEF RInv, First
<1>. QED  BY <1>1, <1>2

\* An arm is planned by the run that made the first directory, whichever arm.
LEMMA PlanStep ==
  ASSUME TInv, RInv, CommonFirst, NEW r \in Runs, NEW a \in Roles, PlanArm(r, a)
  PROVE  RInv'
<1> DEFINE own == run[r].root
           new == [arm |-> <<Pair(r), a>>, by |-> r]
<1>0. /\ run[r].pc = "pair" /\ own \in Roots /\ PairsOf[r] # <<>>
      /\ UNCHANGED <<run, suite, pairs>>
  BY InPair DEF PlanArm, ArmAt, At
<1>1. Begun(r) /\ Mine(r) /\ ledger[own].suite = suite[r]
  BY <1>0 DEF RInv, Begun, Working
<1>2. CASE ledger' = ledger
  <2>1. Quiet
    BY <1>0, <1>2 DEF Quiet, Begun
  <2>. QED  BY <2>1, QuietKeeps
<1>3. CASE ledger' = [ledger EXCEPT ![own] = [ledger[own] EXCEPT !.attempts = @ \cup {new}]]
  <2>1. /\ ledger'[own].attempts = ledger[own].attempts \cup {new}
        /\ ledger'[own].suite = ledger[own].suite
        /\ \A d \in Roots \ {own} : ledger'[d] = ledger[d]
    BY <1>0, <1>3 DEF TInv, LedgerSet
  <2>2. \A t \in ledger'[own].attempts : t.by = r
    BY <1>1, <2>1 DEF Mine
  <2>3. OneRunPerRoot'
    BY <1>0, <1>1, <2>1, <2>2 DEF OneRunPerRoot, RInv
  <2>4. ASSUME NEW d \in Roots, NEW q \in Runs, ledger'[d].attempts # {}, PairsOf[q] # <<>>
        PROVE  First(q) \in pairs'[d]
    <3>1. CASE d = own
      <4>1. First(q) = First(r)
        BY <1>0, <2>4 DEF First, CommonFirst
      <4>. QED  BY <1>0, <1>1, <3>1, <4>1 DEF Mine
    <3>2. CASE d # own
      BY <1>0, <2>1, <2>4, <3>2 DEF RInv
    <3>. QED  BY <3>1, <3>2
  <2>5. ASSUME NEW q \in Runs, Begun(q)'  PROVE Mine(q)'
    <3>0. Begun(q)
      BY <1>0, <2>5 DEF Begun
    <3>1. CASE q = r
      BY <1>0, <1>1, <2>2, <3>1 DEF Mine, First
    <3>2. CASE q # r
      <4>1. run[q].root \in Roots \ {own} /\ Mine(q)
        BY <1>0, <3>0, <3>2, BegunWorks, WorksInRoot, Alone DEF RInv, Working
      <4>. QED  BY <1>0, <2>1, <4>1 DEF Mine, First
    <3>. QED  BY <3>1, <3>2
  <2>6. ASSUME NEW q \in Runs
        PROVE  /\ run'[q].pc \in Before => run'[q].next = 1
               /\ run'[q].pc \in Working => ledger'[run'[q].root].suite = suite'[q]
    <3>1. run[q].pc \in Working => ledger'[run[q].root].suite = ledger[run[q].root].suite
      BY <2>1, WorksInRoot
    <3>. QED  BY <1>0, <3>1 DEF RInv
  <2>. QED  BY <2>3, <2>4, <2>5, <2>6 DEF RInv, First
<1>. QED  BY <1>0, <1>2, <1>3 DEF PlanArm, Root, TInv

LEMMA OpenStep ==
  ASSUME TInv, RInv, NEW r \in Runs, OpenLedger(r)
  PROVE  RInv'
<1> DEFINE own == run[r].root
<1>0. own \in Roots /\ run[r].next = 1 /\ suite' = suite /\ pairs' = pairs
  BY DEF OpenLedger, At, TInv, Placed, RInv, Before
<1>1. CASE Go(r, "failed") /\ ledger' = ledger
  BY <1>0, <1>1, GoQuiet, QuietKeeps DEF Working, Before
<1>2. CASE /\ ledger[own].holder = None /\ ledger[own].suite \in {None, suite[r]}
           /\ Go(r, "running")
           /\ ledger' = [ledger EXCEPT ![own] =
                           [ledger[own] EXCEPT !.holder = r, !.suite = suite[r]]]
  <2>1. /\ ledger'[own].attempts = ledger[own].attempts /\ ledger'[own].suite = suite[r]
        /\ \A d \in Roots \ {own} : ledger'[d] = ledger[d]
    BY <1>0, <1>2 DEF TInv, LedgerSet
  <2>2. ledger[own].suite = None => ledger[own].attempts = {}
    <3> SUFFICES ASSUME NEW t \in ledger[own].attempts PROVE ledger[own].suite # None
      OBVIOUS
    <3>1. suite[t.by] = ledger[own].suite /\ t.by \in Runs
      BY <1>0 DEF RInv, OneRunPerRoot, TInv, LedgerSet
    <3>. QED  BY <3>1, HoldoutAssumption DEF TInv
  <2>3. OneRunPerRoot'
    BY <1>0, <1>2, <2>1, <2>2 DEF OneRunPerRoot, RInv
  <2>4. \A d \in Roots : ledger'[d].attempts = ledger[d].attempts
    BY <2>1
  <2>5. /\ run'[r].pc = "running" /\ run'[r].root = own /\ run'[r].next = 1
        /\ \A q \in Runs \ {r} : run'[q] = run[q]
    BY <1>0, <1>2, GoKeeps
  <2>6. ASSUME NEW q \in Runs, Begun(q)'  PROVE Mine(q)'
    <3>1. q # r /\ run'[q] = run[q]
      BY <2>5, <2>6 DEF Begun
    <3>2. Begun(q)
      BY <2>6, <3>1 DEF Begun
    <3>3. Mine(q) /\ run[q].root \in Roots
      BY <3>2, BegunWorks, WorksInRoot DEF RInv
    <3>. QED  BY <1>0, <2>4, <3>1, <3>3 DEF Mine, First
  <2>7. ASSUME NEW q \in Runs, run'[q].pc \in Working
        PROVE  ledger'[run'[q].root].suite = suite'[q]
    <3>1. CASE q = r
      BY <1>0, <2>1, <2>5, <3>1
    <3>2. CASE q # r
      <4>1. run'[q] = run[q] /\ run[q].root \in Roots
        BY <2>5, <2>7, <3>2, WorksInRoot
      <4>2. run[q].root # own
        <5>1. ledger[run[q].root].holder = q
          BY <2>7, <4>1 DEF TInv, Held, Working
        <5>. QED  BY <1>2, <5>1, NoneIsNoRun
      <4>. QED  BY <1>0, <2>1, <2>7, <4>1, <4>2 DEF RInv
    <3>. QED  BY <3>1, <3>2
  <2>8. ASSUME NEW q \in Runs, run'[q].pc \in Before PROVE run'[q].next = 1
    BY <2>5, <2>8 DEF RInv, Before
  <2>9. \A d \in Roots, q \in Runs : ledger'[d].attempts # {} /\ PairsOf[q] # <<>> =>
          First(q) \in pairs'[d]
    BY <1>0, <2>4 DEF RInv
  <2>. QED  BY <2>3, <2>6, <2>7, <2>8, <2>9 DEF RInv, First
<1>3. \/ /\ ledger[own].holder = None /\ ledger[own].suite \in {None, suite[r]}
         /\ Go(r, "running")
         /\ ledger' = [ledger EXCEPT ![own] =
                         [ledger[own] EXCEPT !.holder = r, !.suite = suite[r]]]
      \/ Go(r, "failed") /\ ledger' = ledger
  BY <1>0 DEF OpenLedger, Root, TInv
<1>. QED  BY <1>1, <1>2, <1>3

LEMMA RootStep == CommonFirst /\ TInv /\ RInv /\ [Next]_vars => RInv'
<1> SUFFICES ASSUME CommonFirst, TInv, RInv, [Next]_vars PROVE RInv'
  OBVIOUS
<1>1. ASSUME NEW r \in Runs, Preflight(r) PROVE RInv'
  <2>1. run[r].pc = "idle" /\ UNCHANGED <<suite, pairs, ledger>>
    BY <1>1 DEF Preflight, At, work
  <2>2. PICK d \in Roots :
          run' = [run EXCEPT ![r] = [run[r] EXCEPT !.pc = "checked", !.root = d]]
    BY <1>1 DEF Preflight, TInv
  <2>3. /\ run'[r].pc = "checked" /\ run'[r].next = run[r].next
        /\ \A q \in Runs \ {r} : run'[q] = run[q]
    BY <2>2 DEF TInv, RunSet
  <2>4. Quiet
    BY <2>1, <2>3 DEF Quiet, Begun, Working, Before
  <2>. QED  BY <2>4, QuietKeeps
<1>2. ASSUME NEW r \in Runs, FindRoot(r) \/ InspectRoot(r) \/ FindRecord(r) \/ OpenRecord(r)
                             \/ WriteRecord(r) \/ SyncRecord(r) \/ SyncRegistry(r)
                             \/ ClaimFails(r) \/ Cleanup(r) \/ FindSpend(r) \/ MakeSpend(r)
                             \/ WriteSnapshot(r) \/ PairRaises(r) \/ Close(r)
                             \/ WriteResult(r) \/ Crash(r)
      PROVE RInv'
  <2>1. PICK pc : Go(r, pc) /\ pc \notin Working /\ (pc \in Before => run[r].pc \in Before)
    BY <1>2 DEF FindRoot, InspectRoot, FindRecord, OpenRecord, WriteRecord, SyncRecord,
         SyncRegistry, Persist, ClaimFails, Cleanup, FindSpend, MakeSpend, WriteSnapshot,
         PairRaises, Close, WriteResult, Crash, At, Working, Before
  <2>2. suite' = suite /\ pairs' = pairs /\ (ledger' = ledger \/ Release(r))
    BY <1>2 DEF FindRoot, InspectRoot, FindRecord, OpenRecord, WriteRecord, SyncRecord,
         SyncRegistry, Persist, ClaimFails, Cleanup, FindSpend, MakeSpend, WriteSnapshot,
         PairRaises, Close, WriteResult, Crash, work
  <2>. QED  BY <2>1, <2>2, GoQuiet, QuietKeeps
<1>3. ASSUME NEW r \in Runs, MakeRoot(r) PROVE RInv'
  <2>1. /\ run[r].pc = "missing" /\ UNCHANGED <<suite, pairs, ledger>>
        /\ run' = [run EXCEPT ![r] = [run[r] EXCEPT !.pc = "found", !.created = ~Exists(Root(r))]]
    BY <1>3 DEF MakeRoot, At, work, TInv
  <2>2. /\ run'[r].pc = "found" /\ run'[r].next = run[r].next
        /\ \A q \in Runs \ {r} : run'[q] = run[q]
    BY <2>1 DEF TInv, RunSet
  <2>3. Quiet
    BY <2>1, <2>2 DEF Quiet, Begun, Working, Before
  <2>. QED  BY <2>3, QuietKeeps
<1>4. ASSUME NEW r \in Runs, NEW a \in Roles, PlanArm(r, a) PROVE RInv'
  BY <1>4, PlanStep
<1>5. ASSUME NEW r \in Runs, OpenLedger(r) \/ OpenPair(r) PROVE RInv'
  BY <1>5, OpenStep, PairStep
<1>6. ASSUME NEW r \in Runs,
             \/ \E a \in Roles : StartArm(r, a) \/ Dispatch(r, a) \/ FailArm(r, a)
             \/ PassBarrier(r)
      PROVE RInv'
  <2>1. UNCHANGED <<run, suite, ledger>>
    BY <1>6 DEF StartArm, Dispatch, FailArm, PassBarrier
  <2>2. \A d \in Roots : pairs[d] \subseteq pairs'[d]
    BY <1>6 DEF StartArm, Dispatch, FailArm, PassBarrier, TInv
  <2>3. Quiet
    BY <2>1, <2>2 DEF Quiet, Begun
  <2>. QED  BY <2>3, QuietKeeps
<1>9. ASSUME NEW r \in Runs, EndPair(r) PROVE RInv'
  <2>1. /\ run[r].pc = "pair" /\ UNCHANGED <<suite, pairs, ledger>>
        /\ Moves(r, "running")
    BY <1>9, EndMoves DEF EndPair, At
  <2>2. Quiet
    BY <2>1 DEF Quiet, Moves, Begun, Working, Before
  <2>. QED  BY <2>2, QuietKeeps
<1>7. CASE PowerLoss
  <2>1. ASSUME NEW q \in Runs
        PROVE  (run'[q] = run[q] /\ run[q].pc \in Ended) \/ run'[q].pc = "failed"
    BY <1>7 DEF PowerLoss, TInv, RunSet
  <2>2. ASSUME NEW d \in Roots
        PROVE  ledger'[d].suite = ledger[d].suite /\ ledger'[d].attempts = ledger[d].attempts
    <3>1. ledger[d] \in LedgerSet /\ ledger'[d] = [ledger[d] EXCEPT !.holder = None]
      BY <1>7 DEF PowerLoss, TInv
    <3>. QED  BY <3>1 DEF LedgerSet
  <2>3. suite' = suite /\ pairs' = pairs
    BY <1>7 DEF PowerLoss
  <2>. QED  BY <2>1, <2>2, <2>3, QuietKeeps DEF Quiet, Begun, Working, Before, Ended
<1>8. CASE UNCHANGED vars
  <2>1. Quiet
    BY <1>8 DEF vars, Quiet, Begun
  <2>. QED  BY <2>1, QuietKeeps
<1>. QED
  BY <1>1, <1>2, <1>3, <1>4, <1>5, <1>6, <1>7, <1>8, <1>9 DEF Next

\* When the runs that share a root begin with the same pair, one ledger holds
\* the attempts of one run, of the suite it is bound to: the directory of that
\* pair is made once.
THEOREM OnePerRoot == ASSUME CommonFirst PROVE Spec => []OneRunPerRoot
<1>1. Init => TInv /\ RInv
  <2> SUFFICES ASSUME Init PROVE RInv
    BY TypeInit
  <2>1. /\ \A d \in Roots : ledger[d].attempts = {}
        /\ \A r \in Runs : run[r].pc = "idle" /\ run[r].next = 1
    BY DEF Init, NoLedger, Idle
  <2>. QED  BY <2>1 DEF RInv, OneRunPerRoot, Begun, Working
<1>2. TInv /\ RInv /\ [Next]_vars => (TInv /\ RInv)'
  BY TypeStep, RootStep
<1>3. RInv => OneRunPerRoot
  BY DEF RInv
<1>. QED  BY <1>1, <1>2, <1>3, PTL DEF Spec
=============================================================================
