----------------------------- MODULE HoldoutRun -----------------------------
(***************************************************************************)
(* Evaluation runs that compete for sealed holdout plans and for result    *)
(* roots (EvalRunner.run, _prepare_result_root, _claim_holdout_consumption *)
(* and the opening of the run's ledgers, skivolve/runner.py).  Every run   *)
(* is a process of its own; nothing but the file system orders them.       *)
(*                                                                         *)
(* The generator ledger is here what GeneratorLedger shows it to be: one   *)
(* holder at a time, one suite binding, one attempt per arm.  The barrier  *)
(* of a concurrent pair is what PairRun shows it to be: both arms pass it  *)
(* or neither does.                                                        *)
(***************************************************************************)
EXTENDS Naturals, Sequences

CONSTANTS
  Runs,    \* invocations of the evaluator
  Plans,   \* sealed holdout plans, each with its consumption record
  PlanOf,  \* the plan of each run, None for a run of a public split
  Judged,  \* the runs that have a comparator, hence spend journals
  Roots,   \* result roots
  Suites,  \* manifests with their provider binding
  Concurrent, \* the suites whose execution policy runs the arms of a pair together
  Pairs,   \* comparisons of a case, each repetition a pair of its own
  PairsOf, \* the pairs each run selects, in its order
  Roles,   \* control and treatment
  None     \* no plan, no run, no root

ASSUME HoldoutAssumption ==
  /\ PlanOf \in [Runs -> Plans \cup {None}]
  /\ None \notin Plans \cup Runs \cup Roots \cup Suites
  /\ None \notin {"spend", "snapshot", "ledger", "pairs", "run.json"}
  /\ Judged \subseteq Runs /\ Concurrent \subseteq Suites
  /\ PairsOf \in [Runs -> Seq(Pairs)]

VARIABLES
  run,        \* run[r]: where the process is
  suite,      \* suite[r]: the suite it evaluates
  record,     \* record[p]: the consumption record of the plan
  dir,        \* dir[d]: the entries of the result root, or None: no directory
  pairs,      \* pairs[d]: the directories of pairs and arms in the root
  ledger,     \* ledger[d]: the generator ledger in the root
  arms,       \* arms[r]: where the arms of the pair in progress are
  dispatched  \* history: the runs that called a provider

vars == <<run, suite, record, dir, pairs, ledger, arms, dispatched>>
work == <<pairs, ledger, arms>>

Arms == Pairs \X Roles  \* logical arms

NoDir == {None}
NoRecord == [state |-> "absent", by |-> None, root |-> None]
NoLedger == [holder |-> None, suite |-> None, attempts |-> {}]
Fresh == [a \in Roles |-> "new"]
Idle == [pc |-> "idle", root |-> None, created |-> FALSE, next |-> 1]

Init ==
  /\ run = [r \in Runs |-> Idle]
  /\ suite \in {s \in [Runs -> Suites] :
       \A r, q \in Runs : PlanOf[r] = PlanOf[q] /\ PlanOf[r] # None => s[r] = s[q]}
  /\ record = [p \in Plans |-> NoRecord]
  /\ dir = [d \in Roots |-> NoDir]
  /\ pairs = [d \in Roots |-> {}]
  /\ ledger = [d \in Roots |-> NoLedger]
  /\ arms = [r \in Runs |-> Fresh]
  /\ dispatched = {}

At(r, pc) == run[r].pc = pc
Root(r) == run[r].root
Pair(r) == PairsOf[r][run[r].next]
Together(r) == suite[r] \in Concurrent
Exists(d) == dir[d] # NoDir
Go(r, pc) == run' = [run EXCEPT ![r].pc = pc]

\* The run leaves its pairs and lets go of the lock of a ledger it holds.
Release(r) ==
  /\ ledger' = [d \in Roots |->
       IF ledger[d].holder = r THEN [ledger[d] EXCEPT !.holder = None] ELSE ledger[d]]
  /\ arms' = [arms EXCEPT ![r] = Fresh]

----------------------------------------------------------------------------
(* The result root.                                                        *)

\* _bind_holdout_plan: the plan must be unconsumed when the run starts.
Preflight(r) ==
  /\ At(r, "idle")
  /\ PlanOf[r] # None => record[PlanOf[r]].state = "absent"
  /\ \E d \in Roots : run' = [run EXCEPT ![r].pc = "checked", ![r].root = d]
  /\ UNCHANGED <<suite, work, record, dir, dispatched>>

FindRoot(r) ==
  /\ At(r, "checked")
  /\ Go(r, IF Exists(Root(r)) THEN "found" ELSE "missing")
  /\ UNCHANGED <<suite, work, record, dir, dispatched>>

\* mkdir; that another process was faster is ignored.
MakeRoot(r) ==
  /\ At(r, "missing")
  /\ run' = [run EXCEPT ![r].pc = "found", ![r].created = ~Exists(Root(r))]
  /\ dir' = [dir EXCEPT ![Root(r)] = IF Exists(Root(r)) THEN @ ELSE {}]
  /\ UNCHANGED <<suite, work, record, dispatched>>

\* The root must be there and empty.  A run without a plan goes on.
InspectRoot(r) ==
  /\ At(r, "found")
  /\ Go(r, IF dir[Root(r)] # {} THEN "failed"
           ELSE IF PlanOf[r] = None THEN "setup" ELSE "claiming")
  /\ UNCHANGED <<suite, work, record, dir, dispatched>>

----------------------------------------------------------------------------
(* The consumption record.                                                 *)

\* The claim looks for a record first.
FindRecord(r) ==
  /\ At(r, "claiming")
  /\ Go(r, IF record[PlanOf[r]].state = "absent" THEN "unclaimed" ELSE "cleanup")
  /\ UNCHANGED <<suite, work, record, dir, dispatched>>

\* Mutant of OpenRecord: without O_EXCL.
OpenRecordShared(r) ==
  /\ At(r, "unclaimed")
  /\ Go(r, "opened")
  /\ record' = [record EXCEPT ![PlanOf[r]] =
       [state |-> "created", by |-> r, root |-> Root(r)]]
  /\ UNCHANGED <<suite, work, dir, dispatched>>

\* O_CREAT | O_EXCL decides who consumes the plan.
OpenRecord(r) ==
  /\ At(r, "unclaimed")
  /\ IF record[PlanOf[r]].state = "absent"
     THEN /\ Go(r, "opened")
          /\ record' = [record EXCEPT ![PlanOf[r]] =
               [state |-> "created", by |-> r, root |-> Root(r)]]
     ELSE Go(r, "cleanup") /\ UNCHANGED record
  /\ UNCHANGED <<suite, work, dir, dispatched>>

\* One step of the claim succeeds.
Persist(r, from, to, state) ==
  /\ At(r, from)
  /\ Go(r, to)
  /\ record' = [record EXCEPT ![PlanOf[r]].state = state]
  /\ UNCHANGED <<suite, work, dir, dispatched>>

WriteRecord(r) == Persist(r, "opened", "written", "written")
SyncRecord(r) == Persist(r, "written", "synced", "synced")

\* Mutant of SyncRegistry: the directory of the record is not fsynced.
SyncRegistrySkipped(r) == Persist(r, "synced", "setup", "synced")

SyncRegistry(r) == Persist(r, "synced", "setup", "durable")

\* Any system call of the claim fails: the record stays as it is.
ClaimFails(r) ==
  /\ run[r].pc \in {"unclaimed", "opened", "written", "synced"}
  /\ Go(r, "cleanup")
  /\ UNCHANGED <<suite, work, record, dir, dispatched>>

\* Mutant of Cleanup: removes the root with what is in it.
CleanupTree(r) ==
  /\ At(r, "cleanup")
  /\ Go(r, "failed")
  /\ dir' = IF run[r].created THEN [dir EXCEPT ![Root(r)] = NoDir] ELSE dir
  /\ UNCHANGED <<suite, work, record, dispatched>>

\* rmdir of the root the run created; it fails on one that is not empty.
Cleanup(r) ==
  /\ At(r, "cleanup")
  /\ Go(r, "failed")
  /\ dir' = IF run[r].created /\ dir[Root(r)] = {}
            THEN [dir EXCEPT ![Root(r)] = NoDir] ELSE dir
  /\ UNCHANGED <<suite, work, record, dispatched>>

----------------------------------------------------------------------------
(* The run's artifacts and ledgers.                                        *)

\* _mkdir_private(comparator-spend) looks first; a judged run must find none.
FindSpend(r) ==
  /\ At(r, "setup") /\ r \in Judged
  /\ Go(r, IF "spend" \in dir[Root(r)] THEN "failed" ELSE "spendless")
  /\ UNCHANGED <<suite, work, record, dir, dispatched>>

\* The mkdir that follows takes an existing directory and needs its parent.
MakeSpend(r) ==
  /\ At(r, "spendless")
  /\ IF Exists(Root(r))
     THEN Go(r, "snapshot") /\ dir' = [dir EXCEPT ![Root(r)] = @ \cup {"spend"}]
     ELSE Go(r, "failed") /\ UNCHANGED dir
  /\ UNCHANGED <<suite, work, record, dispatched>>

\* _write_bytes makes the directory it needs, also a root that is gone.
WriteSnapshot(r) ==
  /\ At(r, "snapshot") \/ (At(r, "setup") /\ r \notin Judged)
  /\ Go(r, "locking")
  /\ dir' = [dir EXCEPT ![Root(r)] = (@ \ NoDir) \cup {"snapshot"}]
  /\ UNCHANGED <<suite, work, record, dispatched>>

\* The lifetime lock, and a header that is new or this suite's.
OpenLedger(r) ==
  /\ At(r, "locking")
  /\ LET l == ledger[Root(r)]
     IN IF l.holder = None /\ Exists(Root(r)) /\ l.suite \in {None, suite[r]}
        THEN /\ Go(r, "running")
             /\ ledger' = [ledger EXCEPT ![Root(r)].holder = r, ![Root(r)].suite = suite[r]]
             /\ dir' = [dir EXCEPT ![Root(r)] = @ \cup {"ledger"}]
        ELSE Go(r, "failed") /\ UNCHANGED <<dir, ledger>>
  /\ UNCHANGED <<suite, record, pairs, arms, dispatched>>

----------------------------------------------------------------------------
(* The pairs, one after the other, and the two arms of each.              *)

\* Mutant of OpenPair: exist_ok.
OpenPairAgain(r) ==
  /\ At(r, "running") /\ run[r].next <= Len(PairsOf[r])
  /\ Go(r, "pair")
  /\ pairs' = [pairs EXCEPT ![Root(r)] = @ \cup {<<Pair(r), "pair">>}]
  /\ dir' = [dir EXCEPT ![Root(r)] = (@ \ NoDir) \cup {"pairs"}]
  /\ UNCHANGED <<suite, record, ledger, arms, dispatched>>

\* _mkdir_private of the pair's directory, with its parents: one that is there
\* ends the run.  No other run of this root makes one between the look and the
\* mkdir, for it would hold the ledger.
OpenPair(r) ==
  /\ At(r, "running") /\ run[r].next <= Len(PairsOf[r])
  /\ IF <<Pair(r), "pair">> \in pairs[Root(r)]
     THEN Go(r, "failed") /\ Release(r) /\ UNCHANGED <<dir, pairs>>
     ELSE /\ Go(r, "pair")
          /\ pairs' = [pairs EXCEPT ![Root(r)] = @ \cup {<<Pair(r), "pair">>}]
          /\ dir' = [dir EXCEPT ![Root(r)] = (@ \ NoDir) \cup {"pairs"}]
          /\ UNCHANGED <<ledger, arms>>
  /\ UNCHANGED <<suite, record, dispatched>>

ArmAt(r, a, pc) == At(r, "pair") /\ arms[r][a] = pc
ArmGoes(r, a, pc) == arms' = [arms EXCEPT ![r][a] = pc]

\* The directory of the arm.  Serialized arms follow one another, in the order
\* the seed gives; one that raised is the last.
StartArm(r, a) ==
  /\ ArmAt(r, a, "new")
  /\ Together(r) \/ \A b \in Roles \ {a} : arms[r][b] \in {"new", "ended"}
  /\ IF <<Pair(r), a>> \in pairs[Root(r)]
     THEN ArmGoes(r, a, "raised") /\ UNCHANGED pairs
     ELSE /\ ArmGoes(r, a, "made")
          /\ pairs' = [pairs EXCEPT ![Root(r)] = @ \cup {<<Pair(r), a>>}]
  /\ UNCHANGED <<suite, run, record, dir, ledger, dispatched>>

\* plan_attempt refuses a logical arm that the journal already has.
PlanArm(r, a) ==
  /\ ArmAt(r, a, "made")
  /\ IF \E t \in ledger[Root(r)].attempts : t.arm = <<Pair(r), a>>
     THEN ArmGoes(r, a, "raised") /\ UNCHANGED ledger
     ELSE /\ ArmGoes(r, a, "planned")
          /\ ledger' = [ledger EXCEPT ![Root(r)].attempts =
                          @ \cup {[arm |-> <<Pair(r), a>>, by |-> r]}]
  /\ UNCHANGED <<suite, run, record, dir, pairs, dispatched>>

\* The start barrier of concurrent arms.
PassBarrier(r) ==
  /\ At(r, "pair") /\ Together(r)
  /\ \A a \in Roles : arms[r][a] = "planned"
  /\ arms' = [arms EXCEPT ![r] = [a \in Roles |-> "synced"]]
  /\ UNCHANGED <<suite, run, record, dir, pairs, ledger, dispatched>>

\* An arm is over: with a result, also one that says error, or because the
\* ledger raised.
EndArm(r, a) == \E end \in {"ended", "raised"} : ArmGoes(r, a, end)

\* The provider is called.
Dispatch(r, a) ==
  /\ ArmAt(r, a, IF Together(r) THEN "synced" ELSE "planned")
  /\ EndArm(r, a)
  /\ dispatched' = dispatched \cup {r}
  /\ UNCHANGED <<suite, run, record, dir, pairs, ledger>>

\* Anything before the provider fails: before the plan, at the barrier, or
\* after it in this arm alone.
FailArm(r, a) ==
  /\ At(r, "pair") /\ arms[r][a] \in {"made", "planned", "synced"}
  /\ EndArm(r, a)
  /\ UNCHANGED <<suite, run, record, dir, pairs, ledger, dispatched>>

\* An arm raised: the run ends when no arm is at work.
PairRaises(r) ==
  /\ \E a \in Roles : ArmAt(r, a, "raised")
  /\ \A a \in Roles :
       arms[r][a] \in {"ended", "raised"} \/ (~Together(r) /\ arms[r][a] = "new")
  /\ Go(r, "failed") /\ Release(r)
  /\ UNCHANGED <<suite, record, dir, pairs, dispatched>>

EndPair(r) ==
  /\ At(r, "pair") /\ \A a \in Roles : arms[r][a] = "ended"
  /\ run' = [run EXCEPT ![r].pc = "running", ![r].next = @ + 1]
  /\ arms' = [arms EXCEPT ![r] = Fresh]
  /\ UNCHANGED <<suite, record, dir, pairs, ledger, dispatched>>

\* Mutant of Close: the lifetime lock is not released.
CloseLocked(r) ==
  /\ At(r, "running") /\ run[r].next > Len(PairsOf[r])
  /\ Go(r, "closed")
  /\ UNCHANGED <<suite, work, record, dir, dispatched>>

\* The ledger is closed before run.json is written.
Close(r) ==
  /\ At(r, "running") /\ run[r].next > Len(PairsOf[r])
  /\ Go(r, "closed") /\ Release(r)
  /\ UNCHANGED <<suite, record, dir, pairs, dispatched>>

WriteResult(r) ==
  /\ At(r, "closed")
  /\ Go(r, "finished")
  /\ dir' = [dir EXCEPT ![Root(r)] = (@ \ NoDir) \cup {"run.json"}]
  /\ UNCHANGED <<suite, work, record, dispatched>>

----------------------------------------------------------------------------
Ended == {"idle", "failed", "finished"}

\* The process dies, or raises where nothing is cleaned up.
Crash(r) ==
  /\ run[r].pc \notin Ended
  /\ Go(r, "failed") /\ Release(r)
  /\ UNCHANGED <<suite, record, dir, pairs, dispatched>>

\* Every process dies; a record that was not durable may be gone.  Who starts
\* later stops at a root with a ledger, whether its pairs are still there or not.
PowerLoss ==
  /\ run' = [r \in Runs |-> IF run[r].pc \in Ended THEN run[r]
                            ELSE [run[r] EXCEPT !.pc = "failed"]]
  /\ ledger' = [d \in Roots |-> [ledger[d] EXCEPT !.holder = None]]
  /\ arms' = [r \in Runs |-> Fresh]
  /\ \E lost \in SUBSET {p \in Plans : record[p].state # "durable"} :
       record' = [p \in Plans |-> IF p \in lost THEN NoRecord ELSE record[p]]
  /\ UNCHANGED <<suite, dir, pairs, dispatched>>

Next ==
  \/ \E r \in Runs :
       \/ Preflight(r) \/ FindRoot(r) \/ MakeRoot(r) \/ InspectRoot(r)
       \/ FindRecord(r) \/ OpenRecord(r) \/ WriteRecord(r) \/ SyncRecord(r)
       \/ SyncRegistry(r) \/ ClaimFails(r) \/ Cleanup(r)
       \/ FindSpend(r) \/ MakeSpend(r) \/ WriteSnapshot(r) \/ OpenLedger(r)
       \/ OpenPair(r)
       \/ \E a \in Roles : StartArm(r, a) \/ PlanArm(r, a) \/ Dispatch(r, a) \/ FailArm(r, a)
       \/ PassBarrier(r) \/ PairRaises(r) \/ EndPair(r)
       \/ Close(r) \/ WriteResult(r)
       \/ Crash(r)
  \/ PowerLoss

Spec == Init /\ [][Next]_vars

----------------------------------------------------------------------------
(* Properties.                                                             *)

Pcs == {"idle", "checked", "missing", "found", "claiming", "unclaimed", "opened",
        "written", "synced", "cleanup", "setup", "spendless", "snapshot", "locking",
        "running", "pair", "closed", "finished", "failed"}

\* Types; the ledger of a root is held by a run that is in that root.
TypeOK ==
  /\ run \in [Runs -> [pc : Pcs, root : Roots \cup {None}, created : BOOLEAN,
                       next : Nat \ {0}]]
  /\ record \in [Plans ->
       [state : {"absent", "created", "written", "synced", "durable"},
        by : Runs \cup {None}, root : Roots \cup {None}]]
  /\ dir \in [Roots -> {NoDir} \cup SUBSET {"spend", "snapshot", "ledger", "pairs", "run.json"}]
  /\ pairs \in [Roots -> SUBSET (Pairs \X ({"pair"} \cup Roles))]
  /\ ledger \in [Roots ->
       [holder : Runs \cup {None}, suite : Suites \cup {None},
        attempts : SUBSET [arm : Arms, by : Runs]]]
  /\ arms \in [Runs -> [Roles ->
       {"new", "made", "planned", "synced", "ended", "raised"}]]
  /\ dispatched \in SUBSET Runs
  /\ \A d \in Roots, r \in Runs :
       ledger[d].holder = r <=> Root(r) = d /\ run[r].pc \in {"running", "pair"}

\* Every attempt records consumption before provider or comparator dispatch:
\* the record is durable and names this run and its root.
ConsumedBeforeDispatch ==
  \A r \in dispatched : PlanOf[r] # None =>
    record[PlanOf[r]] = [state |-> "durable", by |-> r, root |-> Root(r)]

\* A sealed plan is evaluated by one run at most, whoever races, fails or
\* crashes.
OneRunPerPlan ==
  \A r, q \in dispatched : PlanOf[r] = PlanOf[q] /\ PlanOf[r] # None => r = q

\* The evidence in a result root is one run's, of the suite its ledger is
\* bound to, although two runs that begin with the same pair may both find the
\* root empty, plan the arms of it in either order, and skip arms that fail.
OneRunPerRoot ==
  \A d \in Roots : \A a, b \in ledger[d].attempts :
    a.by = b.by /\ suite[a.by] = ledger[d].suite

\* The root of a run that dispatched is still there with its ledger: no
\* loser of a claim removes it.
EvidenceKept ==
  \A r \in dispatched : "ledger" \in dir[Root(r)]
=============================================================================
