------------------------------- MODULE Collector -------------------------------
(***************************************************************************)
(* The calibration collector (comparator_calibration/collect.py: collect)  *)
(* over its two files: the checkpoint of the trials paid for so far, and   *)
(* the spend journal of its SpendLedger.  It may be interrupted anywhere   *)
(* and started again, and nothing but the journal's identity check stands  *)
(* between two collectors that are given the same output.                  *)
(*                                                                         *)
(* SpendLedger models what an append does to the disk; here it succeeds or *)
(* raises, and its inspection of the file, its write and its second        *)
(* inspection are separate steps.                                          *)
(***************************************************************************)
EXTENDS Naturals, Sequences, FiniteSets, FiniteSetsExt

CONSTANTS
  Collectors,   \* processes that are started on one output
  N,            \* trials of the release, in its order
  run_max_usd,  \* the ceiling of the run
  per_call,     \* the ceiling of one invocation
  NoFile,       \* the ledger has attested no file
  MaxStarts     \* bound: starts of collectors, and with N of attempt ids

ASSUME CollectorAssumption ==
  /\ N \in Nat /\ per_call \in Nat \ {0} /\ run_max_usd \in Nat \ {0}
  /\ NoFile \notin Nat /\ MaxStarts \in Nat

Keys == 1..N
Usd == 0..per_call
AttemptIds == 1..(N * (MaxStarts + 1))
PaidTrials == [key : Keys, id : AttemptIds, cost : Usd]

VARIABLES
  journal,     \* the records of the spend journal
  checkpoint,  \* the trials of the checkpoint
  pc,          \* pc[k]: where collect stands
  step,        \* step[k]: how far its append to the journal is
  pending,     \* pending[k]: the record it appends
  trials,      \* trials[k]: the trials of its evidence
  todo,        \* todo[k]: recovered trials still to restore
  job,         \* job[k]: the trial it works on
  spent,       \* spent[k]: _spent_usd; nothing is reserved between two calls
  identity,    \* identity[k]: the length of the journal as last attested
  snapshot,    \* snapshot[k]: history: what was paid when the journal was read
  paid,        \* history: the calls the provider was paid for, ever
  accepted,    \* history: the evidence that was evaluated and published
  starts,      \* history: starts so far
  shared,      \* history: two collectors ran at the same time
  partial      \* history: one ended with recovered trials not restored

files == <<journal, checkpoint>>
append == <<step, pending>>
memory == <<trials, todo, job, spent, identity, snapshot>>
history == <<paid, accepted, starts, shared, partial>>
vars == <<files, pc, append, memory, history>>

----------------------------------------------------------------------------
(* What the ledger makes of the journal's records, of any process.         *)

Of(j, id, evs) == {j[n] : n \in {m \in 1..Len(j) : j[m].id = id /\ j[m].ev \in evs}}
Closes(j, id) == Of(j, id, {"reconcile", "forfeit"})

\* Mutant of ChargeOf: an interrupted call is taken to have cost nothing.
ChargeIfClosed(j, id) ==
  IF Closes(j, id) = {} THEN 0 ELSE Max({r.usd : r \in Closes(j, id)})

\* A reservation that was never closed is charged in full.
ChargeOf(j, id) ==
  LET lines == IF Closes(j, id) # {} THEN Closes(j, id) ELSE Of(j, id, {"reserve"})
  IN IF lines = {} THEN 0 ELSE Max({r.usd : r \in lines})

\* The sum of the charges, none above per_call, counted dollar by dollar.
Charged(j) == Cardinality({d \in AttemptIds \X (1..per_call) : d[2] <= ChargeOf(j, d[1])})

\* A trial is bound when its spend was reconciled at its cost.
Bound(j, t) == \E r \in Of(j, t.id, {"reconcile"}) : r.usd = t.cost

\* The sum of their costs, likewise.
Cost(calls) == Cardinality({d \in calls \X (1..per_call) : d[2] <= d[1].cost})

----------------------------------------------------------------------------
NoTrial == [key |-> 0, id |-> 0, cost |-> 0]
NoRecord == [ev |-> "none", id |-> 0, usd |-> 0]

\* The output is new, or a checkpoint without its journal was brought along.
Init ==
  /\ \E n \in 0..N : \E cost \in [1..n -> Usd] :
       checkpoint = {[key |-> key, id |-> key, cost |-> cost[key]] : key \in 1..n}
  /\ Cost(checkpoint) <= run_max_usd
  /\ paid = checkpoint
  /\ journal = <<>>
  /\ pc = [k \in Collectors |-> "off"]
  /\ step = [k \in Collectors |-> "none"]
  /\ pending = [k \in Collectors |-> NoRecord]
  /\ trials = [k \in Collectors |-> {}] /\ todo = [k \in Collectors |-> {}]
  /\ job = [k \in Collectors |-> NoTrial]
  /\ spent = [k \in Collectors |-> 0]
  /\ identity = [k \in Collectors |-> NoFile]
  /\ snapshot = [k \in Collectors |-> {}]
  /\ accepted = {} /\ starts = 0 /\ shared = FALSE /\ partial = FALSE

Goto(k, p) == pc' = [pc EXCEPT ![k] = p]

\* The process ends: by an error, by a result or because it is killed.
Ends(k) ==
  /\ Goto(k, "off")
  /\ step' = [step EXCEPT ![k] = "none"]
  /\ pending' = [pending EXCEPT ![k] = NoRecord]
  /\ trials' = [trials EXCEPT ![k] = {}] /\ todo' = [todo EXCEPT ![k] = {}]
  /\ job' = [job EXCEPT ![k] = NoTrial]
  /\ spent' = [spent EXCEPT ![k] = 0]
  /\ identity' = [identity EXCEPT ![k] = NoFile]
  /\ snapshot' = [snapshot EXCEPT ![k] = {}]
  /\ partial' = (partial \/ todo[k] # {})
  /\ UNCHANGED <<starts, shared>>

Raises(k) == Ends(k) /\ UNCHANGED <<files, paid, accepted>>

----------------------------------------------------------------------------
(* _append_journal, in three steps.                                        *)

Begin(k, p, r) ==
  /\ Goto(k, p)
  /\ step' = [step EXCEPT ![k] = "inspect"]
  /\ pending' = [pending EXCEPT ![k] = r]

\* The file is the one last attested; a ledger that saw none takes any.
Attested(k) == identity[k] \in {NoFile, Len(journal)}

\* The append raises: after a reconciliation, the finally clause of
\* run_transport forfeits; everything else ends the collector.
AppendRaises(k) ==
  /\ step[k] \in {"inspect", "attest"}
  /\ IF pc[k] = "reconcile"
       THEN /\ Begin(k, "forfeit", [ev |-> "forfeit", id |-> pending[k].id, usd |-> per_call])
            /\ UNCHANGED <<files, memory, history>>
       ELSE Raises(k)

Inspect(k) ==
  /\ step[k] = "inspect" /\ Attested(k)
  /\ step' = [step EXCEPT ![k] = "write"]
  /\ UNCHANGED <<files, pc, pending, memory, history>>

Write(k) ==
  /\ step[k] = "write"
  /\ journal' = Append(journal, pending[k])
  /\ step' = [step EXCEPT ![k] = "attest"]
  /\ UNCHANGED <<checkpoint, pc, pending, memory, history>>

\* The append returns to the operation that made it.
Appended(k, p) ==
  /\ step[k] = "attest"
  /\ pc[k] = p
  /\ step' = [step EXCEPT ![k] = "none"]
  /\ pending' = [pending EXCEPT ![k] = NoRecord]
  /\ identity' = [identity EXCEPT ![k] = Len(journal)]

----------------------------------------------------------------------------
(* Starting: the checkpoint is read first, then the journal.               *)

\* Mutant of Resume: the recovered trials do not become evidence.
ResumeAnew(k) ==
  /\ pc[k] = "off" /\ starts < MaxStarts
  /\ starts' = starts + 1
  /\ shared' = (shared \/ \E other \in Collectors : pc[other] # "off")
  /\ Goto(k, "ledger")
  /\ UNCHANGED <<files, append, memory, paid, accepted, partial>>

Resume(k) ==
  /\ pc[k] = "off" /\ starts < MaxStarts
  /\ starts' = starts + 1
  /\ shared' = (shared \/ \E other \in Collectors : pc[other] # "off")
  /\ trials' = [trials EXCEPT ![k] = checkpoint]
  /\ Goto(k, "ledger")
  /\ UNCHANGED <<files, append, todo, job, spent, identity, snapshot, paid,
                 accepted, partial>>

\* SpendLedger restores the journal; without one the recovered trials are
\* charged first.
OpenLedger(k) ==
  /\ pc[k] = "ledger"
  /\ IF Charged(journal) > run_max_usd
       THEN Raises(k)
       ELSE /\ spent' = [spent EXCEPT ![k] = Charged(journal)]
            /\ identity' = [identity EXCEPT
                 ![k] = IF journal = <<>> THEN NoFile ELSE Len(journal)]
            /\ todo' = [todo EXCEPT ![k] = IF journal = <<>> THEN trials[k] ELSE {}]
            /\ Goto(k, "restore")
            /\ UNCHANGED <<files, append, trials, job, snapshot, history>>

\* restore_reconciled: two records for each, in the order of the checkpoint.
Restore(k) ==
  /\ pc[k] = "restore" /\ todo[k] # {}
  /\ LET t == CHOOSE t \in todo[k] : \A u \in todo[k] : t.key <= u.key
     IN IF spent[k] + t.cost > run_max_usd
          THEN Raises(k)
          ELSE /\ Begin(k, "restoreReserve",
                        [ev |-> "reserve", id |-> t.id, usd |-> per_call])
               /\ job' = [job EXCEPT ![k] = t]
               /\ UNCHANGED <<files, trials, todo, spent, identity, snapshot, history>>

RestoreReserved(k) ==
  /\ step[k] = "attest" /\ pc[k] = "restoreReserve"
  /\ Begin(k, "restoreClose",
           [ev |-> "reconcile", id |-> job[k].id, usd |-> job[k].cost])
  /\ identity' = [identity EXCEPT ![k] = Len(journal)]
  /\ UNCHANGED <<files, trials, todo, job, spent, snapshot, history>>

Restored(k) ==
  /\ Appended(k, "restoreClose")
  /\ spent' = [spent EXCEPT ![k] = @ + job[k].cost]
  /\ todo' = [todo EXCEPT ![k] = @ \ {job[k]}]
  /\ job' = [job EXCEPT ![k] = NoTrial]
  /\ Goto(k, "restore")
  /\ UNCHANGED <<files, trials, snapshot, history>>

----------------------------------------------------------------------------
(* The loop over the trials.                                               *)

Missing(k) == Keys \ {t.key : t \in trials[k]}

\* Attempt ids are drawn afresh.
Unused == AttemptIds \ (Keys \cup {t.id : t \in paid} \cup {job[k].id : k \in Collectors}
                          \cup {journal[n].id : n \in 1..Len(journal)})
FreshId == CHOOSE id \in Unused : TRUE

\* Mutant of Reserve: the ceiling is not looked at.
ReserveUncapped(k) ==
  /\ pc[k] = "restore" /\ todo[k] = {} /\ Missing(k) # {} /\ Unused # {}
  /\ job' = [job EXCEPT ![k] = [key |-> Min(Missing(k)), id |-> FreshId, cost |-> 0]]
  /\ Begin(k, "reserve", [ev |-> "reserve", id |-> FreshId, usd |-> per_call])
  /\ UNCHANGED <<files, trials, todo, spent, identity, snapshot, history>>

\* reserve: a trial that is missing needs room for one full invocation.
Reserve(k) ==
  /\ pc[k] = "restore" /\ todo[k] = {} /\ Missing(k) # {} /\ Unused # {}
  /\ IF spent[k] + per_call > run_max_usd
       THEN Raises(k)
       ELSE /\ job' = [job EXCEPT ![k] = [key |-> Min(Missing(k)), id |-> FreshId, cost |-> 0]]
            /\ Begin(k, "reserve", [ev |-> "reserve", id |-> FreshId, usd |-> per_call])
            /\ UNCHANGED <<files, trials, todo, spent, identity, snapshot, history>>

Reserved(k) ==
  /\ Appended(k, "reserve")
  /\ Goto(k, "call")
  /\ UNCHANGED <<files, trials, todo, job, spent, snapshot, history>>

\* The transport is paid for; it answers with its cost, or fails without one
\* that is known.
Call(k, answered) ==
  /\ pc[k] = "call"
  /\ \E cost \in Usd :
       LET t == [job[k] EXCEPT !.cost = cost]
       IN /\ paid' = paid \cup {t}
          /\ job' = [job EXCEPT ![k] = IF answered THEN t ELSE job[k]]
          /\ IF answered
               THEN Begin(k, "reconcile", [ev |-> "reconcile", id |-> t.id, usd |-> cost])
               ELSE Begin(k, "forfeit", [ev |-> "forfeit", id |-> t.id, usd |-> per_call])
  /\ UNCHANGED <<files, trials, todo, spent, identity, snapshot, accepted,
                 starts, shared, partial>>

Reconciled(k) ==
  /\ Appended(k, "reconcile")
  /\ spent' = [spent EXCEPT ![k] = @ + job[k].cost]
  /\ Goto(k, "validate")
  /\ UNCHANGED <<files, trials, todo, job, snapshot, history>>

\* The call failed: its error passes through once the charge is recorded.
Forfeited(k) ==
  /\ step[k] = "attest" /\ pc[k] = "forfeit"
  /\ Raises(k)

\* A response that is refused was paid for all the same.
Validate(k) ==
  /\ pc[k] = "validate"
  /\ \/ /\ trials' = [trials EXCEPT ![k] = @ \cup {job[k]}]
        /\ Goto(k, "sync")
        /\ UNCHANGED <<files, append, todo, job, spent, identity, snapshot, history>>
     \/ Raises(k)

\* _sync_spend_evidence copies the journal's records, if the file is attested.
Reads(k) ==
  /\ Attested(k)
  /\ identity' = [identity EXCEPT ![k] = IF journal = <<>> THEN NoFile ELSE Len(journal)]

Sync(k) ==
  /\ pc[k] = "sync"
  /\ IF Attested(k)
       THEN /\ Reads(k)
            /\ Goto(k, "checkpoint")
            /\ UNCHANGED <<files, append, trials, todo, job, spent, snapshot, history>>
       ELSE Raises(k)

\* The checkpoint is replaced by the evidence of this collector.
WriteCheckpoint(k) ==
  /\ pc[k] = "checkpoint"
  /\ checkpoint' = trials[k]
  /\ job' = [job EXCEPT ![k] = NoTrial]
  /\ Goto(k, "restore")
  /\ UNCHANGED <<journal, append, trials, todo, spent, identity, snapshot, history>>

----------------------------------------------------------------------------
(* All trials are there: evaluate_evidence and the last checkpoint.        *)

LastSync(k) ==
  /\ pc[k] = "restore" /\ todo[k] = {} /\ Missing(k) = {}
  /\ IF Attested(k)
       THEN /\ Reads(k)
            /\ snapshot' = [snapshot EXCEPT ![k] = paid]
            /\ Goto(k, "evaluate")
            /\ UNCHANGED <<files, append, trials, todo, job, spent, history>>
       ELSE Raises(k)

CopiedRecords(k) == IF identity[k] = NoFile THEN <<>> ELSE SubSeq(journal, 1, identity[k])

\* Mutant of Admissible: the total is not compared with the records.
AdmissibleTrials(k) == \A t \in trials[k] : Bound(CopiedRecords(k), t)

\* The reported total is the records', and every trial is bound to them.
Admissible(k) ==
  /\ spent[k] = Charged(CopiedRecords(k))
  /\ \A t \in trials[k] : Bound(CopiedRecords(k), t)

Evaluate(k) ==
  /\ pc[k] = "evaluate"
  /\ IF Admissible(k)
       THEN Goto(k, "publish") /\ UNCHANGED <<files, append, memory, history>>
       ELSE Raises(k)

\* It passes if the total is within the ceiling, among much else.
Publish(k) ==
  /\ pc[k] = "publish"
  /\ Ends(k)
  /\ checkpoint' = trials[k]
  /\ accepted' = accepted \cup
       (IF spent[k] <= run_max_usd
          THEN {[trials |-> trials[k], charged |-> spent[k], paid |-> snapshot[k]]}
          ELSE {})
  /\ UNCHANGED <<journal, paid>>

----------------------------------------------------------------------------
Die(k) == pc[k] # "off" /\ Raises(k)

\* Every step but the call.
Work(k) ==
  \/ Resume(k) \/ OpenLedger(k) \/ Restore(k) \/ RestoreReserved(k) \/ Restored(k)
  \/ Reserve(k) \/ Reserved(k) \/ Reconciled(k) \/ Forfeited(k) \/ Validate(k)
  \/ Sync(k) \/ WriteCheckpoint(k) \/ LastSync(k) \/ Evaluate(k) \/ Publish(k)
  \/ Inspect(k) \/ Write(k) \/ AppendRaises(k)

Next ==
  \E k \in Collectors : Work(k) \/ Die(k) \/ \E answered \in BOOLEAN : Call(k, answered)

Spec == Init /\ [][Next]_vars

----------------------------------------------------------------------------
Pcs == {"off", "ledger", "restore", "restoreReserve", "restoreClose", "reserve",
        "call", "reconcile", "forfeit", "validate", "sync", "checkpoint",
        "evaluate", "publish"}

TypeOK ==
  /\ journal \in Seq([ev : {"reserve", "reconcile", "forfeit"}, id : AttemptIds, usd : Usd])
  /\ checkpoint \subseteq PaidTrials /\ paid \subseteq PaidTrials
  /\ pc \in [Collectors -> Pcs]
  /\ step \in [Collectors -> {"none", "inspect", "write", "attest"}]
  /\ \A k \in Collectors :
       /\ trials[k] \subseteq PaidTrials /\ todo[k] \subseteq trials[k]
       /\ identity[k] \in 0..Len(journal) \cup {NoFile}
       /\ spent[k] \in 0..run_max_usd
       /\ \A t, u \in trials[k] : t.key = u.key => t = u
       /\ (step[k] # "none") = (pc[k] \in {"restoreReserve", "restoreClose",
                                          "reserve", "reconcile", "forfeit"})

\* Evidence that passes hides no cost: whatever was interrupted, repeated or
\* done by another collector on the same files, the total it reports covers
\* all the provider was paid when the journal was read, within the ceiling,
\* and its trials are calls that were made (collect, evaluate_evidence).
EvidenceCoversSpend ==
  \A e \in accepted :
    /\ Cost(e.paid) <= e.charged /\ e.charged <= run_max_usd
    /\ e.trials \subseteq e.paid
    /\ {t.key : t \in e.trials} = Keys

\* A lone collector, started over and over, never pays beyond the ceiling,
\* unless one was interrupted while it restored a journal that was missing.
CeilingHoldsAlone == shared \/ partial \/ Cost(paid) <= run_max_usd

\* An interruption costs a lone collector at most the trial it was working on:
\* what the checkpoint holds is not paid again.
PaidIsKept == shared \/ Cardinality(paid) <= Cardinality(checkpoint) + starts
=============================================================================
