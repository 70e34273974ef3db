---------------------------- MODULE PairRunProofs ----------------------------
(***************************************************************************)
(* That the arms of a pair start together, that their attempts are         *)
(* accounted for, and that the verdict is earned, for any provider and any *)
(* number of ledger faults, requirements and criteria.  The invariant has  *)
(* a local part, about one arm and its attempt, and two parts about both   *)
(* arms: the barrier, and the readings of the clock.                       *)
(***************************************************************************)
EXTENDS PairRun, TLAPS

----------------------------------------------------------------------------
(* One arm and its attempt.                                                *)

ArmSet ==
  [pc : Pcs, exc : {"none", "journal", "other"},
   synchronized : BOOLEAN, entered : BOOLEAN, sent : BOOLEAN,
   dispatched : BOOLEAN, evidence : BOOLEAN,
   journal : {"none", "planned", "dispatched", "completed", "failed"},
   status : {"none", "completed", "error"}, passed : BOOLEAN]

\* The phase that an arm's local state stands for.
Expected(r) ==
  CASE r.journal = "none" -> "unknown"
    [] r.journal = "planned" /\ ~r.dispatched -> "planned"
    [] r.journal = "planned" /\ r.dispatched -> "dispatched"
    [] r.journal = "dispatched" -> "dispatched"
    [] r.journal = "completed" -> "completed"
    [] r.journal = "failed" /\ r.dispatched -> "failed_observed"
    [] r.journal = "failed" /\ ~r.dispatched -> "failed_not_observed"

\* The local state was reached in order: planned, synchronized, entered, sent
\* and dispatched, completed or failed.
Ordered(r, kind) ==
  /\ r.entered => r.synchronized
  /\ r.synchronized => r.journal # "none"
  /\ r.sent \/ r.dispatched => r.entered
  /\ r.journal \in {"dispatched", "completed"} => r.dispatched /\ r.sent
  /\ kind = "claude" /\ r.sent => r.dispatched
  /\ r.status = "completed" => r.journal = "completed"
  /\ r.status # "none" =>
       r.pc \in {"record", "done", "raised"} /\ r.journal \in {"none", "completed", "failed"}
  /\ r.journal = "failed" => r.status # "none"

BeforeSync == {"ready", "prepare", "plan"}
BeforeCall == BeforeSync \cup Synchronizing
Calling == {"launch", "callback", "transmit", "answer", "account", "judge"}

\* What holds of an arm where it is.
Placed(r, kind) ==
  /\ r.pc \in BeforeSync => r.journal = "none"
  /\ r.pc \in BeforeCall => ~r.synchronized
  /\ r.pc \in Synchronizing \cup {"enter"} \cup Calling => r.journal = "planned"
  /\ r.pc \in {"sync1", "wait1", "sync2", "wait2"} => kind # "codex"
  /\ r.pc = "enter" => r.synchronized /\ ~r.entered
  /\ r.pc \in Calling \cup {"complete", "finally"} => r.entered
  /\ r.pc \in {"launch", "transmit"} => ~r.sent
  /\ r.pc \in {"launch", "callback", "account"} => ~r.dispatched
  /\ r.pc = "callback" => (r.sent <=> kind # "claude")
  /\ r.pc = "transmit" => (r.dispatched <=> kind = "claude")
  /\ r.pc \in {"answer", "account", "judge"} => r.sent
  /\ r.pc = "answer" /\ kind = "claude" => r.dispatched
  /\ r.pc = "judge" => r.dispatched
  /\ r.pc = "complete" => r.journal = "dispatched" /\ r.exc = "none"
  /\ r.pc = "finally" => (r.exc = "none" <=> r.journal = "completed")
  /\ r.pc = "verify" => r.journal = "completed"
  /\ r.pc = "settle" => r.exc # "journal"
  /\ r.pc \in {"record", "done"} => r.status # "none"

\* The journal says what the arm knows.  Only a failing append separates them,
\* and it poisons the ledger: such an arm will never return a result.
Accounted(r, p, bad) ==
  p # Expected(r) =>
    /\ bad /\ r.status = "none"
    /\ r.pc \in {"finally", "handler", "settle", "raised"}
    /\ r.journal = "none" => r.pc # "settle" /\ r.exc = "journal"
    /\ r.journal # "none" =>
         p \in IF r.dispatched THEN {"completed", "failed_observed"}
               ELSE {"dispatched", "failed_not_observed"}
    /\ r.journal \in {"none", "planned", "dispatched"}

Local(r, p, kind, bad) == Ordered(r, kind) /\ Placed(r, kind) /\ Accounted(r, p, bad)

LInv ==
  /\ provider \in Providers \cap {"fake", "claude", "codex"} /\ monitored \in Monitors
  /\ arm \in [Roles -> ArmSet]
  /\ phase \in [Roles -> Phases]
  /\ poisoned \in BOOLEAN
  /\ faults \in 0..MaxFaults
  /\ \A a \in Roles : Local(arm[a], phase[a], provider, poisoned)

\* The arm a has become r, with its attempt in phase p; the other one waits.
Becomes(a, r, p) ==
  /\ r \in ArmSet
  /\ arm' = [arm EXCEPT ![a] = r]
  /\ phase' = [phase EXCEPT ![a] = p]
  /\ Local(r, p, provider, poisoned')

LEMMA LocalStep ==
  ASSUME LInv, NEW a \in Roles, NEW r, NEW p \in Phases, Becomes(a, r, p),
         UNCHANGED <<provider, monitored>>,
         poisoned' \in BOOLEAN, poisoned => poisoned', faults' \in 0..MaxFaults
  PROVE  LInv'
<1>1. arm' \in [Roles -> ArmSet] /\ phase' \in [Roles -> Phases]
  BY DEF LInv, Becomes
<1>2. arm'[a] = r /\ phase'[a] = p
  BY DEF LInv, Becomes
<1>3. \A b \in Roles \ {a} : arm'[b] = arm[b] /\ phase'[b] = phase[b]
  BY DEF LInv, Becomes
<1>4. \A b \in Roles : Local(arm'[b], phase'[b], provider, poisoned')
  <2>1. Local(arm'[a], phase'[a], provider, poisoned')
    BY <1>2 DEF Becomes
  <2>2. ASSUME NEW b \in Roles \ {a}
        PROVE  Local(arm'[b], phase'[b], provider, poisoned')
    <3>1. Local(arm[b], phase[b], provider, poisoned)
      BY DEF LInv
    <3>. QED  BY <1>3, <3>1 DEF Local, Accounted
  <2>. QED  BY <2>1, <2>2
<1>. QED  BY <1>1, <1>4 DEF LInv

\* A step that leaves the ledger alone.
LEMMA Alone ==
  ASSUME LInv, NEW a \in Roles, NEW r \in ArmSet, arm' = [arm EXCEPT ![a] = r],
         UNCHANGED <<provider, monitored, ledger>>,
         Ordered(r, provider), Placed(r, provider), Accounted(r, phase[a], poisoned)
  PROVE  LInv'
<1>1. phase' = [phase EXCEPT ![a] = phase[a]]
  BY DEF LInv, ledger
<1>2. Becomes(a, r, phase[a])
  BY <1>1 DEF Becomes, Local, ledger
<1>. QED  BY <1>2, LocalStep DEF LInv, ledger

LEMMA Here ==
  ASSUME LInv, NEW a \in Roles
  PROVE  /\ arm[a] \in ArmSet /\ phase[a] \in Phases
         /\ Ordered(arm[a], provider) /\ Placed(arm[a], provider)
         /\ Accounted(arm[a], phase[a], poisoned)
  BY DEF LInv, Local

\* Only the place and the exception changed.
Elsewhere(r, pc, exc) == [r EXCEPT !.pc = pc, !.exc = exc]

Moved(q, r, pc, exc) ==
  /\ q \in ArmSet
  /\ q.pc = pc /\ q.exc = exc
  /\ q.synchronized = r.synchronized
  /\ q.entered = r.entered
  /\ q.sent = r.sent
  /\ q.dispatched = r.dispatched
  /\ q.evidence = r.evidence
  /\ q.journal = r.journal
  /\ q.status = r.status
  /\ q.passed = r.passed
  /\ Expected(q) = Expected(r)

LEMMA Fields ==
  ASSUME NEW r \in ArmSet, NEW pc \in Pcs, NEW exc \in {"none", "journal", "other"}
  PROVE  Moved(Elsewhere(r, pc, exc), r, pc, exc)
<1> DEFINE q == Elsewhere(r, pc, exc)
<1>1. /\ q \in ArmSet
      /\ q.pc = pc /\ q.exc = exc
      /\ q.synchronized = r.synchronized
      /\ q.entered = r.entered
      /\ q.sent = r.sent
      /\ q.dispatched = r.dispatched
      /\ q.evidence = r.evidence
      /\ q.journal = r.journal
      /\ q.status = r.status
      /\ q.passed = r.passed
  BY DEF Elsewhere, ArmSet
<1>. HIDE DEF q
<1>2. Expected(q) = Expected(r)
  BY <1>1 DEF Expected
<1>. QED  BY <1>1, <1>2 DEF Moved, q

\* An arm whose journal is right goes on.
LEMMA Goes ==
  ASSUME LInv, NEW a \in Roles, NEW pc \in Pcs \ {"raised"},
         NEW exc \in {"none", "journal", "other"},
         arm' = [arm EXCEPT ![a] = Elsewhere(arm[a], pc, exc)],
         UNCHANGED <<provider, monitored, ledger>>,
         phase[a] = Expected(arm[a]),
         arm[a].status # "none" => pc \in {"record", "done"},
         Placed(Elsewhere(arm[a], pc, exc), provider)
  PROVE  LInv'
<1> DEFINE r == Elsewhere(arm[a], pc, exc)
<1>1. Ordered(arm[a], provider) /\ arm[a] \in ArmSet
  BY Here
<1>2. Moved(r, arm[a], pc, exc) /\ Placed(r, provider) /\ arm' = [arm EXCEPT ![a] = r]
  BY <1>1, Fields
<1>. HIDE DEF r
<1>3. Ordered(r, provider)
  BY <1>1, <1>2 DEF Ordered, Moved
<1>4. Accounted(r, phase[a], poisoned)
  BY <1>2 DEF Accounted, Moved
<1>5. r \in ArmSet
  BY <1>2 DEF Moved
<1>. QED  BY <1>2, <1>3, <1>4, <1>5, Alone

\* An arm raises before it has a result, or after.
LEMMA Raises ==
  ASSUME LInv, NEW a \in Roles, NEW pc \in {"finally", "handler", "raised"},
         arm' = Raising(a, pc, "other"),
         UNCHANGED <<provider, monitored, ledger>>,
         arm[a].pc = "finally" \/ phase[a] = Expected(arm[a]),
         pc # "raised" => arm[a].status = "none",
         pc = "finally" => arm[a].entered /\ arm[a].journal # "completed"
  PROVE  LInv'
<1> DEFINE r == Elsewhere(arm[a], pc, "other")
<1>1. Ordered(arm[a], provider) /\ Placed(arm[a], provider) /\ arm[a] \in ArmSet
  BY Here
<1>2. /\ arm' = [arm EXCEPT ![a] = r]
      /\ pc \in Pcs
  BY DEF Raising, Elsewhere, LInv, Pcs
<1>3. Moved(r, arm[a], pc, "other")
  BY <1>1, <1>2, Fields
<1>. HIDE DEF r
<1>4. Ordered(r, provider)
  BY <1>1, <1>3 DEF Ordered, Moved
<1>5. Placed(r, provider)
  BY <1>1, <1>3 DEF Placed, Moved, BeforeCall, BeforeSync, Synchronizing, Calling
<1>6. Accounted(r, phase[a], poisoned)
  <2>1. Accounted(arm[a], phase[a], poisoned)
    BY Here
  <2>2. arm[a].pc = "finally" => arm[a].journal # "none"
    BY <1>1 DEF Placed, Ordered
  <2>. QED  BY <1>3, <2>1, <2>2 DEF Accounted, Moved
<1>7. r \in ArmSet
  BY <1>3 DEF Moved
<1>. QED  BY <1>2, <1>4, <1>5, <1>6, <1>7, Alone

\* Where an arm agrees with its journal.
LEMMA Agrees ==
  ASSUME LInv, NEW a \in Roles, arm[a].pc \notin {"finally", "handler", "settle", "raised"}
  PROVE  phase[a] = Expected(arm[a])
  BY Here DEF Accounted

LEMMA GotoGoes ==
  ASSUME LInv, NEW a \in Roles, NEW pc \in Pcs, Goto(a, pc)
  PROVE  arm' = [arm EXCEPT ![a] = Elsewhere(arm[a], pc, arm[a].exc)]
<1>1. arm[a] \in ArmSet
  BY Here
<1>2. [arm[a] EXCEPT !.pc = pc] = Elsewhere(arm[a], pc, arm[a].exc)
  BY <1>1 DEF Elsewhere, ArmSet
<1>3. arm' = [arm EXCEPT ![a] = [arm[a] EXCEPT !.pc = pc]]
  BY DEF Goto, LInv
<1>. QED  BY <1>2, <1>3

\* The steps that only go to another place.
LEMMA GoSteps ==
  ASSUME LInv, NEW a \in Roles, NEW pc \in Pcs, Goto(a, pc), local' = local,
         ledger' = ledger,
         \/ arm[a].pc = "ready" /\ pc = "prepare"
         \/ arm[a].pc = "prepare" /\ pc = "plan"
         \/ arm[a].pc = "sync1" /\ pc = "wait1"
         \/ arm[a].pc = "wait1" /\ pc = "start"
         \/ arm[a].pc = "sync2" /\ pc = "wait2"
         \/ arm[a].pc = "launch" /\ pc = IF provider = "claude" THEN "callback" ELSE "transmit"
         \/ arm[a].pc = "answer" /\ pc = IF arm[a].dispatched THEN "judge" ELSE "account"
         \/ arm[a].pc = "record" /\ pc = "done"
  PROVE  LInv'
<1>1. arm' = [arm EXCEPT ![a] = Elsewhere(arm[a], pc, arm[a].exc)]
  BY GotoGoes
<1>2. arm[a] \in ArmSet /\ Placed(arm[a], provider) /\ Ordered(arm[a], provider)
  BY Here
<1>3. arm[a].exc \in {"none", "journal", "other"}
  BY <1>2 DEF ArmSet
<1>4. Placed(Elsewhere(arm[a], pc, arm[a].exc), provider)
  <2> DEFINE r == Elsewhere(arm[a], pc, arm[a].exc)
  <2>1. Moved(r, arm[a], pc, arm[a].exc)
    BY <1>2, <1>3, Fields
  <2>. HIDE DEF r
  <2>2. Placed(r, provider)
    BY <1>2, <2>1 DEF Placed, Ordered, Moved, BeforeCall, BeforeSync, Synchronizing, Calling
  <2>. QED  BY <2>2 DEF r
<1>5. arm[a].status # "none" => pc \in {"record", "done"}
  BY <1>2 DEF Ordered
<1>6. phase[a] = Expected(arm[a])
  BY Agrees
<1>7. pc # "raised"
  OBVIOUS
<1>. QED  BY <1>1, <1>3, <1>4, <1>5, <1>6, <1>7, Goes DEF local

LEMMA HandlerStep ==
  ASSUME LInv, NEW a \in Roles, Handler(a)
  PROVE  LInv'
<1> DEFINE pc == IF arm[a].exc = "journal" THEN "raised" ELSE "settle"
           r == Elsewhere(arm[a], pc, arm[a].exc)
<1>1. pc \in Pcs /\ arm[a].pc = "handler" /\ UNCHANGED <<provider, monitored, ledger>>
  BY DEF Pcs, Handler, At, local
<1>2. arm' = [arm EXCEPT ![a] = r]
  BY <1>1, GotoGoes DEF Handler
<1>3. arm[a] \in ArmSet /\ Ordered(arm[a], provider) /\ Accounted(arm[a], phase[a], poisoned)
  BY Here
<1>4. arm[a].exc \in {"none", "journal", "other"}
  BY <1>3 DEF ArmSet
<1>5. Moved(r, arm[a], pc, arm[a].exc)
  BY <1>1, <1>3, <1>4, Fields
<1>6. arm[a].exc = "journal" => pc = "raised"
  OBVIOUS
<1>7. arm[a].exc # "journal" => pc = "settle"
  OBVIOUS
<1>. HIDE DEF r, pc
<1>8. arm[a].status = "none"
  BY <1>1, <1>3 DEF Ordered
<1>9. Ordered(r, provider)
  BY <1>1, <1>3, <1>5, <1>8 DEF Ordered, Moved
<1>10. Placed(r, provider)
  BY <1>3, <1>4, <1>5, <1>6, <1>7
  DEF Placed, Moved, BeforeCall, BeforeSync, Synchronizing, Calling
<1>11. Accounted(r, phase[a], poisoned)
  BY <1>1, <1>3, <1>5, <1>6, <1>7 DEF Accounted, Moved
<1>12. r \in ArmSet
  BY <1>5 DEF Moved
<1>. QED  BY <1>1, <1>2, <1>9, <1>10, <1>11, <1>12, Alone

LEMMA FinallyStep ==
  ASSUME LInv, NEW a \in Roles, Finally(a)
  PROVE  LInv'
<1>1. /\ arm[a].pc = "finally" /\ UNCHANGED <<provider, monitored, ledger>>
      /\ arm[a] \in ArmSet /\ Ordered(arm[a], provider) /\ Placed(arm[a], provider)
      /\ Accounted(arm[a], phase[a], poisoned)
  BY Here DEF Finally, At, local
<1>2. arm[a].status = "none"
  BY <1>1 DEF Ordered
<1>3. CASE arm[a].exc = "none" /\ Goto(a, "verify")
  <2>1. arm[a].journal = "completed"
    BY <1>1, <1>3 DEF Placed
  <2>2. phase[a] = Expected(arm[a])
    BY <1>1, <2>1 DEF Accounted
  <2>3. arm' = [arm EXCEPT ![a] = Elsewhere(arm[a], "verify", "none")]
    BY <1>3, GotoGoes DEF Pcs
  <2>4. Placed(Elsewhere(arm[a], "verify", "none"), provider)
    <3>1. Moved(Elsewhere(arm[a], "verify", "none"), arm[a], "verify", "none")
      BY <1>1, Fields DEF Pcs
    <3>. QED  BY <2>1, <3>1 DEF Placed, Moved, BeforeCall, BeforeSync, Synchronizing, Calling
  <2>. QED  BY <1>1, <1>2, <2>2, <2>3, <2>4, Goes DEF Pcs
<1>4. CASE arm[a].exc # "none" /\ Goto(a, "handler")
  <2> DEFINE r == Elsewhere(arm[a], "handler", arm[a].exc)
  <2>1. arm' = [arm EXCEPT ![a] = r]
    BY <1>4, GotoGoes DEF Pcs
  <2>2. arm[a].exc \in {"none", "journal", "other"} /\ "handler" \in Pcs
    BY <1>1 DEF ArmSet, Pcs
  <2>3. Moved(r, arm[a], "handler", arm[a].exc)
    BY <1>1, <2>2, Fields
  <2>. HIDE DEF r
  <2>4. Ordered(r, provider)
    BY <1>1, <1>2, <2>3 DEF Ordered, Moved
  <2>5. Placed(r, provider)
    BY <2>3 DEF Placed, Moved, BeforeCall, BeforeSync, Synchronizing, Calling
  <2>6. Accounted(r, phase[a], poisoned)
    <3>1. arm[a].journal # "none"
      BY <1>1 DEF Placed, Ordered
    <3>. QED  BY <1>1, <2>3, <3>1 DEF Accounted, Moved
  <2>7. r \in ArmSet
    BY <2>3 DEF Moved
  <2>. QED  BY <1>1, <2>1, <2>4, <2>5, <2>6, <2>7, Alone
<1>5. CASE Raise(a, "handler")
  BY <1>1, <1>2, <1>5, Raises DEF Raise
<1>6. \/ arm[a].exc = "none" /\ Goto(a, "verify")
      \/ arm[a].exc # "none" /\ Goto(a, "handler")
      \/ Raise(a, "handler")
  BY DEF Finally, Goto
<1>. QED  BY <1>3, <1>4, <1>5, <1>6

\* What an append comes to.
AppendFailed(a, to) ==
  /\ poisoned' \in BOOLEAN /\ (poisoned => poisoned') /\ faults' \in 0..MaxFaults
  /\ phase' = phase \/ (poisoned' /\ phase' = [phase EXCEPT ![a] = to])

LEMMA Appends ==
  ASSUME LInv, NEW a \in Roles, NEW from, NEW to, NEW done, NEW failed,
         AppendTo(a, from, to, done, failed)
  PROVE  \/ /\ ~poisoned /\ phase[a] = from /\ arm' = done
            /\ phase' = [phase EXCEPT ![a] = to] /\ UNCHANGED <<poisoned, faults>>
         \/ arm' = failed /\ AppendFailed(a, to)
<1>1. poisoned \in BOOLEAN /\ faults \in 0..MaxFaults /\ MaxFaults \in Nat
  BY PairAssumption DEF LInv
<1>2. CASE /\ ~poisoned /\ phase[a] = from
           /\ phase' = [phase EXCEPT ![a] = to]
           /\ arm' = done
           /\ UNCHANGED <<poisoned, faults>>
  BY <1>2
<1>3. CASE arm' = failed /\ UNCHANGED ledger
  BY <1>1, <1>3 DEF ledger, AppendFailed
<1>4. CASE /\ faults < MaxFaults /\ faults' = faults + 1 /\ arm' = failed
           /\ UNCHANGED <<phase, poisoned>>
  BY <1>1, <1>4 DEF AppendFailed
<1>5. CASE /\ faults < MaxFaults /\ faults' = faults + 1 /\ arm' = failed
           /\ poisoned' = TRUE /\ phase' \in {phase, [phase EXCEPT ![a] = to]}
  <2>1. phase' = phase \/ phase' = [phase EXCEPT ![a] = to]
    BY <1>5
  <2>2. faults' \in 0..MaxFaults
    BY <1>1, <1>5
  <2>3. poisoned' \in BOOLEAN /\ poisoned'
    BY <1>5, Zenon
  <2>4. AppendFailed(a, to)
    BY <2>1, <2>2, <2>3, Zenon DEF AppendFailed
  <2>. QED  BY <1>5, <2>4, Zenon
<1>. QED  BY <1>2, <1>3, <1>4, <1>5 DEF AppendTo

LEMMA AppendDone ==
  ASSUME LInv, NEW a \in Roles, NEW r \in ArmSet, arm' = [arm EXCEPT ![a] = r],
         NEW to \in Phases, phase' = [phase EXCEPT ![a] = to],
         UNCHANGED <<provider, monitored, poisoned, faults>>,
         Ordered(r, provider), Placed(r, provider), Expected(r) = to
  PROVE  LInv'
<1>1. Accounted(r, to, poisoned')
  BY DEF Accounted
<1>2. Becomes(a, r, to)
  BY <1>1 DEF Becomes, Local
<1>. QED  BY <1>2, LocalStep DEF LInv

\* An append that fails raises: what the file has of it is never relied on.
LEMMA AppendRaises ==
  ASSUME LInv, NEW a \in Roles, NEW to \in Phases,
         NEW pc \in {"finally", "handler", "raised"}, NEW exc \in {"journal", "other"},
         arm' = Raising(a, pc, exc), AppendFailed(a, to),
         UNCHANGED <<provider, monitored>>,
         arm[a].status = "none",
         arm[a].journal \in {"none", "planned", "dispatched"},
         pc = "finally" => arm[a].entered,
         arm[a].journal = "none" => exc = "journal",
         arm[a].journal # "none" =>
           to \in IF arm[a].dispatched THEN {"completed", "failed_observed"}
                                       ELSE {"dispatched", "failed_not_observed"}
  PROVE  LInv'
<1> DEFINE r == Elsewhere(arm[a], pc, exc)
           p == phase'[a]
<1>1. /\ arm[a] \in ArmSet /\ phase[a] \in Phases
      /\ Ordered(arm[a], provider) /\ Placed(arm[a], provider)
      /\ Accounted(arm[a], phase[a], poisoned)
  BY Here
<1>2. arm' = [arm EXCEPT ![a] = r] /\ pc \in Pcs
  BY DEF Raising, Elsewhere, LInv, Pcs
<1>3. Moved(r, arm[a], pc, exc)
  BY <1>1, <1>2, Fields
<1>4. phase' = [phase EXCEPT ![a] = p] /\ p \in Phases /\ (p = phase[a] \/ (poisoned' /\ p = to))
  BY DEF AppendFailed, LInv
<1>. HIDE DEF r, p
<1>5. Ordered(r, provider)
  BY <1>1, <1>3 DEF Ordered, Moved
<1>6. Placed(r, provider)
  BY <1>3 DEF Placed, Moved, BeforeCall, BeforeSync, Synchronizing, Calling
<1>7. Accounted(r, p, poisoned')
  <2>1. CASE p = phase[a]
    BY <1>1, <1>3, <2>1 DEF Accounted, Moved, AppendFailed
  <2>2. CASE poisoned' /\ p = to
    BY <1>3, <2>2 DEF Accounted, Moved
  <2>. QED  BY <1>4, <2>1, <2>2
<1>8. r \in ArmSet
  BY <1>3 DEF Moved
<1>9. Becomes(a, r, p)
  BY <1>2, <1>4, <1>5, <1>6, <1>7, <1>8 DEF Becomes, Local
<1>. QED  BY <1>4, <1>9, LocalStep DEF AppendFailed

LEMMA PlanStep ==
  ASSUME LInv, NEW a \in Roles, Plan(a)
  PROVE  LInv'
<1> DEFINE r == [arm[a] EXCEPT !.pc = IF Concurrent THEN "sync1" ELSE "start", !.journal = "planned"]
<1>1. /\ arm[a].pc = "plan" /\ UNCHANGED <<provider, monitored>>
      /\ arm[a] \in ArmSet /\ Ordered(arm[a], provider) /\ Placed(arm[a], provider)
  BY Here DEF Plan, At, local
<1>2. phase[a] = Expected(arm[a]) /\ arm[a].status = "none"
  BY <1>1, Agrees DEF Ordered
<1>3. /\ r \in ArmSet
      /\ r.pc = IF Concurrent THEN "sync1" ELSE "start"
      /\ r.journal = "planned"
      /\ r.exc = arm[a].exc /\ r.synchronized = arm[a].synchronized
      /\ r.entered = arm[a].entered /\ r.sent = arm[a].sent
      /\ r.dispatched = arm[a].dispatched /\ r.evidence = arm[a].evidence
      /\ r.status = arm[a].status /\ r.passed = arm[a].passed
  BY <1>1 DEF ArmSet, Pcs
<1>4. \/ /\ arm' = [arm EXCEPT ![a] = r] /\ phase' = [phase EXCEPT ![a] = "planned"]
         /\ UNCHANGED <<poisoned, faults>>
      \/ /\ arm' = Raising(a, "handler", "journal")
         /\ AppendFailed(a, "planned")
  BY <1>1, Appends DEF Plan, LInv
<1>. HIDE DEF r
<1>5. CASE /\ arm' = [arm EXCEPT ![a] = r] /\ phase' = [phase EXCEPT ![a] = "planned"]
           /\ UNCHANGED <<poisoned, faults>>
  <2>1. Ordered(r, provider)
    BY <1>1, <1>3 DEF Placed, Ordered, BeforeCall, BeforeSync, Synchronizing, Calling
  <2>2. Placed(r, provider)
    BY <1>1, <1>3 DEF Placed, Ordered, BeforeCall, BeforeSync, Synchronizing, Calling, Concurrent
  <2>3. Expected(r) = "planned"
    BY <1>1, <1>3 DEF Expected, Ordered, Placed, BeforeSync, Synchronizing, Calling
  <2>. QED  BY <1>1, <1>3, <1>5, <2>1, <2>2, <2>3, AppendDone DEF Phases
<1>6. CASE arm' = Raising(a, "handler", "journal") /\ AppendFailed(a, "planned")
  BY <1>1, <1>2, <1>6, AppendRaises DEF Placed, Ordered, BeforeCall, BeforeSync, Synchronizing, Calling, Phases

<1>. QED  BY <1>4, <1>5, <1>6

LEMMA CallbackStep ==
  ASSUME LInv, NEW a \in Roles, Callback(a)
  PROVE  LInv'
<1> DEFINE r == [arm[a] EXCEPT !.dispatched = TRUE,
                       !.pc = IF provider = "claude" THEN "transmit" ELSE "answer"]
<1>1. /\ arm[a].pc = "callback" /\ UNCHANGED <<provider, monitored>>
      /\ arm[a] \in ArmSet /\ Ordered(arm[a], provider) /\ Placed(arm[a], provider)
  BY Here DEF Callback, At, local
<1>2. phase[a] = Expected(arm[a]) /\ arm[a].status = "none"
  BY <1>1, Agrees DEF Ordered
<1>3. /\ r \in ArmSet
      /\ r.dispatched = TRUE
      /\ r.pc = IF provider = "claude" THEN "transmit" ELSE "answer"
      /\ r.exc = arm[a].exc /\ r.synchronized = arm[a].synchronized
      /\ r.entered = arm[a].entered /\ r.sent = arm[a].sent
      /\ r.evidence = arm[a].evidence /\ r.journal = arm[a].journal
      /\ r.status = arm[a].status /\ r.passed = arm[a].passed
  BY <1>1 DEF ArmSet, Pcs
<1>4. \/ /\ arm' = [arm EXCEPT ![a] = r] /\ phase' = [phase EXCEPT ![a] = "dispatched"]
         /\ UNCHANGED <<poisoned, faults>>
      \/ /\ arm' = Raising(a, "finally", IF provider = "codex" THEN "other" ELSE "journal")
         /\ AppendFailed(a, "dispatched")
      \/ Raise(a, "finally") /\ UNCHANGED ledger
  BY <1>1, Appends DEF Callback, LInv
<1>. HIDE DEF r
<1>5. CASE /\ arm' = [arm EXCEPT ![a] = r] /\ phase' = [phase EXCEPT ![a] = "dispatched"]
           /\ UNCHANGED <<poisoned, faults>>
  <2>1. Ordered(r, provider)
    BY <1>1, <1>3 DEF Placed, Ordered, BeforeCall, BeforeSync, Synchronizing, Calling
  <2>2. Placed(r, provider)
    BY <1>1, <1>3 DEF Placed, Ordered, BeforeCall, BeforeSync, Synchronizing, Calling, Concurrent
  <2>3. Expected(r) = "dispatched"
    BY <1>1, <1>3 DEF Expected, Ordered, Placed, BeforeSync, Synchronizing, Calling
  <2>. QED  BY <1>1, <1>3, <1>5, <2>1, <2>2, <2>3, AppendDone DEF Phases
<1>6. CASE arm' = Raising(a, "finally", IF provider = "codex" THEN "other" ELSE "journal") /\ AppendFailed(a, "dispatched")
  BY <1>1, <1>2, <1>6, AppendRaises DEF Placed, Ordered, BeforeCall, BeforeSync, Synchronizing, Calling, Phases

<1>7. CASE Raise(a, "finally") /\ UNCHANGED ledger
  BY <1>1, <1>2, <1>7, Raises DEF Placed, Ordered, BeforeCall, BeforeSync, Synchronizing, Calling, Raise
<1>. QED  BY <1>4, <1>5, <1>6, <1>7

LEMMA AccountStep ==
  ASSUME LInv, NEW a \in Roles, Account(a)
  PROVE  LInv'
<1> DEFINE r == [arm[a] EXCEPT !.dispatched = TRUE, !.pc = "judge"]
<1>1. /\ arm[a].pc = "account" /\ UNCHANGED <<provider, monitored>>
      /\ arm[a] \in ArmSet /\ Ordered(arm[a], provider) /\ Placed(arm[a], provider)
  BY Here DEF Account, At, local
<1>2. phase[a] = Expected(arm[a]) /\ arm[a].status = "none"
  BY <1>1, Agrees DEF Ordered
<1>3. /\ r \in ArmSet
      /\ r.dispatched = TRUE
      /\ r.pc = "judge"
      /\ r.exc = arm[a].exc /\ r.synchronized = arm[a].synchronized
      /\ r.entered = arm[a].entered /\ r.sent = arm[a].sent
      /\ r.evidence = arm[a].evidence /\ r.journal = arm[a].journal
      /\ r.status = arm[a].status /\ r.passed = arm[a].passed
  BY <1>1 DEF ArmSet, Pcs
<1>4. \/ /\ arm' = [arm EXCEPT ![a] = r] /\ phase' = [phase EXCEPT ![a] = "dispatched"]
         /\ UNCHANGED <<poisoned, faults>>
      \/ /\ arm' = Raising(a, "finally", "journal")
         /\ AppendFailed(a, "dispatched")
  BY <1>1, Appends DEF Account, LInv
<1>. HIDE DEF r
<1>5. CASE /\ arm' = [arm EXCEPT ![a] = r] /\ phase' = [phase EXCEPT ![a] = "dispatched"]
           /\ UNCHANGED <<poisoned, faults>>
  <2>1. Ordered(r, provider)
    BY <1>1, <1>3 DEF Placed, Ordered, BeforeCall, BeforeSync, Synchronizing, Calling
  <2>2. Placed(r, provider)
    BY <1>1, <1>3 DEF Placed, Ordered, BeforeCall, BeforeSync, Synchronizing, Calling, Concurrent
  <2>3. Expected(r) = "dispatched"
    BY <1>1, <1>3 DEF Expected, Ordered, Placed, BeforeSync, Synchronizing, Calling
  <2>. QED  BY <1>1, <1>3, <1>5, <2>1, <2>2, <2>3, AppendDone DEF Phases
<1>6. CASE arm' = Raising(a, "finally", "journal") /\ AppendFailed(a, "dispatched")
  BY <1>1, <1>2, <1>6, AppendRaises DEF Placed, Ordered, BeforeCall, BeforeSync, Synchronizing, Calling, Phases

<1>. QED  BY <1>4, <1>5, <1>6

LEMMA CompleteStep ==
  ASSUME LInv, NEW a \in Roles, Complete(a)
  PROVE  LInv'
<1> DEFINE r == [arm[a] EXCEPT !.pc = "finally", !.journal = "completed"]
<1>1. /\ arm[a].pc = "complete" /\ UNCHANGED <<provider, monitored>>
      /\ arm[a] \in ArmSet /\ Ordered(arm[a], provider) /\ Placed(arm[a], provider)
  BY Here DEF Complete, At, local
<1>2. phase[a] = Expected(arm[a]) /\ arm[a].status = "none"
  BY <1>1, Agrees DEF Ordered
<1>3. /\ r \in ArmSet
      /\ r.pc = "finally"
      /\ r.journal = "completed"
      /\ r.exc = arm[a].exc /\ r.synchronized = arm[a].synchronized
      /\ r.entered = arm[a].entered /\ r.sent = arm[a].sent
      /\ r.dispatched = arm[a].dispatched /\ r.evidence = arm[a].evidence
      /\ r.status = arm[a].status /\ r.passed = arm[a].passed
  BY <1>1 DEF ArmSet, Pcs
<1>4. \/ /\ arm' = [arm EXCEPT ![a] = r] /\ phase' = [phase EXCEPT ![a] = "completed"]
         /\ UNCHANGED <<poisoned, faults>>
      \/ /\ arm' = Raising(a, "finally", "journal")
         /\ AppendFailed(a, "completed")
  BY <1>1, Appends DEF Complete, LInv
<1>. HIDE DEF r
<1>5. CASE /\ arm' = [arm EXCEPT ![a] = r] /\ phase' = [phase EXCEPT ![a] = "completed"]
           /\ UNCHANGED <<poisoned, faults>>
  <2>1. Ordered(r, provider)
    BY <1>1, <1>3 DEF Placed, Ordered, BeforeCall, BeforeSync, Synchronizing, Calling
  <2>2. Placed(r, provider)
    BY <1>1, <1>3 DEF Placed, Ordered, BeforeCall, BeforeSync, Synchronizing, Calling, Concurrent
  <2>3. Expected(r) = "completed"
    BY <1>1, <1>3 DEF Expected, Ordered, Placed, BeforeSync, Synchronizing, Calling
  <2>. QED  BY <1>1, <1>3, <1>5, <2>1, <2>2, <2>3, AppendDone DEF Phases
<1>6. CASE arm' = Raising(a, "finally", "journal") /\ AppendFailed(a, "completed")
  BY <1>1, <1>2, <1>6, AppendRaises DEF Placed, Ordered, BeforeCall, BeforeSync, Synchronizing, Calling, Phases

<1>. QED  BY <1>4, <1>5, <1>6

LEMMA SettleStep ==
  ASSUME LInv, NEW a \in Roles, Settle(a)
  PROVE  LInv'
<1> DEFINE r == [arm[a] EXCEPT !.pc = "record", !.status = "error"]
           q == [arm[a] EXCEPT !.pc = "record", !.status = "error", !.journal = "failed"]
           from == IF arm[a].dispatched THEN "dispatched" ELSE "planned"
           to == IF arm[a].dispatched THEN "failed_observed" ELSE "failed_not_observed"
<1>1. /\ arm[a].pc = "settle" /\ UNCHANGED <<provider, monitored>>
      /\ arm[a] \in ArmSet /\ Ordered(arm[a], provider) /\ Placed(arm[a], provider)
      /\ Accounted(arm[a], phase[a], poisoned)
  BY Here DEF Settle, At, local
<1>2. arm[a].status = "none" /\ arm[a].journal \in {"none", "planned", "dispatched", "completed"}
  BY <1>1 DEF Ordered, ArmSet
<1>3. /\ r \in ArmSet
      /\ r.pc = "record"
      /\ r.status = "error"
      /\ r.exc = arm[a].exc /\ r.synchronized = arm[a].synchronized
      /\ r.entered = arm[a].entered /\ r.sent = arm[a].sent
      /\ r.dispatched = arm[a].dispatched /\ r.evidence = arm[a].evidence
      /\ r.journal = arm[a].journal /\ r.passed = arm[a].passed
  BY <1>1 DEF ArmSet, Pcs
<1>4. /\ q \in ArmSet
      /\ q.pc = "record"
      /\ q.status = "error"
      /\ q.journal = "failed"
      /\ q.exc = arm[a].exc /\ q.synchronized = arm[a].synchronized
      /\ q.entered = arm[a].entered /\ q.sent = arm[a].sent
      /\ q.dispatched = arm[a].dispatched /\ q.evidence = arm[a].evidence
      /\ q.passed = arm[a].passed
  BY <1>1 DEF ArmSet, Pcs
<1>5. CASE arm[a].journal \in {"none", "completed"}
  <2>1. arm' = [arm EXCEPT ![a] = r] /\ UNCHANGED ledger
    BY <1>5 DEF Settle, LInv
  <2>. HIDE DEF r
  <2>2. phase[a] = Expected(arm[a])
    BY <1>1, <1>5 DEF Accounted
  <2>3. Ordered(r, provider)
    BY <1>1, <1>2, <1>3, <1>5 DEF Ordered
  <2>4. Placed(r, provider)
    BY <1>3 DEF Placed, Ordered, BeforeCall, BeforeSync, Synchronizing, Calling
  <2>5. Expected(r) = Expected(arm[a])
    BY <1>3, <1>5 DEF Expected
  <2>6. Accounted(r, phase[a], poisoned)
    BY <2>2, <2>5 DEF Accounted
  <2>. QED  BY <1>1, <1>3, <2>1, <2>3, <2>4, <2>6, Alone
<1>6. CASE arm[a].journal \notin {"none", "completed"}
  <2>1. from \in Phases /\ to \in Phases
    BY DEF Phases
  <2>2. [[arm EXCEPT ![a].pc = "record", ![a].status = "error"] EXCEPT ![a].journal = "failed"]
          = [arm EXCEPT ![a] = q]
    BY DEF LInv
  <2>3. AppendTo(a, from, to,
          [[arm EXCEPT ![a].pc = "record", ![a].status = "error"] EXCEPT ![a].journal = "failed"],
          Raising(a, "raised", "journal"))
    BY <1>6 DEF Settle
  <2>4. \/ /\ arm' = [arm EXCEPT ![a] = q] /\ phase' = [phase EXCEPT ![a] = to]
           /\ UNCHANGED <<poisoned, faults>>
        \/ /\ arm' = Raising(a, "raised", "journal")
           /\ AppendFailed(a, to)
    BY <2>2, <2>3, Appends
  <2>. HIDE DEF q
  <2>5. CASE /\ arm' = [arm EXCEPT ![a] = q] /\ phase' = [phase EXCEPT ![a] = to]
             /\ UNCHANGED <<poisoned, faults>>
    <3>1. Ordered(q, provider)
      BY <1>1, <1>4 DEF Ordered
    <3>2. Placed(q, provider)
      BY <1>4 DEF Placed, Ordered, BeforeCall, BeforeSync, Synchronizing, Calling
    <3>3. Expected(q) = to
      BY <1>4 DEF Expected
    <3>. QED  BY <1>1, <1>4, <2>1, <2>5, <3>1, <3>2, <3>3, AppendDone
  <2>6. CASE arm' = Raising(a, "raised", "journal") /\ AppendFailed(a, to)
    BY <1>1, <1>2, <1>6, <2>1, <2>6, AppendRaises
  <2>. QED  BY <2>4, <2>5, <2>6
<1>. QED  BY <1>5, <1>6

LEMMA StartStep ==
  ASSUME LInv, NEW a \in Roles, Start(a)
  PROVE  LInv'
<1>1. /\ arm[a].pc = "start" /\ UNCHANGED <<provider, monitored, ledger>>
      /\ arm[a] \in ArmSet /\ Ordered(arm[a], provider) /\ Placed(arm[a], provider)
  BY Here DEF Start, At, local
<1>2. phase[a] = Expected(arm[a]) /\ arm[a].status = "none"
  BY <1>1, Agrees DEF Ordered
<1>3. ASSUME provider # "codex", arm' = [arm EXCEPT ![a] = [arm[a] EXCEPT !.pc = "sync2"]]
      PROVE  LInv'
  <2> DEFINE r == [arm[a] EXCEPT !.pc = "sync2"]
  <2>1. /\ r \in ArmSet
        /\ r.pc = "sync2"
        /\ r.exc = arm[a].exc /\ r.synchronized = arm[a].synchronized
        /\ r.entered = arm[a].entered /\ r.sent = arm[a].sent
        /\ r.dispatched = arm[a].dispatched /\ r.evidence = arm[a].evidence
        /\ r.journal = arm[a].journal /\ r.status = arm[a].status
        /\ r.passed = arm[a].passed
    BY <1>1 DEF ArmSet, Pcs
  <2>2. arm' = [arm EXCEPT ![a] = r]
    BY <1>3
  <2>. HIDE DEF r
  <2>3. Ordered(r, provider)
    BY <1>1, <1>2, <2>1 DEF Placed, Ordered, BeforeCall, BeforeSync, Synchronizing, Calling
  <2>4. Placed(r, provider)
    <3>1. arm[a].journal = "planned" /\ ~arm[a].entered /\ ~arm[a].synchronized
      BY <1>1, <1>2 DEF Placed, Ordered, BeforeCall, BeforeSync, Synchronizing, Calling
    <3>. QED  BY <1>3, <2>1, <3>1 DEF Placed, Ordered, BeforeCall, BeforeSync, Synchronizing, Calling
  <2>5. Expected(r) = Expected(arm[a])
    BY <1>1, <2>1 DEF Expected, Placed, Calling
  <2>6. Accounted(r, phase[a], poisoned)
    BY <1>2, <2>5 DEF Accounted
  <2>. QED  BY <1>1, <2>1, <2>2, <2>3, <2>4, <2>6, Alone
<1>4. ASSUME arm' = [arm EXCEPT ![a] = [arm[a] EXCEPT !.pc = "enter", !.synchronized = TRUE]]
      PROVE  LInv'
  <2> DEFINE r == [arm[a] EXCEPT !.pc = "enter", !.synchronized = TRUE]
  <2>1. /\ r \in ArmSet
        /\ r.pc = "enter"
        /\ r.synchronized = TRUE
        /\ r.exc = arm[a].exc /\ r.entered = arm[a].entered
        /\ r.sent = arm[a].sent /\ r.dispatched = arm[a].dispatched
        /\ r.evidence = arm[a].evidence /\ r.journal = arm[a].journal
        /\ r.status = arm[a].status /\ r.passed = arm[a].passed
    BY <1>1 DEF ArmSet, Pcs
  <2>2. arm' = [arm EXCEPT ![a] = r]
    BY <1>4
  <2>. HIDE DEF r
  <2>3. Ordered(r, provider)
    BY <1>1, <1>2, <2>1 DEF Placed, Ordered, BeforeCall, BeforeSync, Synchronizing, Calling
  <2>4. Placed(r, provider)
    BY <1>1, <1>2, <2>1 DEF Placed, Ordered, BeforeCall, BeforeSync, Synchronizing, Calling
  <2>5. Expected(r) = Expected(arm[a])
    BY <1>1, <2>1 DEF Expected, Placed, Calling
  <2>6. Accounted(r, phase[a], poisoned)
    BY <1>2, <2>5 DEF Accounted
  <2>. QED  BY <1>1, <2>1, <2>2, <2>3, <2>4, <2>6, Alone
<1>. QED  BY <1>3, <1>4 DEF Start, Concurrent, LInv

LEMMA EnterStep ==
  ASSUME LInv, NEW a \in Roles, Enter(a)
  PROVE  LInv'
<1>1. /\ arm[a].pc = "enter" /\ UNCHANGED <<provider, monitored, ledger>>
      /\ arm[a] \in ArmSet /\ Ordered(arm[a], provider) /\ Placed(arm[a], provider)
  BY Here DEF Enter, At, local
<1>2. phase[a] = Expected(arm[a]) /\ arm[a].status = "none"
  BY <1>1, Agrees DEF Ordered
<1>3. ASSUME arm' = [arm EXCEPT ![a] = [arm[a] EXCEPT !.pc = "launch", !.entered = TRUE]]
      PROVE  LInv'
  <2> DEFINE r == [arm[a] EXCEPT !.pc = "launch", !.entered = TRUE]
  <2>1. /\ r \in ArmSet
        /\ r.pc = "launch"
        /\ r.entered = TRUE
        /\ r.exc = arm[a].exc /\ r.synchronized = arm[a].synchronized
        /\ r.sent = arm[a].sent /\ r.dispatched = arm[a].dispatched
        /\ r.evidence = arm[a].evidence /\ r.journal = arm[a].journal
        /\ r.status = arm[a].status /\ r.passed = arm[a].passed
    BY <1>1 DEF ArmSet, Pcs
  <2>2. arm' = [arm EXCEPT ![a] = r]
    BY <1>3
  <2>. HIDE DEF r
  <2>3. Ordered(r, provider)
    BY <1>1, <1>2, <2>1 DEF Placed, Ordered, BeforeCall, BeforeSync, Synchronizing, Calling
  <2>4. Placed(r, provider)
    BY <1>1, <1>2, <2>1 DEF Placed, Ordered, BeforeCall, BeforeSync, Synchronizing, Calling
  <2>5. Expected(r) = Expected(arm[a])
    BY <1>1, <2>1 DEF Expected, Placed, Calling
  <2>6. Accounted(r, phase[a], poisoned)
    BY <1>2, <2>5 DEF Accounted
  <2>. QED  BY <1>1, <2>1, <2>2, <2>3, <2>4, <2>6, Alone
<1>4. CASE Raise(a, "handler")
  BY <1>1, <1>2, <1>4, Raises DEF Raise
<1>. QED  BY <1>3, <1>4 DEF Enter, LInv

LEMMA TransmitStep ==
  ASSUME LInv, NEW a \in Roles, Transmit(a)
  PROVE  LInv'
<1>1. /\ arm[a].pc = "transmit" /\ UNCHANGED <<provider, monitored, ledger>>
      /\ arm[a] \in ArmSet /\ Ordered(arm[a], provider) /\ Placed(arm[a], provider)
  BY Here DEF Transmit, At, local
<1>2. phase[a] = Expected(arm[a]) /\ arm[a].status = "none"
  BY <1>1, Agrees DEF Ordered
<1>3. ASSUME NEW pc \in {"callback", "answer"},
             (provider = "claude" => pc = "answer") /\ (provider = "codex" => pc = "callback"),
             arm' = [arm EXCEPT ![a] = [arm[a] EXCEPT !.pc = pc, !.sent = TRUE]]
      PROVE  LInv'
  <2> DEFINE r == [arm[a] EXCEPT !.pc = pc, !.sent = TRUE]
  <2>1. /\ r \in ArmSet
        /\ r.pc = pc
        /\ r.sent = TRUE
        /\ r.exc = arm[a].exc /\ r.synchronized = arm[a].synchronized
        /\ r.entered = arm[a].entered /\ r.dispatched = arm[a].dispatched
        /\ r.evidence = arm[a].evidence /\ r.journal = arm[a].journal
        /\ r.status = arm[a].status /\ r.passed = arm[a].passed
    BY <1>1 DEF ArmSet, Pcs
  <2>2. arm' = [arm EXCEPT ![a] = r]
    BY <1>3
  <2>. HIDE DEF r
  <2>3. Ordered(r, provider)
    BY <1>1, <1>2, <2>1 DEF Placed, Ordered, BeforeCall, BeforeSync, Synchronizing, Calling
  <2>4. Placed(r, provider)
    <3>1. arm[a].journal = "planned" /\ arm[a].entered /\ arm[a].synchronized
          /\ (arm[a].dispatched <=> provider = "claude")
      BY <1>1, <1>2 DEF Placed, Ordered, BeforeCall, BeforeSync, Synchronizing, Calling
    <3>. QED  BY <1>3, <2>1, <3>1 DEF Placed, Ordered, BeforeCall, BeforeSync, Synchronizing, Calling
  <2>5. Expected(r) = Expected(arm[a])
    BY <1>1, <2>1 DEF Expected, Placed, Calling
  <2>6. Accounted(r, phase[a], poisoned)
    BY <1>2, <2>5 DEF Accounted
  <2>. QED  BY <1>1, <2>1, <2>2, <2>3, <2>4, <2>6, Alone
<1>4. CASE Raise(a, "finally")
  BY <1>1, <1>2, <1>4, Raises DEF Placed, Ordered, BeforeCall, BeforeSync, Synchronizing, Calling, Raise
<1>. QED  BY <1>3, <1>4 DEF Transmit, LInv

LEMMA JudgeStep ==
  ASSUME LInv, NEW a \in Roles, Judge(a)
  PROVE  LInv'
<1>1. /\ arm[a].pc = "judge" /\ UNCHANGED <<provider, monitored, ledger>>
      /\ arm[a] \in ArmSet /\ Ordered(arm[a], provider) /\ Placed(arm[a], provider)
  BY Here DEF Judge, At, local
<1>2. phase[a] = Expected(arm[a]) /\ arm[a].status = "none"
  BY <1>1, Agrees DEF Ordered
<1>3. ASSUME NEW ok \in BOOLEAN, NEW evidence \in BOOLEAN,
             arm' = [arm EXCEPT ![a] = [arm[a] EXCEPT !.pc = IF ok THEN "complete" ELSE "finally",
                        !.exc = IF ok THEN "none" ELSE "other",
                        !.journal = "dispatched", !.evidence = evidence]]
      PROVE  LInv'
  <2> DEFINE r == [arm[a] EXCEPT !.pc = IF ok THEN "complete" ELSE "finally",
                        !.exc = IF ok THEN "none" ELSE "other",
                        !.journal = "dispatched", !.evidence = evidence]
  <2>1. /\ r \in ArmSet
        /\ r.pc = (IF ok THEN "complete" ELSE "finally")
        /\ r.exc = (IF ok THEN "none" ELSE "other")
        /\ r.journal = "dispatched"
        /\ r.evidence = evidence
        /\ r.synchronized = arm[a].synchronized /\ r.entered = arm[a].entered
        /\ r.sent = arm[a].sent /\ r.dispatched = arm[a].dispatched
        /\ r.status = arm[a].status /\ r.passed = arm[a].passed
    BY <1>1 DEF ArmSet, Pcs
  <2>2. arm' = [arm EXCEPT ![a] = r]
    BY <1>3
  <2>. HIDE DEF r
  <2>3. Ordered(r, provider)
    BY <1>1, <1>2, <2>1 DEF Placed, Ordered, BeforeCall, BeforeSync, Synchronizing, Calling
  <2>4. Placed(r, provider)
    BY <1>1, <1>2, <2>1 DEF Placed, Ordered, BeforeCall, BeforeSync, Synchronizing, Calling
  <2>5. Expected(r) = Expected(arm[a])
    BY <1>1, <2>1 DEF Expected, Placed, Calling
  <2>6. Accounted(r, phase[a], poisoned)
    BY <1>2, <2>5 DEF Accounted
  <2>. QED  BY <1>1, <2>1, <2>2, <2>3, <2>4, <2>6, Alone
<1>4. PICK ok \in BOOLEAN, evidence \in BOOLEAN :
        arm' = [arm EXCEPT ![a].pc = IF ok THEN "complete" ELSE "finally",
                           ![a].exc = IF ok THEN "none" ELSE "other",
                           ![a].journal = "dispatched", ![a].evidence = evidence]
  BY DEF Judge
<1>5. arm' = [arm EXCEPT ![a] = [arm[a] EXCEPT !.pc = IF ok THEN "complete" ELSE "finally",
                        !.exc = IF ok THEN "none" ELSE "other",
                        !.journal = "dispatched", !.evidence = evidence]]
  BY <1>4 DEF LInv
<1>. QED  BY <1>3, <1>5

LEMMA VerifyStep ==
  ASSUME LInv, NEW a \in Roles, Verify(a)
  PROVE  LInv'
<1>1. /\ arm[a].pc = "verify" /\ UNCHANGED <<provider, monitored, ledger>>
      /\ arm[a] \in ArmSet /\ Ordered(arm[a], provider) /\ Placed(arm[a], provider)
  BY Here DEF Verify, At, local
<1>2. phase[a] = Expected(arm[a]) /\ arm[a].status = "none"
  BY <1>1, Agrees DEF Ordered
<1>3. ASSUME NEW passed \in BOOLEAN,
             arm' = [arm EXCEPT ![a] = [arm[a] EXCEPT !.pc = "record", !.status = "completed", !.passed = passed]]
      PROVE  LInv'
  <2> DEFINE r == [arm[a] EXCEPT !.pc = "record", !.status = "completed", !.passed = passed]
  <2>1. /\ r \in ArmSet
        /\ r.pc = "record"
        /\ r.status = "completed"
        /\ r.passed = passed
        /\ r.exc = arm[a].exc /\ r.synchronized = arm[a].synchronized
        /\ r.entered = arm[a].entered /\ r.sent = arm[a].sent
        /\ r.dispatched = arm[a].dispatched /\ r.evidence = arm[a].evidence
        /\ r.journal = arm[a].journal
    BY <1>1 DEF ArmSet, Pcs
  <2>2. arm' = [arm EXCEPT ![a] = r]
    BY <1>3
  <2>. HIDE DEF r
  <2>3. Ordered(r, provider)
    BY <1>1, <1>2, <2>1 DEF Placed, Ordered, BeforeCall, BeforeSync, Synchronizing, Calling
  <2>4. Placed(r, provider)
    BY <1>1, <1>2, <2>1 DEF Placed, Ordered, BeforeCall, BeforeSync, Synchronizing, Calling
  <2>5. Expected(r) = Expected(arm[a])
    BY <1>1, <2>1 DEF Expected, Placed, Calling
  <2>6. Accounted(r, phase[a], poisoned)
    BY <1>2, <2>5 DEF Accounted
  <2>. QED  BY <1>1, <2>1, <2>2, <2>3, <2>4, <2>6, Alone
<1>4. CASE Raise(a, "handler")
  BY <1>1, <1>2, <1>4, Raises DEF Raise
<1>. QED  BY <1>3, <1>4 DEF Verify, LInv

\* The second wait returns.
LEMMA SynchronizedStep ==
  ASSUME LInv, NEW a \in Roles, arm[a].pc = "wait2", UNCHANGED <<provider, monitored, ledger>>,
         arm' = [arm EXCEPT ![a].pc = "enter", ![a].synchronized = TRUE]
  PROVE  LInv'
<1> DEFINE r == [arm[a] EXCEPT !.pc = "enter", !.synchronized = TRUE]
<1>1. arm[a] \in ArmSet /\ Ordered(arm[a], provider) /\ Placed(arm[a], provider)
  BY Here
<1>2. phase[a] = Expected(arm[a]) /\ arm[a].status = "none"
  BY <1>1, Agrees DEF Ordered
<1>3. /\ r \in ArmSet
      /\ r.pc = "enter"
      /\ r.synchronized = TRUE
      /\ r.exc = arm[a].exc /\ r.entered = arm[a].entered
      /\ r.sent = arm[a].sent /\ r.dispatched = arm[a].dispatched
      /\ r.evidence = arm[a].evidence /\ r.journal = arm[a].journal
      /\ r.status = arm[a].status /\ r.passed = arm[a].passed
  BY <1>1 DEF ArmSet, Pcs
<1>4. arm' = [arm EXCEPT ![a] = r]
  BY DEF LInv
<1>. HIDE DEF r
<1>5. arm[a].journal = "planned" /\ ~arm[a].entered
  BY <1>1 DEF Placed, Ordered, BeforeCall, BeforeSync, Synchronizing, Calling
<1>6. Ordered(r, provider)
  BY <1>1, <1>2, <1>3, <1>5 DEF Ordered
<1>7. Placed(r, provider)
  BY <1>3, <1>5 DEF Placed, Ordered, BeforeCall, BeforeSync, Synchronizing, Calling
<1>8. Expected(r) = Expected(arm[a])
  BY <1>3 DEF Expected
<1>9. Accounted(r, phase[a], poisoned)
  BY <1>2, <1>8 DEF Accounted
<1>. QED  BY <1>3, <1>4, <1>6, <1>7, <1>9, Alone

LEMMA LocalInit == Init => LInv
<1> SUFFICES ASSUME Init PROVE LInv
  OBVIOUS
<1>1. PICK first \in Roles :
        arm = [a \in Roles |->
               [pc |-> IF Concurrent \/ a = first THEN "prepare" ELSE "ready",
                exc |-> "none", synchronized |-> FALSE, entered |-> FALSE,
                sent |-> FALSE, dispatched |-> FALSE, journal |-> "none",
                evidence |-> FALSE, status |-> "none", passed |-> FALSE]]
  BY DEF Init
<1>2. /\ provider \in Providers \cap {"fake", "claude", "codex"} /\ monitored \in Monitors
      /\ phase = [a \in Roles |-> "unknown"] /\ poisoned = FALSE /\ faults = 0
  BY PairAssumption DEF Init
<1>3. \A a \in Roles :
        /\ arm[a] \in ArmSet
        /\ arm[a].pc \in {"prepare", "ready"} /\ arm[a].exc = "none"
        /\ ~arm[a].synchronized /\ ~arm[a].entered /\ ~arm[a].sent /\ ~arm[a].dispatched
        /\ arm[a].journal = "none" /\ arm[a].status = "none"
  BY <1>1 DEF ArmSet, Pcs
<1>4. \A a \in Roles : Local(arm[a], phase[a], provider, poisoned)
  <2> SUFFICES ASSUME NEW a \in Roles PROVE Local(arm[a], phase[a], provider, poisoned)
    OBVIOUS
  <2>1. Ordered(arm[a], provider)
    BY <1>3 DEF Ordered
  <2>2. Placed(arm[a], provider)
    BY <1>3 DEF Placed, Ordered, BeforeCall, BeforeSync, Synchronizing, Calling
  <2>3. phase[a] = "unknown" /\ Expected(arm[a]) = "unknown"
    BY <1>2, <1>3 DEF Expected
  <2>. QED  BY <2>1, <2>2, <2>3 DEF Local, Accounted
<1>5. arm \in [Roles -> ArmSet]
  BY <1>1, <1>3
<1>6. faults \in 0..MaxFaults
  <2>1. faults = 0 /\ MaxFaults \in Nat
    BY <1>2, PairAssumption
  <2>. QED  BY <2>1
<1>7. phase \in [Roles -> Phases]
  BY <1>2 DEF Phases
<1>. QED  BY <1>2, <1>4, <1>5, <1>6, <1>7, Zenon DEF LInv

\* The steps that take an arm to its provider and back, by what they do to it.
LEMMA ArmLocal ==
  ASSUME LInv, NEW a \in Roles, ArmStep(a)
  PROVE  LInv'
<1>1. CASE StartSecond(a)
  BY <1>1, GoSteps DEF StartSecond, At, Pcs
<1>2. CASE Prepare(a)
  <2>1. arm[a].pc = "prepare" /\ local' = local /\ ledger' = ledger
    BY <1>2 DEF Prepare, At
  <2>2. phase[a] = Expected(arm[a]) /\ arm[a].status = "none"
    BY <2>1, Agrees, Here DEF Ordered
  <2>3. CASE Goto(a, "plan")
    BY <2>1, <2>3, GoSteps DEF Pcs
  <2>4. ASSUME NEW pc \in {"handler", "raised"}, Raise(a, pc)
        PROVE  LInv'
    BY <2>1, <2>2, <2>4, Raises DEF Raise, local
  <2>. QED  BY <1>2, <2>3, <2>4 DEF Prepare
<1>3. CASE Arrive(a)
  <2>1. PICK n \in {1, 2} :
          /\ arm[a].pc = IF n = 1 THEN "sync1" ELSE "sync2"
          /\ Raise(a, "handler") \/ Goto(a, IF n = 1 THEN "wait1" ELSE "wait2")
    BY <1>3 DEF Arrive, At
  <2>2. local' = local /\ ledger' = ledger
    BY <1>3 DEF Arrive
  <2>3. phase[a] = Expected(arm[a]) /\ arm[a].status = "none"
    BY <2>1, Agrees, Here DEF Ordered
  <2>4. CASE Raise(a, "handler")
    BY <2>2, <2>3, <2>4, Raises DEF Raise, local
  <2>5. CASE Goto(a, IF n = 1 THEN "wait1" ELSE "wait2")
    BY <2>1, <2>2, <2>5, GoSteps DEF Pcs
  <2>. QED  BY <2>1, <2>4, <2>5
<1>4. CASE Leave(a)
  <2>1. local' = local /\ ledger' = ledger
    BY <1>4 DEF Leave
  <2>2. CASE arm[a].pc = "wait1" /\ Goto(a, "start")
    BY <2>1, <2>2, GoSteps DEF Pcs
  <2>3. CASE arm[a].pc = "wait2" /\ arm' = [arm EXCEPT ![a].pc = "enter", ![a].synchronized = TRUE]
    BY <2>1, <2>3, SynchronizedStep DEF local
  <2>. QED  BY <1>4, <2>2, <2>3 DEF Leave, At
<1>5. CASE Timeout(a) \/ Broken(a)
  <2>1. /\ arm[a].pc \in {"wait1", "wait2"} /\ local' = local /\ ledger' = ledger
        /\ Raise(a, "handler")
    BY <1>5 DEF Timeout, Broken, Waits, At
  <2>2. phase[a] = Expected(arm[a]) /\ arm[a].status = "none"
    BY <2>1, Agrees, Here DEF Ordered
  <2>. QED  BY <2>1, <2>2, Raises DEF Raise, local
<1>6. CASE Launch(a) \/ Answer(a)
  <2>1. arm[a].pc \in {"launch", "answer"} /\ local' = local /\ ledger' = ledger
    BY <1>6 DEF Launch, Answer, At
  <2>2. phase[a] = Expected(arm[a]) /\ arm[a].status = "none"
    BY <2>1, Agrees, Here DEF Ordered
  <2>3. CASE Raise(a, "finally")
    <3>1. arm[a].entered /\ arm[a].journal # "completed"
      BY <2>1, Here DEF Placed, Ordered, BeforeCall, BeforeSync, Synchronizing, Calling
    <3>. QED  BY <2>1, <2>2, <2>3, <3>1, Raises DEF Raise, local
  <2>4. CASE arm[a].pc = "launch" /\ Goto(a, IF provider = "claude" THEN "callback" ELSE "transmit")
    BY <2>1, <2>4, GoSteps DEF Pcs
  <2>5. CASE arm[a].pc = "answer" /\ Goto(a, IF arm[a].dispatched THEN "judge" ELSE "account")
    BY <2>1, <2>5, GoSteps DEF Pcs
  <2>. QED  BY <1>6, <2>3, <2>4, <2>5 DEF Launch, Answer, At
<1>7. CASE Record(a)
  <2>1. arm[a].pc = "record" /\ local' = local /\ ledger' = ledger
    BY <1>7 DEF Record, At
  <2>2. phase[a] = Expected(arm[a])
    BY <2>1, Agrees
  <2>3. CASE Goto(a, "done")
    BY <2>1, <2>3, GoSteps DEF Pcs
  <2>4. CASE Raise(a, "raised")
    BY <2>1, <2>2, <2>4, Raises DEF Raise, local
  <2>. QED  BY <1>7, <2>3, <2>4 DEF Record
<1>. QED  BY <1>1, <1>2, <1>3, <1>4, <1>5, <1>6, <1>7, PlanStep, StartStep, EnterStep,
             TransmitStep, CallbackStep, AccountStep, JudgeStep, CompleteStep,
             FinallyStep, VerifyStep, HandlerStep, SettleStep DEF ArmStep

LEMMA LocalNext == LInv /\ [Next]_vars => LInv'
<1> SUFFICES ASSUME LInv, [Next]_vars PROVE LInv'
  OBVIOUS
<1>1. CASE UNCHANGED <<provider, monitored, arm, ledger>>
  BY <1>1 DEF LInv, ledger
<1>2. CASE \E a \in Roles : ArmStep(a)
  BY <1>2, ArmLocal
<1>. QED  BY <1>1, <1>2 DEF Next, Conclude, Audit, Abort, Ended, vars

----------------------------------------------------------------------------
(* What a step does to the arm as the other one and the clock see it.      *)

Early == BeforeSync \cup {"sync1", "wait1", "start"}                 \* no window yet
Open == BeforeCall \cup {"enter", "complete", "finally"} \cup Calling  \* one not closed

Advances(a) ==
  /\ arm' = [arm EXCEPT ![a] = arm'[a]]
  /\ arm'[a].pc \in Early => arm[a].pc \in Early
  /\ arm'[a].pc \in Open => arm[a].pc \in Open
  /\ arm[a].synchronized => arm'[a].synchronized
  /\ arm'[a].pc = "verify" => arm[a].pc = "finally"
  /\ arm'[a].status = "completed" => arm[a].status = "completed" \/ arm[a].pc = "verify"

\* An arm that is not at the barrier.
Quiet(a) ==
  /\ Advances(a)
  /\ arm'[a].synchronized = arm[a].synchronized
  /\ arm[a].pc # "wait2"

LEMMA GotoAdvances ==
  ASSUME LInv, NEW a \in Roles, NEW pc \in Pcs, Goto(a, pc),
         pc \in Early => arm[a].pc \in Early,
         pc \in Open => arm[a].pc \in Open,
         pc = "verify" => arm[a].pc = "finally"
  PROVE  Advances(a) /\ arm'[a].synchronized = arm[a].synchronized
<1>1. arm[a] \in ArmSet /\ arm' = [arm EXCEPT ![a] = [arm[a] EXCEPT !.pc = pc]]
  BY Here DEF Goto, LInv
<1>2. arm'[a] = [arm[a] EXCEPT !.pc = pc]
  BY <1>1 DEF LInv
<1>3. /\ arm'[a].pc = pc /\ arm'[a].synchronized = arm[a].synchronized
      /\ arm'[a].status = arm[a].status
  BY <1>1, <1>2 DEF ArmSet
<1>. QED  BY <1>1, <1>2, <1>3 DEF Advances

LEMMA RaisingAdvances ==
  ASSUME LInv, NEW a \in Roles, NEW pc \in {"finally", "handler", "raised"},
         NEW exc, arm' = Raising(a, pc, exc),
         pc = "finally" => arm[a].pc \in Open
  PROVE  Advances(a) /\ arm'[a].synchronized = arm[a].synchronized
<1>1. arm[a] \in ArmSet /\ arm' = [arm EXCEPT ![a] = [arm[a] EXCEPT !.pc = pc, !.exc = exc]]
  BY Here DEF Raising, LInv
<1>2. arm'[a] = [arm[a] EXCEPT !.pc = pc, !.exc = exc]
  BY <1>1 DEF LInv
<1>3. /\ arm'[a].pc = pc /\ arm'[a].synchronized = arm[a].synchronized
      /\ arm'[a].status = arm[a].status
  BY <1>1, <1>2 DEF ArmSet
<1>4. pc \notin Early /\ pc # "verify" /\ (pc \in Open => arm[a].pc \in Open)
  BY DEF Early, Open, BeforeCall, BeforeSync, Synchronizing, Calling
<1>. QED  BY <1>1, <1>2, <1>3, <1>4 DEF Advances

\* An append lets the arm go on or raise.
LEMMA AppendAdvances ==
  ASSUME LInv, NEW a \in Roles, NEW from, NEW to, NEW r \in ArmSet,
         NEW pc \in {"finally", "handler", "raised"}, NEW exc,
         AppendTo(a, from, to, [arm EXCEPT ![a] = r], Raising(a, pc, exc)),
         pc = "finally" => arm[a].pc \in Open,
         r.pc \in Early => arm[a].pc \in Early,
         r.pc \in Open => arm[a].pc \in Open,
         r.pc # "verify" /\ r.status # "completed",
         r.synchronized = arm[a].synchronized
  PROVE  Advances(a) /\ arm'[a].synchronized = arm[a].synchronized
<1>1. CASE arm' = [arm EXCEPT ![a] = r]
  <2>1. arm'[a] = r
    BY <1>1 DEF LInv
  <2>. QED  BY <1>1, <2>1 DEF Advances
<1>2. CASE arm' = Raising(a, pc, exc)
  BY <1>2, RaisingAdvances
<1>. QED  BY <1>1, <1>2, Appends

LEMMA QuietSteps ==
  ASSUME LInv, NEW a \in Roles,
         \/ StartSecond(a) \/ Prepare(a) \/ Plan(a) \/ Enter(a) \/ Launch(a) \/ Transmit(a)
         \/ Callback(a) \/ Answer(a) \/ Account(a) \/ Judge(a) \/ Complete(a) \/ Finally(a)
         \/ Verify(a) \/ Handler(a) \/ Settle(a) \/ Record(a)
  PROVE  Quiet(a)
<1>1. arm[a] \in ArmSet
  BY Here
<1>2. CASE StartSecond(a)
  <2>1. arm[a].pc = "ready"
    BY <1>2 DEF StartSecond, At
  <2>2. ASSUME NEW pc \in {"prepare"}, Goto(a, pc) PROVE Quiet(a)
    BY <2>1, <2>2, GotoAdvances DEF Early, Open, BeforeCall, BeforeSync, Synchronizing, Calling, Pcs, Quiet
  <2>. QED  BY <1>2, <2>2 DEF StartSecond
<1>3. CASE Prepare(a)
  <2>1. arm[a].pc = "prepare"
    BY <1>3 DEF Prepare, At
  <2>2. ASSUME NEW pc \in {"plan"}, Goto(a, pc) PROVE Quiet(a)
    BY <2>1, <2>2, GotoAdvances DEF Early, Open, BeforeCall, BeforeSync, Synchronizing, Calling, Pcs, Quiet
  <2>3. ASSUME NEW pc \in {"handler", "raised"}, Raise(a, pc) PROVE Quiet(a)
    BY <2>1, <2>3, RaisingAdvances DEF Early, Open, BeforeCall, BeforeSync, Synchronizing, Calling, Raise, Quiet
  <2>. QED  BY <1>3, <2>2, <2>3 DEF Prepare
<1>4. CASE Launch(a)
  <2>1. arm[a].pc = "launch"
    BY <1>4 DEF Launch, At
  <2>2. ASSUME NEW pc \in {"callback", "transmit"}, Goto(a, pc) PROVE Quiet(a)
    BY <2>1, <2>2, GotoAdvances DEF Early, Open, BeforeCall, BeforeSync, Synchronizing, Calling, Pcs, Quiet
  <2>3. ASSUME NEW pc \in {"finally"}, Raise(a, pc) PROVE Quiet(a)
    BY <2>1, <2>3, RaisingAdvances DEF Early, Open, BeforeCall, BeforeSync, Synchronizing, Calling, Raise, Quiet
  <2>. QED  BY <1>4, <2>2, <2>3 DEF Launch
<1>5. CASE Answer(a)
  <2>1. arm[a].pc = "answer"
    BY <1>5 DEF Answer, At
  <2>2. ASSUME NEW pc \in {"judge", "account"}, Goto(a, pc) PROVE Quiet(a)
    BY <2>1, <2>2, GotoAdvances DEF Early, Open, BeforeCall, BeforeSync, Synchronizing, Calling, Pcs, Quiet
  <2>3. ASSUME NEW pc \in {"finally"}, Raise(a, pc) PROVE Quiet(a)
    BY <2>1, <2>3, RaisingAdvances DEF Early, Open, BeforeCall, BeforeSync, Synchronizing, Calling, Raise, Quiet
  <2>. QED  BY <1>5, <2>2, <2>3 DEF Answer
<1>6. CASE Handler(a)
  <2>1. arm[a].pc = "handler"
    BY <1>6 DEF Handler, At
  <2>2. ASSUME NEW pc \in {"raised", "settle"}, Goto(a, pc) PROVE Quiet(a)
    BY <2>1, <2>2, GotoAdvances DEF Early, Open, BeforeCall, BeforeSync, Synchronizing, Calling, Pcs, Quiet
  <2>. QED  BY <1>6, <2>2 DEF Handler
<1>7. CASE Record(a)
  <2>1. arm[a].pc = "record"
    BY <1>7 DEF Record, At
  <2>2. ASSUME NEW pc \in {"done"}, Goto(a, pc) PROVE Quiet(a)
    BY <2>1, <2>2, GotoAdvances DEF Early, Open, BeforeCall, BeforeSync, Synchronizing, Calling, Pcs, Quiet
  <2>3. ASSUME NEW pc \in {"raised"}, Raise(a, pc) PROVE Quiet(a)
    BY <2>1, <2>3, RaisingAdvances DEF Early, Open, BeforeCall, BeforeSync, Synchronizing, Calling, Raise, Quiet
  <2>. QED  BY <1>7, <2>2, <2>3 DEF Record
<1>8. CASE Finally(a)
  <2>1. arm[a].pc = "finally"
    BY <1>8 DEF Finally, At
  <2>2. ASSUME NEW pc \in {"verify", "handler"}, Goto(a, pc) PROVE Quiet(a)
    BY <2>1, <2>2, GotoAdvances DEF Early, Open, BeforeCall, BeforeSync, Synchronizing, Calling, Pcs, Quiet
  <2>3. ASSUME NEW pc \in {"handler"}, Raise(a, pc) PROVE Quiet(a)
    BY <2>1, <2>3, RaisingAdvances DEF Early, Open, BeforeCall, BeforeSync, Synchronizing, Calling, Raise, Quiet
  <2>. QED  BY <1>8, <2>2, <2>3 DEF Finally, Goto
<1>9. CASE Plan(a)
  <2> DEFINE r == [arm[a] EXCEPT !.pc = IF Concurrent THEN "sync1" ELSE "start", !.journal = "planned"]
             exc == "journal"
  <2>1. arm[a].pc = "plan" /\ arm[a].status = "none"
    BY <1>9, Here DEF Plan, At, Ordered
  <2>2. /\ r \in ArmSet
        /\ r.pc = (IF Concurrent THEN "sync1" ELSE "start") /\ r.status = arm[a].status
        /\ r.synchronized = arm[a].synchronized
    BY <1>1 DEF ArmSet, Pcs
  <2>3. AppendTo(a, "unknown", "planned", [arm EXCEPT ![a] = r], Raising(a, "handler", exc))
    BY <1>9 DEF Plan, LInv
  <2>. HIDE DEF r, exc
  <2>. QED  BY <2>1, <2>2, <2>3, AppendAdvances DEF Early, Open, BeforeCall, BeforeSync, Synchronizing, Calling, Quiet
<1>10. CASE Account(a)
  <2> DEFINE r == [arm[a] EXCEPT !.dispatched = TRUE, !.pc = "judge"]
             exc == "journal"
  <2>1. arm[a].pc = "account" /\ arm[a].status = "none"
    BY <1>10, Here DEF Account, At, Ordered
  <2>2. /\ r \in ArmSet
        /\ r.pc = ("judge") /\ r.status = arm[a].status
        /\ r.synchronized = arm[a].synchronized
    BY <1>1 DEF ArmSet, Pcs
  <2>3. AppendTo(a, "planned", "dispatched", [arm EXCEPT ![a] = r], Raising(a, "finally", exc))
    BY <1>10 DEF Account, LInv
  <2>. HIDE DEF r, exc
  <2>. QED  BY <2>1, <2>2, <2>3, AppendAdvances DEF Early, Open, BeforeCall, BeforeSync, Synchronizing, Calling, Quiet
<1>11. CASE Complete(a)
  <2> DEFINE r == [arm[a] EXCEPT !.pc = "finally", !.journal = "completed"]
             exc == "journal"
  <2>1. arm[a].pc = "complete" /\ arm[a].status = "none"
    BY <1>11, Here DEF Complete, At, Ordered
  <2>2. /\ r \in ArmSet
        /\ r.pc = ("finally") /\ r.status = arm[a].status
        /\ r.synchronized = arm[a].synchronized
    BY <1>1 DEF ArmSet, Pcs
  <2>3. AppendTo(a, "dispatched", "completed", [arm EXCEPT ![a] = r], Raising(a, "finally", exc))
    BY <1>11 DEF Complete, LInv
  <2>. HIDE DEF r, exc
  <2>. QED  BY <2>1, <2>2, <2>3, AppendAdvances DEF Early, Open, BeforeCall, BeforeSync, Synchronizing, Calling, Quiet
<1>12. CASE Callback(a)
  <2> DEFINE r == [arm[a] EXCEPT !.dispatched = TRUE,
                         !.pc = IF provider = "claude" THEN "transmit" ELSE "answer"]
             exc == IF provider = "codex" THEN "other" ELSE "journal"
  <2>1. arm[a].pc = "callback" /\ arm[a].status = "none"
    BY <1>12, Here DEF Callback, At, Ordered
  <2>2. /\ r \in ArmSet
        /\ r.pc = (IF provider = "claude" THEN "transmit" ELSE "answer") /\ r.status = arm[a].status
        /\ r.synchronized = arm[a].synchronized
    BY <1>1 DEF ArmSet, Pcs
  <2>3. \/ AppendTo(a, "planned", "dispatched", [arm EXCEPT ![a] = r], Raising(a, "finally", exc))
        \/ Raise(a, "finally")
    BY <1>12 DEF Callback, LInv
  <2>. HIDE DEF r, exc
  <2>4. CASE Raise(a, "finally")
    BY <2>1, <2>4, RaisingAdvances DEF Early, Open, BeforeCall, BeforeSync, Synchronizing, Calling, Raise, Quiet
  <2>. QED  BY <2>1, <2>2, <2>3, <2>4, AppendAdvances DEF Early, Open, BeforeCall, BeforeSync, Synchronizing, Calling, Quiet
<1>13. CASE Enter(a)
  <2>1. arm[a].pc = "enter"
    BY <1>13 DEF Enter, At
  <2>2. ASSUME arm' = [arm EXCEPT ![a] = [arm[a] EXCEPT !.pc = "launch", !.entered = TRUE]]
        PROVE  Quiet(a)
    <3> DEFINE r == [arm[a] EXCEPT !.pc = "launch", !.entered = TRUE]
    <3>1. r.pc = "launch" /\ r.synchronized = arm[a].synchronized /\ r.status = arm[a].status
      BY <1>1 DEF ArmSet
    <3>2. arm' = [arm EXCEPT ![a] = r] /\ arm'[a] = r
      BY <2>2 DEF LInv
    <3>. HIDE DEF r
    <3>. QED  BY <2>1, <3>1, <3>2 DEF Quiet, Advances, Early, Open, BeforeCall, BeforeSync, Synchronizing, Calling
  <2>3. CASE Raise(a, "handler")
    BY <2>1, <2>3, RaisingAdvances DEF Early, Open, BeforeCall, BeforeSync, Synchronizing, Calling, Raise, Quiet
  <2>. QED  BY <1>13, <2>2, <2>3 DEF Enter, LInv
<1>14. CASE Transmit(a)
  <2>1. arm[a].pc = "transmit"
    BY <1>14 DEF Transmit, At
  <2>2. ASSUME NEW pc \in {"callback", "answer"}, arm' = [arm EXCEPT ![a] = [arm[a] EXCEPT !.pc = pc, !.sent = TRUE]]
        PROVE  Quiet(a)
    <3> DEFINE r == [arm[a] EXCEPT !.pc = pc, !.sent = TRUE]
    <3>1. r.pc = pc /\ r.synchronized = arm[a].synchronized /\ r.status = arm[a].status
      BY <1>1 DEF ArmSet
    <3>2. arm' = [arm EXCEPT ![a] = r] /\ arm'[a] = r
      BY <2>2 DEF LInv
    <3>. HIDE DEF r
    <3>. QED  BY <2>1, <3>1, <3>2 DEF Quiet, Advances, Early, Open, BeforeCall, BeforeSync, Synchronizing, Calling
  <2>3. CASE Raise(a, "finally")
    BY <2>1, <2>3, RaisingAdvances DEF Early, Open, BeforeCall, BeforeSync, Synchronizing, Calling, Raise, Quiet
  <2>. QED  BY <1>14, <2>2, <2>3 DEF Transmit, LInv
<1>15. CASE Verify(a)
  <2>1. arm[a].pc = "verify"
    BY <1>15 DEF Verify, At
  <2>2. ASSUME NEW passed \in BOOLEAN, arm' = [arm EXCEPT ![a] = [arm[a] EXCEPT !.pc = "record", !.status = "completed", !.passed = passed]]
        PROVE  Quiet(a)
    <3> DEFINE r == [arm[a] EXCEPT !.pc = "record", !.status = "completed", !.passed = passed]
    <3>1. r.pc = "record" /\ r.synchronized = arm[a].synchronized
      BY <1>1 DEF ArmSet
    <3>2. arm' = [arm EXCEPT ![a] = r] /\ arm'[a] = r
      BY <2>2 DEF LInv
    <3>. HIDE DEF r
    <3>. QED  BY <2>1, <3>1, <3>2 DEF Quiet, Advances, Early, Open, BeforeCall, BeforeSync, Synchronizing, Calling
  <2>3. CASE Raise(a, "handler")
    BY <2>1, <2>3, RaisingAdvances DEF Early, Open, BeforeCall, BeforeSync, Synchronizing, Calling, Raise, Quiet
  <2>. QED  BY <1>15, <2>2, <2>3 DEF Verify, LInv
<1>16. CASE Judge(a)
  <2>1. arm[a].pc = "judge"
    BY <1>16 DEF Judge, At
  <2>2. ASSUME NEW ok \in BOOLEAN, NEW evidence \in BOOLEAN, arm' = [arm EXCEPT ![a] = [arm[a] EXCEPT !.pc = IF ok THEN "complete" ELSE "finally",
                       !.exc = IF ok THEN "none" ELSE "other",
                       !.journal = "dispatched", !.evidence = evidence]]
        PROVE  Quiet(a)
    <3> DEFINE r == [arm[a] EXCEPT !.pc = IF ok THEN "complete" ELSE "finally",
                       !.exc = IF ok THEN "none" ELSE "other",
                       !.journal = "dispatched", !.evidence = evidence]
    <3>1. r.pc = (IF ok THEN "complete" ELSE "finally") /\ r.synchronized = arm[a].synchronized /\ r.status = arm[a].status
      BY <1>1 DEF ArmSet
    <3>2. arm' = [arm EXCEPT ![a] = r] /\ arm'[a] = r
      BY <2>2 DEF LInv
    <3>. HIDE DEF r
    <3>. QED  BY <2>1, <3>1, <3>2 DEF Quiet, Advances, Early, Open, BeforeCall, BeforeSync, Synchronizing, Calling
  <2>3. PICK ok \in BOOLEAN, evidence \in BOOLEAN :
          arm' = [arm EXCEPT ![a].pc = IF ok THEN "complete" ELSE "finally",
                             ![a].exc = IF ok THEN "none" ELSE "other",
                             ![a].journal = "dispatched", ![a].evidence = evidence]
    BY <1>16 DEF Judge
  <2>4. arm' = [arm EXCEPT ![a] = [arm[a] EXCEPT !.pc = IF ok THEN "complete" ELSE "finally",
                       !.exc = IF ok THEN "none" ELSE "other",
                       !.journal = "dispatched", !.evidence = evidence]]
    BY <2>3 DEF LInv
  <2>. QED  BY <2>2, <2>4
<1>17. CASE Settle(a)
  <2> DEFINE r == [arm[a] EXCEPT !.pc = "record", !.status = "error"]
             q == [arm[a] EXCEPT !.pc = "record", !.status = "error", !.journal = "failed"]
             from == IF arm[a].dispatched THEN "dispatched" ELSE "planned"
             to == IF arm[a].dispatched THEN "failed_observed" ELSE "failed_not_observed"
  <2>1. arm[a].pc = "settle"
    BY <1>17 DEF Settle, At
  <2>2. /\ r.pc = "record" /\ r.status = "error" /\ r.synchronized = arm[a].synchronized
        /\ q.pc = "record" /\ q.status = "error" /\ q.synchronized = arm[a].synchronized
        /\ q \in ArmSet
    BY <1>1 DEF ArmSet, Pcs
  <2>3. /\ [arm EXCEPT ![a].pc = "record", ![a].status = "error"] = [arm EXCEPT ![a] = r]
        /\ [[arm EXCEPT ![a].pc = "record", ![a].status = "error"] EXCEPT ![a].journal = "failed"]
             = [arm EXCEPT ![a] = q]
    BY DEF LInv
  <2>4. \/ arm' = [arm EXCEPT ![a] = r]
        \/ AppendTo(a, from, to, [arm EXCEPT ![a] = q], Raising(a, "raised", "journal"))
    BY <1>17, <2>3 DEF Settle
  <2>. HIDE DEF r, q, from, to
  <2>5. CASE arm' = [arm EXCEPT ![a] = r]
    <3>1. arm'[a] = r
      BY <2>5 DEF LInv
    <3>. QED  BY <2>1, <2>2, <2>5, <3>1 DEF Quiet, Advances, Early, Open, BeforeCall, BeforeSync, Synchronizing, Calling
  <2>. QED  BY <2>1, <2>2, <2>4, <2>5, AppendAdvances DEF Early, Open, BeforeCall, BeforeSync, Synchronizing, Calling, Quiet
<1>. QED  BY <1>2, <1>3, <1>4, <1>5, <1>6, <1>7, <1>8, <1>9, <1>10, <1>11, <1>12, <1>13, <1>14, <1>15, <1>16, <1>17

\* The steps at the barrier.
LEMMA BarrierSteps ==
  ASSUME LInv, NEW a \in Roles,
         Arrive(a) \/ Leave(a) \/ Timeout(a) \/ Broken(a) \/ Start(a)
  PROVE  Advances(a)
<1>1. arm[a] \in ArmSet
  BY Here
<1>2. CASE Arrive(a)
  <2>1. PICK n \in {1, 2} :
          /\ arm[a].pc = IF n = 1 THEN "sync1" ELSE "sync2"
          /\ Raise(a, "handler") \/ Goto(a, IF n = 1 THEN "wait1" ELSE "wait2")
    BY <1>2 DEF Arrive, At
  <2>2. CASE Raise(a, "handler")
    BY <2>2, RaisingAdvances DEF Raise
  <2>3. CASE Goto(a, IF n = 1 THEN "wait1" ELSE "wait2")
    BY <2>1, <2>3, GotoAdvances
    DEF Pcs, Early, Open, BeforeCall, BeforeSync, Synchronizing, Calling
  <2>. QED  BY <2>1, <2>2, <2>3
<1>3. CASE Timeout(a) \/ Broken(a)
  BY <1>3, RaisingAdvances DEF Timeout, Broken, Raise
<1>4. ASSUME NEW pc \in {"enter", "sync2"}, NEW s \in BOOLEAN, arm[a].synchronized => s,
             arm' = [arm EXCEPT ![a] = [arm[a] EXCEPT !.pc = pc, !.synchronized = s]],
             arm[a].pc \in {"start", "wait2"}
      PROVE  Advances(a)
  <2> DEFINE r == [arm[a] EXCEPT !.pc = pc, !.synchronized = s]
  <2>1. r.pc = pc /\ r.synchronized = s /\ r.status = arm[a].status
    BY <1>1 DEF ArmSet
  <2>2. arm' = [arm EXCEPT ![a] = r] /\ arm'[a] = r
    BY <1>4 DEF LInv
  <2>. HIDE DEF r
  <2>. QED  BY <1>4, <2>1, <2>2
            DEF Advances, Early, Open, BeforeCall, BeforeSync, Synchronizing, Calling
<1>5. CASE Leave(a)
  <2>1. CASE arm[a].pc = "wait1" /\ Goto(a, "start")
    BY <2>1, GotoAdvances DEF Pcs, Early, Open, BeforeCall, BeforeSync, Synchronizing, Calling
  <2>2. CASE /\ arm[a].pc = "wait2"
             /\ arm' = [arm EXCEPT ![a].pc = "enter", ![a].synchronized = TRUE]
    BY <1>4, <2>2 DEF LInv
  <2>. QED  BY <1>5, <2>1, <2>2 DEF Leave, At
<1>6. CASE Start(a)
  <2>1. arm[a].pc = "start"
    BY <1>6 DEF Start, At
  <2>2. CASE Goto(a, "sync2")
    BY <2>1, <2>2, GotoAdvances DEF Pcs, Early, Open, BeforeCall, BeforeSync, Synchronizing, Calling
  <2>3. CASE arm' = [arm EXCEPT ![a].pc = "enter", ![a].synchronized = TRUE]
    BY <1>4, <2>1, <2>3 DEF LInv
  <2>. QED  BY <1>6, <2>2, <2>3 DEF Start, Goto
<1>. QED  BY <1>2, <1>3, <1>5, <1>6

----------------------------------------------------------------------------
(* The barrier.                                                            *)

BarrierSet == [arrived : [{1, 2} -> SUBSET Roles], left : SUBSET Roles, broken : BOOLEAN]

\* Once one arm is past the second wait nothing breaks the barrier any more:
\* the other one has arrived there, and waits or is past it too.
BInv ==
  /\ barrier \in BarrierSet
  /\ Concurrent =>
       /\ barrier.left # {} => barrier.arrived[1] = Roles
       /\ barrier.arrived[2] # {} => barrier.left = Roles \/ barrier.broken
       /\ \A a \in barrier.arrived[2] :
            barrier.broken \/ arm[a].synchronized \/ arm[a].pc = "wait2"
       /\ \A a \in Roles :
            arm[a].synchronized => barrier.arrived[2] = Roles /\ ~barrier.broken

LEMMA BInit == Init => BInv
<1> SUFFICES ASSUME Init PROVE BInv
  OBVIOUS
<1>1. barrier = [arrived |-> <<{}, {}>>, left |-> {}, broken |-> FALSE]
  BY DEF Init
<1>2. <<{}, {}>> \in [{1, 2} -> SUBSET Roles] /\ <<{}, {}>>[2] = {}
  OBVIOUS
<1>3. barrier \in BarrierSet
  BY <1>1, <1>2 DEF BarrierSet
<1>4. \A a \in Roles : ~arm[a].synchronized
  BY DEF Init
<1>. QED  BY <1>1, <1>2, <1>3, <1>4 DEF BInv

LEMMA BarrierKept ==
  ASSUME LInv, BInv, NEW a \in Roles, Quiet(a), UNCHANGED <<provider, barrier>>
  PROVE  BInv'
<1>1. /\ \A b \in Roles : arm'[b].synchronized = arm[b].synchronized
      /\ \A b \in Roles : arm[b].pc = "wait2" => arm'[b].pc = "wait2"
  BY DEF Quiet, Advances, LInv
<1>2. barrier.arrived[2] \subseteq Roles
  BY DEF BInv, BarrierSet
<1>. QED  BY <1>1, <1>2 DEF BInv, Concurrent

LEMMA BHandler ==
  ASSUME LInv, BInv, NEW a \in Roles, Handler(a)
  PROVE  BInv'
<1>1. Quiet(a) /\ UNCHANGED provider /\ arm[a].pc = "handler"
  BY QuietSteps DEF Handler, local, At
<1>2. CASE barrier' = barrier
  BY <1>1, <1>2, BarrierKept
<1>3. CASE barrier' # barrier
  <2> DEFINE b == [barrier EXCEPT !.broken = TRUE]
  <2>1. /\ barrier \in BarrierSet
        /\ barrier' = [barrier EXCEPT !.broken = @ \/ (Concurrent /\ ~arm[a].synchronized)]
    BY DEF BInv, Handler
  <2>2. Concurrent /\ ~arm[a].synchronized /\ ~barrier.broken
    <3>1. barrier.broken \in BOOLEAN /\ barrier = [barrier EXCEPT !.broken = barrier.broken]
      BY <2>1 DEF BarrierSet
    <3>2. ~(Concurrent /\ ~arm[a].synchronized) => barrier' = [barrier EXCEPT !.broken = barrier.broken]
      BY <2>1, <3>1
    <3>3. barrier.broken => barrier' = [barrier EXCEPT !.broken = barrier.broken]
      BY <2>1, <3>1
    <3>. QED  BY <1>3, <3>1, <3>2, <3>3
  <2>3. barrier' = b
    BY <2>1, <2>2
  <2>4. /\ barrier' \in BarrierSet /\ barrier'.broken
        /\ barrier'.arrived = barrier.arrived /\ barrier'.left = barrier.left
    BY <2>1, <2>3 DEF BarrierSet
  <2>5. a \notin barrier.arrived[2]
    BY <1>1, <2>2 DEF BInv
  <2>6. \A x \in Roles : ~arm[x].synchronized
    BY <2>2, <2>5 DEF BInv
  <2>7. \A x \in Roles : arm'[x].synchronized = arm[x].synchronized
    BY <1>1 DEF Quiet, Advances, LInv
  <2>. QED  BY <1>1, <2>2, <2>4, <2>6, <2>7 DEF BInv, Concurrent
<1>. QED  BY <1>2, <1>3

LEMMA BArrive ==
  ASSUME LInv, BInv, NEW a \in Roles, Arrive(a)
  PROVE  BInv'
<1>1. PICK n \in {1, 2} :
        /\ At(a, IF n = 1 THEN "sync1" ELSE "sync2")
        /\ n = 2 => barrier.left = Roles \/ barrier.broken
        /\ IF barrier.broken
           THEN Raise(a, "handler") /\ UNCHANGED barrier
           ELSE /\ Goto(a, IF n = 1 THEN "wait1" ELSE "wait2")
                /\ barrier' = [barrier EXCEPT !.arrived[n] = @ \cup {a}]
  BY DEF Arrive
<1>2. UNCHANGED provider /\ arm[a].pc \in {"sync1", "sync2"} /\ barrier \in BarrierSet
  BY <1>1 DEF Arrive, local, At, BInv
<1>3. CASE barrier.broken
  <2>1. Quiet(a)
    BY <1>1, <1>2, <1>3, RaisingAdvances DEF Quiet, Raise
  <2>. QED  BY <1>1, <1>2, <1>3, <2>1, BarrierKept
<1>4. CASE ~barrier.broken
  <2>1. Advances(a) /\ arm'[a].synchronized = arm[a].synchronized
    BY <1>1, <1>2, <1>4, GotoAdvances
    DEF Pcs, Early, Open, BeforeCall, BeforeSync, Synchronizing, Calling, At
  <2>2. /\ barrier' \in BarrierSet
        /\ barrier'.arrived[n] = barrier.arrived[n] \cup {a}
        /\ \A m \in {1, 2} \ {n} : barrier'.arrived[m] = barrier.arrived[m]
        /\ barrier'.left = barrier.left /\ barrier'.broken = barrier.broken
    BY <1>1, <1>2, <1>4 DEF BarrierSet
  <2>3. /\ \A b \in Roles : arm'[b].synchronized = arm[b].synchronized
        /\ \A b \in Roles : arm[b].pc = "wait2" => arm'[b].pc = "wait2"
    BY <1>2, <2>1 DEF Advances, LInv
  <2>4. n = 2 => arm'[a].pc = "wait2" /\ barrier.left = Roles
    BY <1>1, <1>4, Here DEF Goto, LInv, ArmSet
  <2>5. barrier.arrived[1] \subseteq Roles /\ barrier.arrived[2] \subseteq Roles
    BY <1>2 DEF BarrierSet
  <2>. QED  BY <1>2, <1>4, <2>2, <2>3, <2>4, <2>5 DEF BInv, Concurrent
<1>. QED  BY <1>3, <1>4

LEMMA BLeave ==
  ASSUME LInv, BInv, NEW a \in Roles, Leave(a)
  PROVE  BInv'
<1>1. UNCHANGED provider /\ ~barrier.broken /\ barrier \in BarrierSet
  BY DEF Leave, local, BInv
<1>2. CASE /\ arm[a].pc = "wait1" /\ barrier.arrived[1] = Roles /\ Goto(a, "start")
           /\ barrier' = [barrier EXCEPT !.left = @ \cup {a}]
  <2>1. Advances(a) /\ arm'[a].synchronized = arm[a].synchronized
    BY <1>2, GotoAdvances DEF Pcs, Early, Open, BeforeCall, BeforeSync, Synchronizing, Calling
  <2>2. /\ barrier' \in BarrierSet
        /\ barrier'.arrived = barrier.arrived /\ barrier'.broken = barrier.broken
        /\ barrier'.left = barrier.left \cup {a}
    BY <1>1, <1>2 DEF BarrierSet
  <2>3. /\ \A b \in Roles : arm'[b].synchronized = arm[b].synchronized
        /\ \A b \in Roles : arm[b].pc = "wait2" => arm'[b].pc = "wait2"
    BY <1>2, <2>1 DEF Advances, LInv
  <2>4. barrier.arrived[2] \subseteq Roles /\ barrier.left \subseteq Roles
    BY <1>1 DEF BarrierSet
  <2>. QED  BY <1>1, <1>2, <2>2, <2>3, <2>4 DEF BInv, Concurrent
<1>3. CASE /\ barrier.arrived[2] = Roles /\ UNCHANGED barrier
           /\ arm' = [arm EXCEPT ![a].pc = "enter", ![a].synchronized = TRUE]
  <2>1. arm'[a].synchronized /\ \A b \in Roles \ {a} : arm'[b] = arm[b]
    BY <1>3, Here DEF LInv, ArmSet
  <2>. QED  BY <1>1, <1>3, <2>1 DEF BInv, Concurrent
<1>. QED  BY <1>2, <1>3 DEF Leave, At

LEMMA BTimeout ==
  ASSUME LInv, BInv, NEW a \in Roles, Timeout(a)
  PROVE  BInv'
<1>1. UNCHANGED provider /\ ~barrier.broken /\ barrier \in BarrierSet /\ Waits(a)
      /\ barrier' = [barrier EXCEPT !.broken = TRUE]
  BY DEF Timeout, local, BInv
<1>2. /\ barrier' \in BarrierSet /\ barrier'.broken
      /\ barrier'.arrived = barrier.arrived /\ barrier'.left = barrier.left
  BY <1>1 DEF BarrierSet
<1>3. \A b \in Roles : arm'[b].synchronized = arm[b].synchronized
  <2>1. Advances(a) /\ arm'[a].synchronized = arm[a].synchronized
    BY RaisingAdvances DEF Timeout, Raise
  <2>. QED  BY <2>1 DEF Advances, LInv
<1>4. Concurrent => \A b \in Roles : ~arm[b].synchronized
  <2> SUFFICES ASSUME Concurrent, NEW b \in Roles, arm[b].synchronized PROVE FALSE
    OBVIOUS
  <2>1. barrier.arrived[2] = Roles
    BY DEF BInv
  <2>2. barrier.left = Roles /\ Roles # {}
    BY <1>1, <2>1 DEF BInv, Roles
  <2>3. barrier.arrived[1] = Roles
    BY <2>2 DEF BInv
  <2>. QED  BY <1>1, <2>1, <2>3 DEF Waits
<1>. QED  BY <1>1, <1>2, <1>3, <1>4 DEF BInv, Concurrent

LEMMA BBroken ==
  ASSUME LInv, BInv, NEW a \in Roles, Broken(a)
  PROVE  BInv'
<1>1. UNCHANGED <<provider, barrier>> /\ barrier.broken
  BY DEF Broken, local
<1>2. \A b \in Roles : arm'[b].synchronized = arm[b].synchronized
  <2>1. Advances(a) /\ arm'[a].synchronized = arm[a].synchronized
    BY RaisingAdvances DEF Broken, Raise
  <2>. QED  BY <2>1 DEF Advances, LInv
<1>. QED  BY <1>1, <1>2 DEF BInv, Concurrent

LEMMA BStart ==
  ASSUME LInv, BInv, NEW a \in Roles, Start(a)
  PROVE  BInv'
<1>1. UNCHANGED <<provider, barrier>> /\ arm[a].pc = "start"
  BY DEF Start, local, At
<1>2. CASE Concurrent
  <2>1. Goto(a, "sync2")
    BY <1>2 DEF Start, Goto
  <2>2. Quiet(a)
    BY <1>1, <2>1, GotoAdvances
    DEF Quiet, Pcs, Early, Open, BeforeCall, BeforeSync, Synchronizing, Calling
  <2>. QED  BY <1>1, <2>2, BarrierKept
<1>3. CASE ~Concurrent
  BY <1>1, <1>3 DEF BInv, Concurrent
<1>. QED  BY <1>2, <1>3

LEMMA BNext == LInv /\ BInv /\ [Next]_vars => BInv'
<1> SUFFICES ASSUME LInv, BInv, [Next]_vars PROVE BInv'
  OBVIOUS
<1>1. CASE UNCHANGED <<provider, arm, barrier>>
  BY <1>1 DEF BInv, Concurrent
<1>2. ASSUME NEW a \in Roles, ArmStep(a) PROVE BInv'
  <2>1. CASE \/ StartSecond(a) \/ Prepare(a) \/ Plan(a) \/ Enter(a) \/ Launch(a) \/ Transmit(a)
             \/ Callback(a) \/ Answer(a) \/ Account(a) \/ Judge(a) \/ Complete(a) \/ Finally(a)
             \/ Verify(a) \/ Settle(a) \/ Record(a)
    <3>1. Quiet(a)
      BY <2>1, QuietSteps
    <3>2. UNCHANGED <<provider, barrier>>
      BY <2>1 DEF StartSecond, Prepare, Plan, Enter, Launch, Transmit, Callback, Answer, Account,
                  Judge, Complete, Finally, Verify, Settle, Record, local
    <3>. QED  BY <3>1, <3>2, BarrierKept
  <2>. QED  BY <1>2, <2>1, BHandler, BArrive, BLeave, BTimeout, BBroken, BStart DEF ArmStep
<1>. QED  BY <1>1, <1>2 DEF Next, Conclude, Audit, Abort, Ended, vars

----------------------------------------------------------------------------
(* The clock.                                                              *)

One(n) == IF n > 0 THEN 1 ELSE 0
Readings(a) == One(window[a].started) + One(window[a].finished)

\* Each arm reads the clock at most twice, in this order, and no arm of a
\* concurrent pair finishes before both have started.
KInv ==
  /\ clock \in Nat
  /\ window \in [Roles -> [started : Nat, finished : Nat]]
  /\ clock = Readings("control") + Readings("treatment")
  /\ \A a \in Roles :
       /\ window[a].started <= clock /\ window[a].finished <= clock
       /\ arm[a].pc \in Early => window[a].started = 0
       /\ arm[a].pc \in Open => window[a].finished = 0
       /\ window[a].finished > 0 => arm[a].synchronized
       /\ arm[a].status = "completed" \/ arm[a].pc = "verify" => window[a].finished > 0
  /\ Concurrent =>
       \A a, b \in Roles : window[b].finished > 0 => window[a].started <= window[b].finished

LEMMA KInit == Init => KInv
<1> SUFFICES ASSUME Init PROVE KInv
  OBVIOUS
<1>1. /\ clock = 0 /\ window \in [Roles -> [started : Nat, finished : Nat]]
      /\ \A a \in Roles : window[a].started = 0 /\ window[a].finished = 0
  BY DEF Init
<1>2. \A a \in Roles : arm[a].pc \in {"prepare", "ready"} /\ arm[a].status = "none"
  BY DEF Init
<1>3. Readings("control") = 0 /\ Readings("treatment") = 0
  BY <1>1 DEF Readings, One, Roles
<1>. QED  BY <1>1, <1>2, <1>3 DEF KInv

LEMMA ClockKept ==
  ASSUME LInv, KInv, NEW a \in Roles, Advances(a), arm[a].pc # "finally",
         UNCHANGED <<provider, window, clock>>
  PROVE  KInv'
<1>1. \A b \in Roles :
        /\ arm'[b].pc \in Early => arm[b].pc \in Early
        /\ arm'[b].pc \in Open => arm[b].pc \in Open
        /\ arm[b].synchronized => arm'[b].synchronized
        /\ arm'[b].pc = "verify" => arm[b].pc = "verify"
        /\ arm'[b].status = "completed" => arm[b].status = "completed" \/ arm[b].pc = "verify"
  BY DEF Advances, LInv
<1>2. Readings("control")' = Readings("control") /\ Readings("treatment")' = Readings("treatment")
  BY DEF Readings
<1>. QED  BY <1>1, <1>2 DEF KInv, Concurrent

LEMMA KStart ==
  ASSUME LInv, BInv, KInv, NEW a \in Roles, Start(a)
  PROVE  KInv'
<1>1. /\ arm[a].pc = "start" /\ UNCHANGED provider
      /\ clock' = clock + 1 /\ window' = [window EXCEPT ![a].started = clock']
  BY DEF Start, At, local
<1>2. arm[a].pc \in Early /\ arm[a].pc \in Open /\ ~arm[a].synchronized
  BY <1>1, Here
  DEF Early, Open, BeforeCall, BeforeSync, Synchronizing, Calling, Placed
<1>3. window[a].started = 0 /\ window[a].finished = 0
  BY <1>2 DEF KInv
<1>4. /\ clock' \in Nat /\ window' \in [Roles -> [started : Nat, finished : Nat]]
      /\ window'[a].started = clock + 1 /\ window'[a].finished = 0
      /\ \A b \in Roles \ {a} : window'[b] = window[b]
      /\ \A b \in Roles : window'[b].finished = window[b].finished
  BY <1>1, <1>3 DEF KInv
<1>5. /\ Advances(a) /\ arm'[a].pc \in {"sync2", "enter"}
  BY <1>1, BarrierSteps, Here DEF Start, LInv, ArmSet
<1>6. clock' = Readings("control")' + Readings("treatment")'
  <2>1. Readings(a)' = Readings(a) + 1
    BY <1>3, <1>4 DEF Readings, One, KInv
  <2>2. \A b \in Roles \ {a} : Readings(b)' = Readings(b)
    BY <1>4 DEF Readings
  <2>3. Readings("control") \in Nat /\ Readings("treatment") \in Nat
    BY DEF Readings, One
  <2>. QED  BY <1>1, <2>1, <2>2, <2>3 DEF KInv, Roles
<1>7. \A b \in Roles :
        /\ arm'[b].pc \in Early => b # a /\ arm[b].pc \in Early
        /\ arm'[b].pc \in Open => arm[b].pc \in Open
        /\ arm[b].synchronized => arm'[b].synchronized
        /\ arm'[b].pc = "verify" => arm[b].pc = "verify"
        /\ arm'[b].status = "completed" => arm[b].status = "completed" \/ arm[b].pc = "verify"
  BY <1>1, <1>5 DEF Advances, LInv, Early, BeforeSync
<1>8. \A b \in Roles :
        /\ window'[b].started <= clock' /\ window'[b].finished <= clock'
        /\ arm'[b].pc \in Early => window'[b].started = 0
        /\ arm'[b].pc \in Open => window'[b].finished = 0
        /\ window'[b].finished > 0 => arm'[b].synchronized
        /\ arm'[b].status = "completed" \/ arm'[b].pc = "verify" => window'[b].finished > 0
  <2> SUFFICES ASSUME NEW b \in Roles
               PROVE  /\ window'[b].started <= clock' /\ window'[b].finished <= clock'
                      /\ arm'[b].pc \in Early => window'[b].started = 0
                      /\ arm'[b].pc \in Open => window'[b].finished = 0
                      /\ window'[b].finished > 0 => arm'[b].synchronized
                      /\ arm'[b].status = "completed" \/ arm'[b].pc = "verify" => window'[b].finished > 0
    OBVIOUS
  <2>1. window'[b].started <= clock' /\ window'[b].finished <= clock'
    BY <1>1, <1>4 DEF KInv
  <2>2. arm'[b].pc \in Early => window'[b].started = 0
    BY <1>4, <1>7 DEF KInv
  <2>. QED  BY <1>4, <1>7, <2>1, <2>2 DEF KInv
<1>9. Concurrent' =>
        \A b, c \in Roles : window'[c].finished > 0 => window'[b].started <= window'[c].finished
  <2>1. Concurrent => \A c \in Roles : ~(window[c].finished > 0)
    BY <1>1, <1>2 DEF KInv, BInv
  <2>. QED  BY <1>1, <1>4, <2>1 DEF Concurrent
<1>. QED  BY <1>4, <1>6, <1>8, <1>9 DEF KInv

LEMMA KFinally ==
  ASSUME LInv, BInv, KInv, NEW a \in Roles, Finally(a)
  PROVE  KInv'
<1>1. /\ arm[a].pc = "finally" /\ UNCHANGED provider
      /\ clock' = clock + 1 /\ window' = [window EXCEPT ![a].finished = clock']
  BY DEF Finally, At, local
<1>2. arm[a].pc \in Open /\ arm[a].synchronized /\ arm[a].status # "completed"
  BY <1>1, Here DEF Open, Placed, Ordered
<1>3. window[a].finished = 0
  BY <1>2 DEF KInv
<1>4. /\ clock' \in Nat /\ window' \in [Roles -> [started : Nat, finished : Nat]]
      /\ window'[a].finished = clock + 1
      /\ \A b \in Roles \ {a} : window'[b] = window[b]
      /\ \A b \in Roles : window'[b].started = window[b].started
  BY <1>1, <1>3 DEF KInv
<1>5. Quiet(a) /\ arm'[a].pc \in {"verify", "handler"}
  <2>1. PICK pc \in {"verify", "handler"} : Goto(a, pc) \/ Raise(a, pc)
    BY DEF Finally, Goto
  <2>2. arm'[a].pc = pc
    BY <2>1, Here DEF Goto, Raise, Raising, LInv, ArmSet
  <2>. QED  BY <2>2, QuietSteps
<1>6. clock' = Readings("control")' + Readings("treatment")'
  <2>1. Readings(a)' = Readings(a) + 1
    BY <1>3, <1>4 DEF Readings, One, KInv
  <2>2. \A b \in Roles \ {a} : Readings(b)' = Readings(b)
    BY <1>4 DEF Readings
  <2>3. Readings("control") \in Nat /\ Readings("treatment") \in Nat
    BY DEF Readings, One
  <2>. QED  BY <1>1, <2>1, <2>2, <2>3 DEF KInv, Roles
<1>7. arm'[a].pc \notin Early /\ arm'[a].pc \notin Open /\ arm'[a].synchronized
  BY <1>2, <1>5 DEF Quiet, Early, Open, BeforeCall, BeforeSync, Synchronizing, Calling
<1>8. \A b \in Roles \ {a} : arm'[b] = arm[b]
  BY <1>5 DEF Quiet, Advances, LInv
<1>9. \A b \in Roles :
        /\ window'[b].started <= clock' /\ window'[b].finished <= clock'
        /\ arm'[b].pc \in Early => window'[b].started = 0
        /\ arm'[b].pc \in Open => window'[b].finished = 0
        /\ window'[b].finished > 0 => arm'[b].synchronized
        /\ arm'[b].status = "completed" \/ arm'[b].pc = "verify" => window'[b].finished > 0
  <2>1. \A b \in Roles \ {a} :
        /\ window'[b].started <= clock' /\ window'[b].finished <= clock'
        /\ arm'[b].pc \in Early => window'[b].started = 0
        /\ arm'[b].pc \in Open => window'[b].finished = 0
        /\ window'[b].finished > 0 => arm'[b].synchronized
        /\ arm'[b].status = "completed" \/ arm'[b].pc = "verify" => window'[b].finished > 0
    BY <1>1, <1>4, <1>8 DEF KInv
  <2>2. window'[a].started <= clock' /\ window'[a].finished <= clock' /\ window'[a].finished > 0
    BY <1>1, <1>4 DEF KInv
  <2>. QED  BY <1>7, <2>1, <2>2
<1>10. Concurrent' =>
        \A b, c \in Roles : window'[c].finished > 0 => window'[b].started <= window'[c].finished
  <2>1. \A b \in Roles : window'[b].started <= window'[a].finished
    BY <1>4 DEF KInv
  <2>. QED  BY <1>1, <1>4, <2>1 DEF KInv, Concurrent
<1>. QED  BY <1>4, <1>6, <1>9, <1>10 DEF KInv

LEMMA KNext == LInv /\ BInv /\ KInv /\ [Next]_vars => KInv'
<1> SUFFICES ASSUME LInv, BInv, KInv, [Next]_vars PROVE KInv'
  OBVIOUS
<1>1. CASE UNCHANGED <<provider, arm, window, clock>>
  BY <1>1 DEF KInv, Concurrent, Readings
<1>2. ASSUME NEW a \in Roles, ArmStep(a) PROVE KInv'
  <2>1. CASE \/ StartSecond(a) \/ Prepare(a) \/ Plan(a) \/ Enter(a) \/ Launch(a) \/ Transmit(a)
             \/ Callback(a) \/ Answer(a) \/ Account(a) \/ Judge(a) \/ Complete(a)
             \/ Verify(a) \/ Handler(a) \/ Settle(a) \/ Record(a)
    <3>1. Advances(a)
      BY <2>1, QuietSteps DEF Quiet
    <3>2. UNCHANGED <<provider, window, clock>> /\ arm[a].pc # "finally"
      BY <2>1 DEF StartSecond, Prepare, Plan, Enter, Launch, Transmit, Callback, Answer, Account,
                  Judge, Complete, Verify, Handler, Settle, Record, local, At
    <3>. QED  BY <3>1, <3>2, ClockKept
  <2>2. CASE Arrive(a) \/ Leave(a) \/ Timeout(a) \/ Broken(a)
    <3>1. Advances(a)
      BY <2>2, BarrierSteps
    <3>2. UNCHANGED <<provider, window, clock>> /\ arm[a].pc # "finally"
      BY <2>2 DEF Arrive, Leave, Timeout, Broken, Waits, local, At
    <3>. QED  BY <3>1, <3>2, ClockKept
  <2>. QED  BY <1>2, <2>1, <2>2, KStart, KFinally DEF ArmStep
<1>. QED  BY <1>1, <1>2 DEF Next, Conclude, Audit, Abort, Ended, vars

----------------------------------------------------------------------------
(* The verdict.                                                            *)

VerdictSet ==
  [winner : Roles \cup {"none", "tie", "tradeoff", "unqualified", "inconclusive"},
   basis : {"none", "infrastructure_error", "verifier-pass-v1", "objective_verifier",
            "verifier_only", "canonical_comparator"},
   bias : BOOLEAN, completed : BOOLEAN]

LEMMA JudgedFacts ==
  ASSUME NEW answers
  PROVE  /\ Judged(answers) \in VerdictSet
         /\ Judged(answers).winner # "none"
         /\ Judged(answers).completed => Judged(answers).basis = "canonical_comparator"
<1>1. CASE \E o \in Orders : answers[o] = NoAnswer
  <2>1. Judged(answers) = [winner |-> "inconclusive", basis |-> "infrastructure_error",
                           bias |-> FALSE, completed |-> FALSE]
    BY <1>1 DEF Judged, Inconclusive, Verdict
  <2>. QED  BY <2>1 DEF VerdictSet
<1>2. CASE ~(\E o \in Orders : answers[o] = NoAnswer) /\ ~Agree(answers)
  <2>1. Judged(answers) = [winner |-> "inconclusive", basis |-> "infrastructure_error",
                           bias |-> TRUE, completed |-> FALSE]
    BY <1>2 DEF Judged, Inconclusive, Verdict
  <2>. QED  BY <2>1 DEF VerdictSet
<1>3. CASE ~(\E o \in Orders : answers[o] = NoAnswer) /\ Agree(answers)
  <2> DEFINE w == MapOutcome(Outcome(Normalized(answers["AB"], "AB")))
  <2>1. \A d : Outcome(d) \in {"tradeoff", "A", "B", "tie", "unqualified"}
    BY DEF Outcome
  <2>2. w \in Roles \cup {"tradeoff", "tie", "unqualified"}
    BY <2>1 DEF MapOutcome, Roles
  <2>3. Judged(answers) = [winner |-> w, basis |-> "canonical_comparator",
                           bias |-> FALSE, completed |-> TRUE]
    BY <1>3 DEF Judged, Verdict
  <2>. QED  BY <2>2, <2>3 DEF VerdictSet, Roles
<1>. QED  BY <1>1, <1>2, <1>3

LEMMA ObjectiveFacts ==
  ASSUME NEW passed \in SUBSET Roles, NEW mode \in Modes, ~IsJudged(passed, mode)
  PROVE  /\ Objective(passed, mode) \in VerdictSet
         /\ Objective(passed, mode).winner # "none"
         /\ Objective(passed, mode).basis # "canonical_comparator"
         /\ Objective(passed, mode).winner \in Roles => Objective(passed, mode).winner \in passed
<1>1. passed \in {{}, {"control"}, {"treatment"}, Roles}
  BY DEF Roles
<1>2. /\ {} # Roles /\ {"control"} # Roles /\ {"treatment"} # Roles
      /\ {"control"} # {"treatment"} /\ {} # {"control"} /\ {} # {"treatment"}
  BY DEF Roles
<1>3. \E w \in {"control", "treatment", "tie", "unqualified"},
        basis \in {"verifier-pass-v1", "objective_verifier", "verifier_only"} :
        /\ Objective(passed, mode) = Verdict(w, basis)
        /\ w \in Roles => w \in passed
  <2>1. CASE passed = {"control"}
    BY <1>2, <2>1 DEF Objective, Roles
  <2>2. CASE passed = {"treatment"}
    BY <1>2, <2>2 DEF Objective, Roles
  <2>3. CASE passed = {}
    BY <1>2, <2>3 DEF Objective, Roles, Modes
  <2>4. CASE passed = Roles
    <3>1. mode # "judged"
      BY <2>4 DEF IsJudged
    <3>. QED  BY <1>2, <2>4, <3>1 DEF Objective, Roles, Modes
  <2>. QED  BY <1>1, <2>1, <2>2, <2>3, <2>4
<1>4. PICK w \in {"control", "treatment", "tie", "unqualified"},
           basis \in {"verifier-pass-v1", "objective_verifier", "verifier_only"} :
        /\ Objective(passed, mode) = Verdict(w, basis)
        /\ w \in Roles => w \in passed
  BY <1>3
<1>5. Objective(passed, mode) = [winner |-> w, basis |-> basis, bias |-> FALSE, completed |-> TRUE]
  BY <1>4 DEF Verdict
<1>. QED  BY <1>4, <1>5 DEF VerdictSet, Roles

\* A verdict is given once both arms returned, and is complete only for two
\* that completed.
VInv ==
  /\ run \in {"running", "finished", "aborted"}
  /\ verdict \in VerdictSet
  /\ verdict # NoVerdict => \A a \in Roles : arm[a].pc = "done"
  /\ verdict.completed =>
       /\ \A a \in Roles : arm[a].status = "completed"
       /\ Concurrent => Overlapped
       /\ verdict.winner \in Roles => arm[verdict.winner].passed
       /\ verdict.basis = "canonical_comparator" => \A a \in Roles : arm[a].passed

LEMMA VInit == Init => VInv
<1> SUFFICES ASSUME Init PROVE VInv
  OBVIOUS
<1>1. verdict = NoVerdict /\ run = "running"
  BY DEF Init
<1>. QED  BY <1>1 DEF VInv, NoVerdict, VerdictSet

LEMMA VConclude ==
  ASSUME LInv, VInv, Conclude
  PROVE  VInv'
<1>1. PICK mode \in Modes, differ \in BOOLEAN :
        LET passed == {a \in Roles : arm[a].passed}
            errors == \/ \E a \in Roles : arm[a].status # "completed"
                      \/ differ
                      \/ Concurrent /\ ~Overlapped
        IN \E answers : verdict' = VerdictOf(errors, passed, mode, answers)
  BY DEF Conclude
<1> DEFINE passed == {a \in Roles : arm[a].passed}
           errors == \/ \E a \in Roles : arm[a].status # "completed"
                     \/ differ
                     \/ Concurrent /\ ~Overlapped
<1>2. PICK answers : verdict' = VerdictOf(errors, passed, mode, answers)
  BY <1>1
<1>3. /\ UNCHANGED <<provider, arm, window, run>>
      /\ \A a \in Roles : arm[a].pc = "done"
  BY DEF Conclude
<1>4. passed \in SUBSET Roles /\ \A a \in Roles : arm[a].passed <=> a \in passed
  OBVIOUS
<1>5. ~errors => /\ \A a \in Roles : arm[a].status = "completed"
                 /\ Concurrent => Overlapped
  OBVIOUS
<1>. HIDE DEF passed, errors
<1>6. CASE errors
  <2>1. verdict' = [winner |-> "inconclusive", basis |-> "infrastructure_error",
                    bias |-> FALSE, completed |-> FALSE]
    BY <1>2, <1>6 DEF VerdictOf, Inconclusive, Verdict
  <2>2. verdict' \in VerdictSet /\ ~verdict'.completed
    BY <2>1 DEF VerdictSet
  <2>. QED  BY <1>3, <2>2 DEF VInv
<1>7. CASE ~errors /\ IsJudged(passed, mode)
  <2>1. verdict' = Judged(answers) /\ passed = Roles
    BY <1>2, <1>7 DEF VerdictOf, IsJudged
  <2>2. verdict' \in VerdictSet
    BY <2>1, JudgedFacts
  <2>3. \A a \in Roles : arm[a].passed
    BY <1>4, <2>1
  <2>. QED  BY <1>3, <1>5, <1>7, <2>2, <2>3 DEF VInv, Concurrent, Overlapped
<1>8. CASE ~errors /\ ~IsJudged(passed, mode)
  <2>1. verdict' = Objective(passed, mode)
    BY <1>2, <1>8 DEF VerdictOf
  <2>2. /\ verdict' \in VerdictSet
        /\ verdict'.basis # "canonical_comparator"
        /\ verdict'.winner \in Roles => arm[verdict'.winner].passed
    BY <1>4, <1>8, <2>1, ObjectiveFacts
  <2>. QED  BY <1>3, <1>5, <1>8, <2>2 DEF VInv, Concurrent, Overlapped
<1>. QED  BY <1>6, <1>7, <1>8

LEMMA VNext == LInv /\ VInv /\ [Next]_vars => VInv'
<1> SUFFICES ASSUME LInv, VInv, [Next]_vars PROVE VInv'
  OBVIOUS
<1>1. CASE UNCHANGED <<provider, arm, window, verdict>> /\ run' \in {"running", "finished", "aborted"}
  BY <1>1 DEF VInv, Concurrent, Overlapped
<1>2. ASSUME NEW a \in Roles, ArmStep(a) PROVE VInv'
  <2>1. arm[a].pc # "done" /\ UNCHANGED <<verdict, run>>
    BY <1>2 DEF ArmStep, StartSecond, Prepare, Plan, Arrive, Leave, Timeout, Broken, Waits, Start,
                Enter, Launch, Transmit, Callback, Answer, Account, Judge, Complete, Finally,
                Verify, Handler, Settle, Record, At, local
  <2>2. verdict = NoVerdict /\ ~verdict.completed
    BY <2>1 DEF VInv, NoVerdict
  <2>. QED  BY <2>1, <2>2 DEF VInv
<1>3. CASE Audit \/ Abort
  <2>1. UNCHANGED <<provider, arm, window, verdict>> /\ run' \in {"finished", "aborted"}
    BY <1>3 DEF Audit, Abort
  <2>. QED  BY <1>1, <2>1
<1>4. CASE UNCHANGED vars
  BY <1>1, <1>4 DEF vars, VInv
<1>. QED  BY <1>2, <1>3, <1>4, VConclude DEF Next, Ended

----------------------------------------------------------------------------
(* The theorems.                                                           *)

Inv == LInv /\ BInv /\ KInv /\ VInv

LEMMA Invariance == Spec => []Inv
<1>1. Init => Inv
  BY LocalInit, BInit, KInit, VInit DEF Inv
<1>2. Inv /\ [Next]_vars => Inv'
  BY LocalNext, BNext, KNext, VNext DEF Inv
<1>. QED  BY <1>1, <1>2, PTL DEF Spec

\* The types, and no arm reads the clock more than twice.
LEMMA InvTypes == Inv => TypeOK
<1> SUFFICES ASSUME Inv PROVE TypeOK
  OBVIOUS
<1>1. clock \in 0..4 /\ window \in [Roles -> [started : 0..4, finished : 0..4]]
  <2>1. Readings("control") \in 0..2 /\ Readings("treatment") \in 0..2
    BY DEF Readings, One
  <2>2. clock \in 0..4
    BY <2>1 DEF Inv, KInv
  <2>3. \A a \in Roles : window[a] \in [started : 0..4, finished : 0..4]
    BY <2>2 DEF Inv, KInv
  <2>. QED  BY <2>2, <2>3 DEF Inv, KInv
<1>2. \A a \in Roles : arm[a].pc \in {"record", "done"} => arm[a].status # "none"
  BY Here DEF Inv, Placed
<1>. QED  BY <1>1, <1>2 DEF Inv, LInv, BInv, BarrierSet, VInv, VerdictSet, ArmSet, TypeOK

THEOREM TypeCorrect == Spec => []TypeOK
  BY Invariance, InvTypes, PTL

\* Whatever the arms and the barrier do, both arms of a concurrent pair pass it
\* or neither does, and two completed calls overlapped.
THEOREM StartsTogether == Spec => []StartTogether
<1>1. Inv => StartTogether
  <2> SUFFICES ASSUME Inv, Concurrent PROVE StartTogether
    BY DEF StartTogether
  <2>1. \A a \in Roles : arm[a].synchronized =>
          ~barrier.broken /\ (arm[Peer(a)].synchronized \/ arm[Peer(a)].pc = "wait2")
    <3>1. \A a \in Roles : Peer(a) \in Roles
      BY DEF Peer, Roles
    <3>. QED  BY <3>1 DEF Inv, BInv
  <2>2. (\A a \in Roles : arm[a].status = "completed") =>
          \A a, b \in Roles : window[a].started <= window[b].finished
    BY DEF Inv, KInv
  <2>. QED  BY <2>1, <2>2 DEF StartTogether
<1>. QED  BY <1>1, Invariance, PTL

\* An arm that returns a result left its attempt resolved in the journal, the
\* way the result says.
THEOREM ReturnsAccounted == Spec => []ReturnedIsAccounted
<1>1. Inv => ReturnedIsAccounted
  <2> SUFFICES ASSUME Inv, NEW a \in Roles, arm[a].status # "none"
               PROVE  /\ arm[a].status = "completed" => phase[a] = "completed"
                      /\ arm[a].journal = "failed" =>
                           phase[a] = IF arm[a].dispatched THEN "failed_observed"
                                                           ELSE "failed_not_observed"
                      /\ phase[a] \notin {"planned", "dispatched"}
                      /\ phase[a] = "unknown" => ~arm[a].entered
    BY DEF ReturnedIsAccounted
  <2>1. /\ Ordered(arm[a], provider) /\ Placed(arm[a], provider)
        /\ Accounted(arm[a], phase[a], poisoned) /\ arm[a] \in ArmSet
    BY Here DEF Inv
  <2>2. arm[a].journal \in {"none", "completed", "failed"}
    BY <2>1 DEF Ordered
  <2>3. phase[a] = Expected(arm[a])
    BY <2>1 DEF Accounted
  <2>. QED  BY <2>1, <2>2, <2>3 DEF Expected, Ordered
<1>. QED  BY <1>1, Invariance, PTL

\* No prompt leaves before its attempt is planned, and Claude's not before it
\* is dispatched, in a journal that would survive.
THEOREM SentRecorded == Spec => []SentIsRecorded
<1>1. Inv => SentIsRecorded
  <2> SUFFICES ASSUME Inv, NEW a \in Roles, arm[a].sent
               PROVE  /\ phase[a] # "unknown"
                      /\ provider = "claude" => phase[a] \notin {"planned", "failed_not_observed"}
    BY DEF SentIsRecorded
  <2>1. /\ Ordered(arm[a], provider) /\ Accounted(arm[a], phase[a], poisoned)
        /\ arm[a] \in ArmSet
    BY Here DEF Inv
  <2>2. arm[a].journal # "none" /\ (provider = "claude" => arm[a].dispatched)
    BY <2>1 DEF Ordered
  <2>3. CASE phase[a] = Expected(arm[a])
    BY <2>1, <2>2, <2>3 DEF Expected, ArmSet
  <2>4. CASE phase[a] # Expected(arm[a])
    BY <2>1, <2>2, <2>4 DEF Accounted
  <2>. QED  BY <2>3, <2>4
<1>. QED  BY <1>1, Invariance, PTL

\* A transmitted prompt is never missing from the cost of a finished run.
THEOREM SentCosted == Spec => []SentIsCosted
<1>1. Inv => SentIsCosted
  BY Here DEF Inv, SentIsCosted, Costed, Ordered
<1>. QED  BY <1>1, Invariance, PTL

\* A completed pair compares two calls that took place on record, and its
\* winner passed its verifier.
THEOREM VerdictEarned == Spec => []VerdictIsEarned
<1>1. Inv => VerdictIsEarned
  <2> SUFFICES ASSUME Inv, verdict.completed PROVE VerdictIsEarned
    BY DEF VerdictIsEarned
  <2>1. ASSUME NEW a \in Roles
        PROVE  arm[a].sent /\ phase[a] = "completed"
    <3>1. arm[a].status = "completed" /\ arm[a].pc = "done"
      BY DEF Inv, VInv, NoVerdict
    <3>2. /\ Ordered(arm[a], provider) /\ phase[a] = Expected(arm[a])
      BY <3>1, Here, Agrees DEF Inv
    <3>. QED  BY <3>1, <3>2 DEF Ordered, Expected
  <2>. QED  BY <2>1 DEF Inv, VInv, VerdictIsEarned
<1>. QED  BY <1>1, Invariance, PTL
=============================================================================
