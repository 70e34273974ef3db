--------------------------- MODULE PlannedRunProofs ---------------------------
(***************************************************************************)
(* Runs that keep to a plan somebody may edit the subject of.              *)
(*                                                                         *)
(* A live run of the optimizer (OptimizerRun), for any number of proxies   *)
(* and any maximum, skills and trainer: how often Codex starts, what the   *)
(* published result says of it, and what a skill that qualified went       *)
(* through.                                                                *)
(*                                                                         *)
(* A sealed holdout plan (SealedPlan): whatever is edited and when, a      *)
(* completed pair was run on what the sealed plan names.  The document     *)
(* (PlanDocument): it is read as it was written.                           *)
(*                                                                         *)
(* The optimizer's plan (PilotPlan), for any request and world: the        *)
(* holdout it does not touch, the calls it announces, its JSON, and the    *)
(* score.                                                                  *)
(***************************************************************************)
EXTENDS OptimizerRun, SealedPlan, PilotPlan, FiniteSetTheorems, TLAPS

----------------------------------------------------------------------------
(* The counter.                                                            *)

Owning == {"locked", "read", "truncated", "written"}
ProxySet == [pc : {"none", "opened", "claimed", "running", "ended"} \cup Owning,
             epoch : Nat, claim : Nat, started : BOOLEAN]

\* Proxies whose claim reached the counter and that started, or may.
Counting(p) == proxy[p].started \/ proxy[p].pc \in {"written", "claimed", "running"}

BTypes ==
  /\ counter \in Nat \cup {Nil}
  /\ holder \in Proxies \cup {Nil}
  /\ proxy \in [Proxies -> ProxySet]
  /\ lost \in Nat

\* The lock is held by the one proxy that works on the counter.
Locked == \A p \in Proxies : holder = p <=> proxy[p].pc \in Owning

\* A claim that counts is the only one of its epoch with its number.
Tickets ==
  /\ \A p \in Proxies : Counting(p) => proxy[p].epoch \in 0 .. lost /\ proxy[p].claim \in 1 .. Maximum
  /\ \A p, q \in Proxies : Counting(p) /\ Counting(q) /\ p # q =>
       proxy[p].epoch # proxy[q].epoch \/ proxy[p].claim # proxy[q].claim

\* The claim being written is above all that count; so is the next one.
Ahead ==
  /\ \A p \in Proxies : proxy[p].pc \in {"read", "truncated"} =>
       proxy[p].epoch = lost /\ proxy[p].claim \in 1 .. Maximum /\ ~proxy[p].started
  /\ \A p \in Proxies : proxy[p].pc = "read" => proxy[p].claim = Used + 1
  /\ \A p \in Proxies : proxy[p].pc = "truncated" => counter = Nil
  /\ \A p, q \in Proxies :
       Counting(p) /\ proxy[p].epoch = lost /\ proxy[q].pc = "truncated" =>
         proxy[p].claim < proxy[q].claim
  /\ \A p \in Proxies :
       Counting(p) /\ proxy[p].epoch = lost /\ (\A q \in Proxies : proxy[q].pc # "truncated") =>
         counter # Nil /\ proxy[p].claim <= counter

BInv == BTypes /\ Locked /\ Tickets /\ Ahead

\* The count a proxy reads is a number, also of a blank file.
LEMMA UsedIsNat == ASSUME OptimizerAssumption, BTypes PROVE Used \in Nat
BY DEF OptimizerAssumption, BTypes, Used

\* The counter is blank, unlocked and unclaimed at first.
LEMMA BudgetInit == ASSUME OptimizerAssumption, OptimizerInit PROVE BInv
BY DEF OptimizerAssumption, OptimizerInit, BInv, BTypes, Locked, Tickets, Ahead, Counting, ProxySet, Owning

\* The state of a proxy that moves to another place with nothing else changed.
LEMMA BudgetMoves ==
  ASSUME BTypes, NEW p \in Proxies, NEW at, Go(p, at)
  PROVE  /\ proxy'[p] = [proxy[p] EXCEPT !.pc = at]
         /\ proxy'[p].pc = at /\ proxy'[p].epoch = proxy[p].epoch
         /\ proxy'[p].claim = proxy[p].claim /\ proxy'[p].started = proxy[p].started
         /\ \A q \in Proxies : q # p => proxy'[q] = proxy[q]
BY DEF BTypes, Go, ProxySet

\* A step that changes one proxy keeps the typing of all.
LEMMA Typing ==
  ASSUME BTypes, NEW p \in Proxies, NEW new \in ProxySet,
         proxy' = [proxy EXCEPT ![p] = new]
  PROVE  proxy' \in [Proxies -> ProxySet]
BY DEF BTypes

LEMMA MoveTyping ==
  ASSUME BTypes, NEW p \in Proxies, NEW at \in {"none", "opened", "claimed", "running", "ended"} \cup Owning,
         Go(p, at)
  PROVE  proxy' \in [Proxies -> ProxySet]
<1>1. [proxy[p] EXCEPT !.pc = at] \in ProxySet  BY DEF BTypes, ProxySet
<1>2. proxy' = [proxy EXCEPT ![p] = [proxy[p] EXCEPT !.pc = at]]  BY DEF Go, BTypes
<1> QED  BY <1>1, <1>2 DEF BTypes

\* A process that ends keeps the invariant, with the count or without it.
LEMMA EndsKeeps == ASSUME OptimizerAssumption, BInv, NEW p \in Proxies, Ends(p) PROVE BInv'
<1> USE DEF BInv
<1>m. Go(p, "ended")  BY DEF Ends
<1>1. /\ proxy'[p].pc = "ended" /\ proxy'[p].started = proxy[p].started
      /\ proxy'[p].epoch = proxy[p].epoch /\ proxy'[p].claim = proxy[p].claim
      /\ \A q \in Proxies : q # p => proxy'[q] = proxy[q]
  BY <1>m, BudgetMoves
<1>2. BTypes'
  <2>1. proxy' \in [Proxies -> ProxySet]  BY <1>m, MoveTyping
  <2> QED  BY <2>1 DEF BTypes, Ends, At
<1>3. \A q \in Proxies : Counting(q)' => Counting(q) /\ proxy'[q].epoch = proxy[q].epoch
                                         /\ proxy'[q].claim = proxy[q].claim
  BY <1>1 DEF Counting
<1>4. Locked'  BY <1>1 DEF Locked, Ends, OptimizerAssumption, Owning, BTypes
<1>5. lost \in Nat /\ lost' \in {lost, lost + 1}  BY DEF BTypes, Ends
<1>6. Tickets'
  <2>1. \A q \in Proxies : Counting(q)' => proxy'[q].epoch \in 0 .. lost' /\ proxy'[q].claim \in 1 .. Maximum
    BY <1>3, <1>5 DEF Tickets
  <2>2. \A q, r \in Proxies : Counting(q)' /\ Counting(r)' /\ q # r =>
          proxy'[q].epoch # proxy'[r].epoch \/ proxy'[q].claim # proxy'[r].claim
    BY <1>3 DEF Tickets
  <2> QED  BY <2>1, <2>2 DEF Tickets, Counting
<1>7. Ahead'
  <2>1. CASE At(p, "truncated")
    <3>1. lost' = lost + 1  BY <2>1 DEF Ends
    <3>2. \A q \in Proxies : proxy'[q].pc \notin {"read", "truncated"}
      BY <1>1, <2>1 DEF Locked, Owning, At
    <3>3. \A q \in Proxies : Counting(q)' => proxy'[q].epoch # lost'
      BY <1>3, <1>5, <3>1 DEF Tickets
    <3> QED  BY <3>2, <3>3 DEF Ahead, Counting
  <2>2. CASE ~At(p, "truncated")
    <3>1. lost' = lost /\ counter' = counter /\ Used' = Used  BY <2>2 DEF Ends, Used
    <3>2. \A q \in Proxies : (proxy[q].pc = "truncated") = (proxy'[q].pc = "truncated")
      BY <1>1, <2>2 DEF At
    <3>3. \A q \in Proxies : proxy'[q].pc \in {"read", "truncated"} => proxy'[q] = proxy[q]
      BY <1>1
    <3> QED  BY <1>3, <3>1, <3>2, <3>3 DEF Ahead, Counting
  <2> QED  BY <2>1, <2>2
<1> QED  BY <1>2, <1>4, <1>6, <1>7

\* What a move keeps of the invariant when the counter keeps its count and no
\* proxy becomes one that counts.
LEMMA MoveKeeps ==
  ASSUME BInv, NEW p \in Proxies,
         NEW at \in {"none", "opened", "claimed", "running", "ended"} \cup Owning,
         Go(p, at), lost' = lost, counter' = counter,
         at \notin {"read", "truncated"}, ~At(p, "truncated"),
         at \in {"written", "claimed", "running"} => Counting(p)
  PROVE  Tickets' /\ Ahead'
<1> USE DEF BInv
<1>1. /\ proxy'[p].pc = at /\ proxy'[p].started = proxy[p].started
      /\ proxy'[p].epoch = proxy[p].epoch /\ proxy'[p].claim = proxy[p].claim
      /\ \A q \in Proxies : q # p => proxy'[q] = proxy[q]
  BY BudgetMoves
<1>2. \A q \in Proxies : Counting(q)' => Counting(q) /\ proxy'[q].epoch = proxy[q].epoch
                                         /\ proxy'[q].claim = proxy[q].claim
  BY <1>1 DEF Counting
<1>3. Tickets'  BY <1>2 DEF Tickets, Counting
<1>4. Used' = Used  BY DEF Used
<1>5. \A q \in Proxies : (proxy[q].pc = "truncated") = (proxy'[q].pc = "truncated")
  BY <1>1 DEF At
<1>6. \A q \in Proxies : proxy'[q].pc \in {"read", "truncated"} => proxy'[q] = proxy[q]
  BY <1>1
<1>7. Ahead'  BY <1>2, <1>4, <1>5, <1>6 DEF Ahead, Counting
<1> QED  BY <1>3, <1>7

LEMMA SpawnKeeps == ASSUME BInv, NEW p \in Proxies, Spawn(p) PROVE BInv'
<1> USE DEF BInv
<1>1. Go(p, "opened") /\ lost' = lost /\ counter' = counter /\ holder' = holder /\ At(p, "none")
  BY DEF Spawn
<1>2. proxy' \in [Proxies -> ProxySet]  BY <1>1, MoveTyping
<1>3. BTypes'  BY <1>1, <1>2 DEF BTypes
<1>m. /\ proxy'[p].pc = "opened"
      /\ \A q \in Proxies : q # p => proxy'[q] = proxy[q]
  BY <1>1, BudgetMoves
<1>4. Locked'  BY <1>1, <1>m DEF Locked, Owning, At
<1>5. Tickets' /\ Ahead'  BY <1>1, MoveKeeps DEF At
<1> QED  BY <1>3, <1>4, <1>5

LEMMA LockKeeps == ASSUME OptimizerAssumption, BInv, NEW p \in Proxies, Lock(p) PROVE BInv'
<1> USE DEF BInv
<1>1. /\ Go(p, "locked") /\ lost' = lost /\ counter' = counter
      /\ holder = Nil /\ holder' = p /\ At(p, "opened")
  BY DEF Lock
<1>2. proxy' \in [Proxies -> ProxySet]  BY <1>1, MoveTyping DEF Owning
<1>3. BTypes'  BY <1>1, <1>2 DEF BTypes
<1>m. /\ proxy'[p].pc = "locked"
      /\ \A q \in Proxies : q # p => proxy'[q] = proxy[q]
  BY <1>1, BudgetMoves
<1>4. Locked'  BY <1>1, <1>m DEF Locked, Owning, OptimizerAssumption
<1>5. Tickets' /\ Ahead'  BY <1>1, MoveKeeps DEF At, Owning
<1> QED  BY <1>3, <1>4, <1>5

LEMMA ClaimKeeps == ASSUME OptimizerAssumption, BInv, NEW p \in Proxies, ClaimCall(p) PROVE BInv'
<1> USE DEF BInv
<1>1. CASE Used + 1 > Maximum
  BY <1>1, EndsKeeps DEF ClaimCall
<1>2. CASE ~(Used + 1 > Maximum)
  <2>1. /\ At(p, "locked") /\ lost' = lost /\ counter' = counter /\ holder' = holder
        /\ proxy' = [proxy EXCEPT ![p] = [pc |-> "read", epoch |-> lost, claim |-> Used + 1, started |-> FALSE]]
    BY <1>2 DEF ClaimCall
  <2>2. Used \in Nat /\ Used' = Used /\ Used + 1 \in 1 .. Maximum /\ lost \in Nat
    BY <2>1, <1>2, UsedIsNat DEF Used, OptimizerAssumption, BTypes
  <2>3. [pc |-> "read", epoch |-> lost, claim |-> Used + 1, started |-> FALSE] \in ProxySet
    BY <2>2 DEF ProxySet, Owning
  <2>4. BTypes'  BY <2>1, <2>3, Typing DEF BTypes
  <2>5. /\ proxy'[p].pc = "read" /\ proxy'[p].epoch = lost /\ proxy'[p].claim = Used + 1
        /\ ~proxy'[p].started
        /\ \A q \in Proxies : q # p => proxy'[q] = proxy[q]
    BY <2>1 DEF BTypes
  <2>6. Locked'  BY <2>1, <2>5 DEF Locked, Owning, At
  <2>7. \A q \in Proxies : Counting(q)' => q # p /\ Counting(q) /\ proxy'[q] = proxy[q]
    BY <2>5 DEF Counting
  <2>8. Tickets'  BY <2>1, <2>7 DEF Tickets, Counting
  <2>9. \A q \in Proxies : proxy'[q].pc # "truncated" /\ proxy[q].pc # "truncated"
    BY <2>1, <2>5 DEF Locked, Owning, At
  <2>10. Ahead'  BY <2>1, <2>2, <2>5, <2>7, <2>9 DEF Ahead, Counting
  <2> QED  BY <2>4, <2>6, <2>8, <2>10
<1> QED  BY <1>1, <1>2

LEMMA TruncateKeeps == ASSUME OptimizerAssumption, BInv, NEW p \in Proxies, Truncate(p) PROVE BInv'
<1> USE DEF BInv
<1>1. At(p, "read") /\ Go(p, "truncated") /\ counter' = Nil /\ holder' = holder /\ lost' = lost
  BY DEF Truncate
<1>2. BTypes'  BY <1>1, MoveTyping DEF BTypes, Owning
<1>3. /\ proxy'[p].pc = "truncated" /\ proxy'[p].started = proxy[p].started
      /\ proxy'[p].epoch = proxy[p].epoch /\ proxy'[p].claim = proxy[p].claim
      /\ \A q \in Proxies : q # p => proxy'[q] = proxy[q]
  BY <1>1, BudgetMoves
<1>4. Locked'  BY <1>1, <1>3 DEF Locked, Owning, At
<1>5. \A q \in Proxies : Counting(q)' => Counting(q) /\ proxy'[q].epoch = proxy[q].epoch
                                         /\ proxy'[q].claim = proxy[q].claim
  BY <1>3 DEF Counting
<1>6. Tickets'  BY <1>1, <1>5 DEF Tickets, Counting
<1>7. \A q \in Proxies : proxy[q].pc # "truncated" /\ (q # p => proxy'[q].pc \notin {"read", "truncated"})
  BY <1>1, <1>3 DEF Locked, Owning, At
<1>8. \A q \in Proxies : Counting(q) /\ proxy[q].epoch = lost => proxy[q].claim < proxy[p].claim
  <2> SUFFICES ASSUME NEW q \in Proxies, Counting(q), proxy[q].epoch = lost
               PROVE  proxy[q].claim < proxy[p].claim
    OBVIOUS
  <2>1. counter # Nil /\ proxy[q].claim <= counter  BY <1>7 DEF Ahead
  <2>2. proxy[p].claim = counter + 1  BY <2>1, <1>1 DEF Ahead, At, Used
  <2>3. proxy[q].claim \in Nat /\ counter \in Nat  BY <2>1 DEF BTypes, ProxySet
  <2> QED  BY <2>1, <2>2, <2>3
<1>9. Ahead'
  <2>1. \A q \in Proxies : proxy'[q].pc \in {"read", "truncated"} =>
          q = p /\ proxy'[q].epoch = lost' /\ proxy'[q].claim \in 1 .. Maximum /\ ~proxy'[q].started
    BY <1>1, <1>3, <1>7 DEF Ahead, At
  <2> QED  BY <1>1, <1>3, <1>5, <1>8, <2>1 DEF Ahead, Counting
<1> QED  BY <1>2, <1>4, <1>6, <1>9

LEMMA WriteKeeps == ASSUME OptimizerAssumption, BInv, NEW p \in Proxies, Write(p) PROVE BInv'
<1> USE DEF BInv
<1>1. /\ At(p, "truncated") /\ Go(p, "written") /\ counter' = proxy[p].claim
      /\ holder' = holder /\ lost' = lost
  BY DEF Write
<1>2. proxy[p].epoch = lost /\ proxy[p].claim \in 1 .. Maximum /\ ~proxy[p].started
  BY <1>1 DEF Ahead, At
<1>c. proxy[p].claim \in Nat /\ Maximum \in Nat /\ lost \in Nat
  BY DEF BTypes, ProxySet, OptimizerAssumption
<1>3. BTypes'  BY <1>1, <1>c, MoveTyping DEF BTypes, Owning
<1>4. /\ proxy'[p].pc = "written" /\ proxy'[p].started = proxy[p].started
      /\ proxy'[p].epoch = proxy[p].epoch /\ proxy'[p].claim = proxy[p].claim
      /\ \A q \in Proxies : q # p => proxy'[q] = proxy[q]
  BY <1>1, BudgetMoves
<1>5. Locked'  BY <1>1, <1>4 DEF Locked, Owning, At
<1>6. \A q \in Proxies : Counting(q)' => q = p \/ Counting(q)
  BY <1>4 DEF Counting
<1>7. \A q \in Proxies : proxy'[q].epoch = proxy[q].epoch /\ proxy'[q].claim = proxy[q].claim
  BY <1>4
<1>8. \A q \in Proxies : Counting(q) /\ proxy[q].epoch = lost => proxy[q].claim < proxy[p].claim
  BY <1>1 DEF Ahead, At
<1>9. \A q \in Proxies : proxy[q].epoch \in Nat /\ proxy[q].claim \in Nat
  BY DEF BTypes, ProxySet
<1>10. Tickets'
  <2>1. \A q \in Proxies : Counting(q)' => proxy'[q].epoch \in 0 .. lost' /\ proxy'[q].claim \in 1 .. Maximum
    BY <1>1, <1>2, <1>c, <1>6, <1>7 DEF Tickets
  <2>2. \A q, r \in Proxies : Counting(q)' /\ Counting(r)' /\ q # r =>
          proxy'[q].epoch # proxy'[r].epoch \/ proxy'[q].claim # proxy'[r].claim
    BY <1>2, <1>6, <1>7, <1>8, <1>9 DEF Tickets
  <2> QED  BY <2>1, <2>2 DEF Tickets, Counting
<1>11. Ahead'
  <2>1. \A q \in Proxies : proxy'[q].pc \notin {"read", "truncated"}
    BY <1>1, <1>4 DEF Locked, Owning, At
  <2>2. counter' # Nil /\ \A q \in Proxies : Counting(q)' /\ proxy'[q].epoch = lost' => proxy'[q].claim <= counter'
    BY <1>1, <1>c, <1>6, <1>7, <1>8, <1>9 DEF OptimizerAssumption
  <2> QED  BY <2>1, <2>2 DEF Ahead, Counting
<1> QED  BY <1>3, <1>5, <1>10, <1>11

LEMMA SyncKeeps == ASSUME OptimizerAssumption, BInv, NEW p \in Proxies, Sync(p) PROVE BInv'
<1> USE DEF BInv
<1>1. At(p, "written") /\ Go(p, "claimed") /\ holder' = Nil /\ lost' = lost /\ counter' = counter
  BY DEF Sync
<1>2. BTypes'  BY <1>1, MoveTyping DEF BTypes
<1>m. /\ proxy'[p].pc = "claimed"
      /\ \A q \in Proxies : q # p => proxy'[q] = proxy[q]
  BY <1>1, BudgetMoves
<1>3. Locked'  BY <1>1, <1>m DEF Locked, Owning, At, OptimizerAssumption
<1>4. Counting(p)  BY <1>1 DEF Counting, At
<1>5. Tickets' /\ Ahead'  BY <1>1, <1>4, MoveKeeps DEF At
<1> QED  BY <1>2, <1>3, <1>5

LEMMA StartKeeps == ASSUME OptimizerAssumption, BInv, NEW p \in Proxies, Start(p) PROVE BInv'
<1> USE DEF BInv
<1>1. /\ At(p, "claimed") /\ holder' = holder /\ lost' = lost /\ counter' = counter
      /\ proxy' = [proxy EXCEPT ![p].pc = "running", ![p].started = TRUE]
  BY DEF Start
<1>c. lost' = lost /\ counter' = counter  BY <1>1
<1>n. \A q \in Proxies : proxy[q] \in ProxySet  BY DEF BTypes
<1>2. [proxy[p] EXCEPT !.pc = "running", !.started = TRUE] \in ProxySet
  BY <1>n DEF ProxySet
<1>3. proxy' = [proxy EXCEPT ![p] = [proxy[p] EXCEPT !.pc = "running", !.started = TRUE]]
  BY <1>1, <1>n DEF BTypes, ProxySet
<1>4. BTypes'  BY <1>1, <1>2, <1>3, Typing DEF BTypes
<1>5. /\ proxy'[p].pc = "running" /\ proxy'[p].epoch = proxy[p].epoch /\ proxy'[p].claim = proxy[p].claim
      /\ \A q \in Proxies : q # p => proxy'[q] = proxy[q]
  BY <1>1, <1>n DEF BTypes, ProxySet
<1>6. Locked'  BY <1>1, <1>5 DEF Locked, Owning, At
<1>7. \A q \in Proxies : Counting(q)' => Counting(q) /\ proxy'[q].epoch = proxy[q].epoch
                                         /\ proxy'[q].claim = proxy[q].claim
  BY <1>1, <1>5 DEF Counting, At
<1>8. Tickets'  BY <1>c, <1>7 DEF Tickets, Counting
<1>9. /\ Used' = Used
      /\ \A q \in Proxies : (proxy[q].pc = "truncated") = (proxy'[q].pc = "truncated")
      /\ \A q \in Proxies : proxy'[q].pc \in {"read", "truncated"} => proxy'[q] = proxy[q]
  BY <1>1, <1>5 DEF Used, At
<1>10. Ahead'  BY <1>c, <1>7, <1>9 DEF Ahead, Counting
<1> QED  BY <1>4, <1>6, <1>8, <1>10

\* Nothing but a proxy touches the budget.
LEMMA BudgetUnchanged == ASSUME BInv, UNCHANGED budget PROVE BInv'
BY DEF BInv, BTypes, Locked, Tickets, Ahead, Counting, Used, budget

LEMMA BudgetStep == ASSUME OptimizerAssumption, BInv, [OptimizerNext]_optimizerVars PROVE BInv'
<1>1. ASSUME NEW p \in Proxies,
             \/ Spawn(p) \/ Lock(p) \/ ClaimCall(p) \/ Truncate(p) \/ Write(p) \/ Sync(p) \/ Start(p)
             \/ Stop(p)
      PROVE  BInv'
  BY <1>1, SpawnKeeps, LockKeeps, ClaimKeeps, TruncateKeeps, WriteKeeps, SyncKeeps, StartKeeps,
     EndsKeeps DEF Stop
<1>2. CASE UNCHANGED budget  BY <1>2, BudgetUnchanged
<1>3. OptimizerNext => UNCHANGED budget \/
        \E p \in Proxies : \/ Spawn(p) \/ Lock(p) \/ ClaimCall(p) \/ Truncate(p) \/ Write(p) \/ Sync(p)
                           \/ Start(p) \/ Stop(p)
  BY DEF OptimizerNext, Load, Rollout, Finalize, Exit, SidecarFails, Collect, Revalidate, Validate,
         Certify, CliStops, Publish, Drift, Undo
<1>4. UNCHANGED optimizerVars => UNCHANGED budget  BY DEF optimizerVars, budget
<1> QED  BY <1>1, <1>2, <1>3, <1>4

----------------------------------------------------------------------------
(* The trainer and the command line.                                       *)

\* Where the command line has judged the result.
Judging == {"unchanged", "certifying", "passed", "rejected", "published"}

\* The skill the last rollout evaluated is the best, and new.
Chosen ==
  /\ report.best \in Valid \ {Seed}
  /\ [i \in 1 .. Len(rollouts) |-> rollouts[i].skill] = <<Seed, Seed, report.best>>

\* The result repeats the rollouts, and what the command line has seen of both,
\* and of the counter, no longer changes.
RunSettled ==
  /\ sidecar \in {"finalized", "exited"} => report.runs = rollouts /\ report.used \in Nat
  /\ cli # "launched" => Reaped /\ sidecar \in {"exited", "failed"}
  /\ cli \in {"collected", "revalidated"} \cup Judging => sidecar = "exited"
  /\ cli \in Judging => counter = report.used
  /\ cli \in {"certifying", "passed"} \/ verdict = "qualified" => Chosen
  /\ verdict # Nil => cli = "published"

\* Evidence of other sources that did not come back after it is evidence of a
\* drift that is still there, and neither comparison lets it through.
Clean == (~drift => tainted \subseteq undone) /\ NoStaleEvidence

CInv == RunSettled /\ Clean

LEMMA JudgedInit == ASSUME OptimizerAssumption, OptimizerInit PROVE CInv
BY DEF OptimizerAssumption, OptimizerInit, CInv, RunSettled, Clean, NoStaleEvidence, Judging

\* Once the command line has the result, no process of the sidecar acts.
LEMMA Frozen ==
  ASSUME RunSettled, cli # "launched", OptimizerNext
  PROVE  UNCHANGED <<budget, training>>
<1>1. Reaped /\ sidecar \in {"exited", "failed"}  BY DEF RunSettled
<1>2. ASSUME NEW p \in Proxies,
             \/ Spawn(p) \/ Lock(p) \/ ClaimCall(p) \/ Truncate(p) \/ Write(p) \/ Sync(p) \/ Start(p)
             \/ Stop(p)
      PROVE  FALSE
  BY <1>1, <1>2 DEF Reaped, At, Spawn, Lock, ClaimCall, Truncate, Write, Sync, Start, Stop
<1>3. ASSUME NEW skill, NEW batch, NEW hard, Rollout(skill, batch, hard) PROVE FALSE
  BY <1>1, <1>3 DEF Rollout
<1>4. ASSUME NEW best, NEW summary, Finalize(best, summary) PROVE FALSE
  BY <1>1, <1>4 DEF Finalize
<1>5. ~Load /\ ~Exit /\ ~SidecarFails  BY <1>1 DEF Load, Exit, SidecarFails
<1>6. Collect \/ Revalidate \/ Validate \/ CliStops \/ Publish \/ Drift \/ Undo
        => UNCHANGED <<budget, training>>
  BY DEF Collect, Revalidate, Validate, CliStops, Publish, Drift, Undo
<1>7. ASSUME NEW passed, Certify(passed) PROVE UNCHANGED <<budget, training>>
  BY <1>7 DEF Certify
<1> QED  BY <1>2, <1>3, <1>4, <1>5, <1>6, <1>7 DEF OptimizerNext

\* The trainer's report is of the rollouts that were made.
LEMMA Agreed ==
  ASSUME RunsAgree(report), report.runs = rollouts, report.best \in Valid, report.best # Seed
  PROVE  Chosen
<1>1. Len(rollouts) = 3 /\ rollouts[1].skill = Seed /\ rollouts[2].skill = Seed
      /\ rollouts[3].skill = report.best
  BY DEF RunsAgree
<1>2. [i \in 1 .. 3 |-> rollouts[i].skill] = <<Seed, Seed, report.best>>  BY <1>1
<1> QED  BY <1>1, <1>2 DEF Chosen

\* The steps of the sidecar and of its proxies happen before the command line
\* has anything.
LEMMA TrainingKeeps ==
  ASSUME OptimizerAssumption, BInv, RunSettled, cli = "launched", UNCHANGED judging,
         sidecar' \in {"finalized", "exited"} => report'.runs = rollouts' /\ report'.used \in Nat
  PROVE  RunSettled'
BY DEF OptimizerAssumption, RunSettled, judging, Judging

LEMMA RunSettledStep == ASSUME OptimizerAssumption, BInv, RunSettled, [OptimizerNext]_optimizerVars PROVE RunSettled'
<1>1. CASE UNCHANGED optimizerVars
  BY <1>1 DEF optimizerVars, RunSettled, Chosen, Reaped
<1>2. CASE OptimizerNext /\ cli = "launched" /\ UNCHANGED judging
  <2>1. sidecar' \in {"finalized", "exited"} => report'.runs = rollouts' /\ report'.used \in Nat
    <3>1. ASSUME NEW p \in Proxies,
                 \/ Spawn(p) \/ Lock(p) \/ ClaimCall(p) \/ Truncate(p) \/ Write(p) \/ Sync(p) \/ Start(p)
                 \/ Stop(p)
          PROVE  UNCHANGED training
      BY <3>1 DEF Spawn, Lock, ClaimCall, Truncate, Write, Sync, Start, Stop
    <3>2. ASSUME NEW skill, NEW batch, NEW hard, Rollout(skill, batch, hard)
          PROVE  sidecar' = "training"
      BY <3>2 DEF Rollout
    <3>3. ASSUME NEW best, NEW summary, Finalize(best, summary)
          PROVE  report'.runs = rollouts' /\ report'.used \in Nat
      <4>1. Used \in Nat  BY UsedIsNat DEF BInv
      <4> QED  BY <3>3, <4>1 DEF Finalize
    <3>4. Exit => sidecar = "finalized" /\ report' = report /\ rollouts' = rollouts
      BY DEF Exit
    <3>5. /\ SidecarFails => sidecar' = "failed"
          /\ Load => sidecar' \in {"training", "failed"}
      BY DEF SidecarFails, Load
    <3>6. Collect \/ Revalidate \/ Validate \/ CliStops \/ Publish \/ Drift \/ Undo => UNCHANGED training
      BY DEF Collect, Revalidate, Validate, CliStops, Publish, Drift, Undo
    <3>7. ASSUME NEW passed, Certify(passed) PROVE UNCHANGED training
      BY <3>7 DEF Certify
    <3> QED  BY <1>2, <3>1, <3>2, <3>3, <3>4, <3>5, <3>6, <3>7 DEF OptimizerNext, RunSettled, training
  <2> QED  BY <1>2, <2>1, TrainingKeeps
<1>3. CASE OptimizerNext /\ cli = "launched" /\ ~UNCHANGED judging
  <2>1. Collect
    <3>1. ASSUME NEW p \in Proxies,
                 \/ Spawn(p) \/ Lock(p) \/ ClaimCall(p) \/ Truncate(p) \/ Write(p) \/ Sync(p) \/ Start(p)
                 \/ Stop(p)
          PROVE  UNCHANGED judging
      BY <3>1 DEF Spawn, Lock, ClaimCall, Truncate, Write, Sync, Start, Stop
    <3>2. ASSUME NEW skill, NEW batch, NEW hard, Rollout(skill, batch, hard) PROVE UNCHANGED judging
      BY <3>2 DEF Rollout
    <3>3. ASSUME NEW best, NEW summary, Finalize(best, summary) PROVE UNCHANGED judging
      BY <3>3 DEF Finalize
    <3>4. Load \/ Exit \/ SidecarFails \/ Drift \/ Undo => UNCHANGED judging
      BY DEF Load, Exit, SidecarFails, Drift, Undo
    <3>5. ~Revalidate /\ ~Validate /\ ~CliStops /\ ~Publish
      BY <1>3 DEF Revalidate, Validate, CliStops, Publish
    <3>6. ASSUME NEW passed, Certify(passed) PROVE FALSE
      BY <1>3, <3>6 DEF Certify
    <3> QED  BY <1>3, <3>1, <3>2, <3>3, <3>4, <3>5, <3>6 DEF OptimizerNext
  <2>2. Reaped /\ UNCHANGED <<budget, training>> /\ verdict' = verdict
        /\ sidecar \in {"exited", "failed"} /\ verdict = Nil
        /\ ((cli' = "collected" /\ sidecar = "exited") \/ cli' = "failed")
    BY <1>3, <2>1 DEF Collect, CliFails, RunSettled
  <2>3. Reaped'  BY <2>2 DEF Reaped, budget
  <2> QED  BY <2>2, <2>3 DEF RunSettled, Judging, training, OptimizerAssumption
<1>4. CASE OptimizerNext /\ cli # "launched"
  <2>1. /\ Reaped /\ Reaped' /\ sidecar \in {"exited", "failed"} /\ sidecar' = sidecar
        /\ counter' = counter /\ report' = report /\ rollouts' = rollouts
    BY <1>4, Frozen DEF RunSettled, Reaped, budget, training
  <2>2. Chosen' = Chosen  BY <2>1 DEF Chosen
  <2>c. CASE UNCHANGED judging
    BY <2>1, <2>2, <2>c DEF RunSettled, judging
  <2>f. CASE CliFails /\ cli # "published"
    BY <2>1, <2>2, <2>f DEF RunSettled, CliFails, Judging, OptimizerAssumption
  <2>3. CASE Revalidate
    BY <2>1, <2>2, <2>3, <2>f DEF Revalidate, RunSettled, Judging, OptimizerAssumption
  <2>4. CASE Validate
    <3>1. CASE RunsAgree(report) /\ BudgetAgrees(report) /\ report.best \in Valid
      <4>1. cli = "revalidated" /\ verdict = Nil /\ verdict' = verdict /\ sidecar = "exited"
            /\ cli' = (IF report.best = Seed THEN "unchanged" ELSE "certifying")
        BY <2>4, <3>1 DEF Validate, RunSettled
      <4>2. report.best # Seed => Chosen  BY <3>1, <4>1, Agreed DEF RunSettled
      <4>3. counter = report.used  BY <3>1 DEF BudgetAgrees
      <4> QED  BY <2>1, <2>2, <4>1, <4>2, <4>3 DEF RunSettled, Judging, OptimizerAssumption
    <3>2. CASE ~(RunsAgree(report) /\ BudgetAgrees(report) /\ report.best \in Valid)
      BY <2>4, <2>f, <3>2 DEF Validate
    <3> QED  BY <3>1, <3>2
  <2>5. ASSUME NEW passed, Certify(passed) PROVE RunSettled'
    BY <2>1, <2>2, <2>5 DEF Certify, RunSettled, Judging, OptimizerAssumption
  <2>6. CASE CliStops
    BY <2>6, <2>f DEF CliStops
  <2>7. CASE Publish
    BY <2>1, <2>2, <2>7, <2>f DEF Publish, RunSettled, Judging, OptimizerAssumption
  <2>8. CASE Drift \/ Undo  BY <2>8, <2>c DEF Drift, Undo
  <2>9. ~Collect  BY <1>4 DEF Collect
  <2>10. ASSUME NEW p \in Proxies,
                \/ Spawn(p) \/ Lock(p) \/ ClaimCall(p) \/ Truncate(p) \/ Write(p) \/ Sync(p) \/ Start(p)
                \/ Stop(p)
         PROVE  UNCHANGED judging
    BY <2>10 DEF Spawn, Lock, ClaimCall, Truncate, Write, Sync, Start, Stop
  <2>11. ASSUME NEW skill, NEW batch, NEW hard, Rollout(skill, batch, hard) PROVE UNCHANGED judging
    BY <2>11 DEF Rollout
  <2>12. ASSUME NEW best, NEW summary, Finalize(best, summary) PROVE UNCHANGED judging
    BY <2>12 DEF Finalize
  <2>13. Load \/ Exit \/ SidecarFails => UNCHANGED judging  BY DEF Load, Exit, SidecarFails
  <2> QED  BY <1>4, <2>c, <2>3, <2>4, <2>5, <2>6, <2>7, <2>8, <2>9, <2>10, <2>11, <2>12, <2>13 DEF OptimizerNext
<1> QED  BY <1>1, <1>2, <1>3, <1>4

LEMMA CleanStep == ASSUME OptimizerAssumption, CInv, [OptimizerNext]_optimizerVars PROVE Clean'
<1> USE DEF CInv, NoStaleEvidence
<1> DEFINE Judged == {"revalidated", "unchanged", "certifying", "passed", "rejected", "published"}
<1>1. CASE UNCHANGED <<subject, verdict>> /\ (cli' \in Judged => cli \in Judged)
  BY <1>1 DEF Clean, subject
<1>2. ASSUME NEW skill, NEW batch, NEW hard, Rollout(skill, batch, hard) PROVE Clean'
  <2>1. cli = "launched" /\ UNCHANGED judging /\ verdict = Nil
    BY <1>2 DEF Rollout, RunSettled
  <2> QED  BY <1>2, <2>1 DEF Rollout, Evaluated, Clean, judging
<1>3. ASSUME NEW passed, Certify(passed) PROVE Clean'
  <2>1. cli = "certifying" /\ verdict = Nil /\ verdict' = Nil
    BY <1>3 DEF Certify, RunSettled
  <2> QED  BY <1>3, <2>1 DEF Certify, Evaluated, Clean
<1>4. CASE Publish
  BY <1>4 DEF Publish, PlanHolds, CliFails, Clean, subject
<1>5. CASE Drift
  BY <1>5 DEF Drift, Clean, judging
<1>u. CASE Undo
  BY <1>u DEF Undo, Clean, judging
<1>v. CASE Revalidate
  BY <1>v DEF Revalidate, PlanHolds, CliFails, Clean, subject
<1>6. Load \/ Collect \/ Validate \/ CliStops \/ Exit \/ SidecarFails
        => UNCHANGED <<subject, verdict>> /\ (cli' \in Judged => cli \in Judged)
  BY DEF Load, Collect, Validate, CliStops, CliFails, Exit, SidecarFails, judging
<1>7. ASSUME NEW p \in Proxies,
             \/ Spawn(p) \/ Lock(p) \/ ClaimCall(p) \/ Truncate(p) \/ Write(p) \/ Sync(p) \/ Start(p)
             \/ Stop(p)
      PROVE  UNCHANGED <<subject, verdict, cli>>
  BY <1>7 DEF Spawn, Lock, ClaimCall, Truncate, Write, Sync, Start, Stop, judging
<1>8. ASSUME NEW best, NEW summary, Finalize(best, summary) PROVE UNCHANGED <<subject, verdict, cli>>
  BY <1>8 DEF Finalize, judging
<1>9. UNCHANGED optimizerVars => UNCHANGED <<subject, verdict, cli>>  BY DEF optimizerVars, subject
<1> QED  BY <1>1, <1>2, <1>3, <1>4, <1>5, <1>u, <1>v, <1>6, <1>7, <1>8, <1>9 DEF OptimizerNext

OInv == BInv /\ CInv

LEMMA BudgetInductive == ASSUME OptimizerAssumption PROVE OptimizerSpec => []OInv
<1>1. OptimizerInit => OInv  BY BudgetInit, JudgedInit DEF OInv
<1>2. OInv /\ [OptimizerNext]_optimizerVars => OInv'  BY BudgetStep, RunSettledStep, CleanStep DEF OInv, CInv
<1> QED  BY <1>1, <1>2, PTL DEF OptimizerSpec

----------------------------------------------------------------------------
(* The theorems.                                                           *)

\* A proxy that started holds one of the claims of one of the counts.
LEMMA StartsHoldClaims ==
  ASSUME OptimizerAssumption, BInv
  PROVE  StartsAreBounded
<1> USE DEF BInv
<1> DEFINE T == (0 .. lost) \X (1 .. Maximum)
           f == [p \in Started |-> <<proxy[p].epoch, proxy[p].claim>>]
<1>1. lost \in Nat /\ Maximum \in Nat  BY DEF BTypes, OptimizerAssumption
<1>2. /\ IsFiniteSet(0 .. lost) /\ Cardinality(0 .. lost) = lost + 1
      /\ IsFiniteSet(1 .. Maximum) /\ Cardinality(1 .. Maximum) = Maximum
  BY <1>1, FS_Interval
<1>3. IsFiniteSet(T) /\ Cardinality(T) = (lost + 1) * Maximum
  <2>1. IsFiniteSet(T) /\ Cardinality(T) = Cardinality(0 .. lost) * Cardinality(1 .. Maximum)
    BY <1>2, FS_Product, ZenonT(30)
  <2> HIDE DEF T
  <2> QED  BY <1>2, <2>1, ZenonT(30)
<1>4. \A p \in Started : Counting(p) /\ p \in Proxies  BY DEF Started, Counting
<1>5. \A p \in Started : proxy[p].epoch \in 0 .. lost /\ proxy[p].claim \in 1 .. Maximum
  BY <1>4 DEF Tickets
<1>6. f \in [Started -> T]  BY <1>5
<1>7. \A p, q \in Started : f[p] = f[q] => p = q  BY <1>4 DEF Tickets
<1> HIDE DEF T, f
<1>8. f \in Injection(Started, T)  BY <1>6, <1>7 DEF Injection, IsInjective
<1>9. Cardinality(Started) <= Cardinality(T)  BY <1>3, <1>8, FS_Injection
<1> QED  BY <1>3, <1>9 DEF StartsAreBounded

\* With a count that was never lost, no start is missing from it.
LEMMA StartsAreCounted ==
  ASSUME OptimizerAssumption, BInv, Reaped, lost = 0, counter \in Nat
  PROVE  Cardinality(Started) <= counter
<1> USE DEF BInv
<1> DEFINE f == [p \in Started |-> proxy[p].claim]
<1>1. IsFiniteSet(1 .. counter) /\ Cardinality(1 .. counter) = counter
  BY FS_Interval
<1>2. \A p \in Started : Counting(p) /\ p \in Proxies  BY DEF Started, Counting
<1>3. \A p \in Started : proxy[p].epoch = lost /\ proxy[p].claim \in Nat \ {0}
  <2>1. \A p \in Started : proxy[p].epoch \in 0 .. lost /\ proxy[p].claim \in 1 .. Maximum
    BY <1>2 DEF Tickets
  <2> QED  BY <2>1 DEF OptimizerAssumption
<1>4. \A p \in Proxies : proxy[p].pc # "truncated"  BY DEF Reaped
<1>5. \A p \in Started : proxy[p].claim <= counter
  BY <1>2, <1>3, <1>4 DEF Ahead
<1>6. f \in [Started -> 1 .. counter]  BY <1>3, <1>5
<1>7. \A p, q \in Started : f[p] = f[q] => p = q  BY <1>2, <1>3 DEF Tickets
<1> HIDE DEF f
<1>8. f \in Injection(Started, 1 .. counter)  BY <1>6, <1>7 DEF Injection, IsInjective
<1> QED  BY <1>1, <1>8, FS_Injection

\* Codex starts at most the planned number of times, and that often again for
\* every proxy that died between emptying the counter and writing it: the lock,
\* the claim and the write of _claim_invocation, for any number of proxies.
THEOREM StartsBounded ==
  ASSUME OptimizerAssumption
  PROVE  OptimizerSpec => []StartsAreBounded
<1>1. OInv => StartsAreBounded  BY StartsHoldClaims DEF OInv
<1> QED  BY <1>1, BudgetInductive, PTL

\* What _finalize_optimizer_budget and _validate_optimizer_budget read is final
\* when a status is published: no proxy is left, and a count that was never lost
\* holds every start.
THEOREM CountWhole ==
  ASSUME OptimizerAssumption
  PROVE  OptimizerSpec => []CountIsWhole
<1>1. ASSUME OInv PROVE CountIsWhole
  <2> SUFFICES ASSUME verdict # Nil
               PROVE  Reaped /\ (lost = 0 => Cardinality(Started) <= report.used)
    BY DEF CountIsWhole
  <2>1. Reaped /\ counter = report.used /\ report.used \in Nat
    BY <1>1 DEF OInv, CInv, RunSettled, Judging
  <2> QED  BY <1>1, <2>1, StartsAreCounted DEF OInv
<1> QED  BY <1>1, BudgetInductive, PTL

\* An edit reaches a status only if it was taken back in time: revalidate_plan
\* compares what is there now, before the inner runs are judged and once more
\* before the status is published, so no candidate is certified on rollouts of
\* other sources unless the plan's came back after them, nor a status published
\* on a certification of others unless they came back after it.
THEOREM EvidenceIsFresh ==
  ASSUME OptimizerAssumption
  PROVE  OptimizerSpec => []NoStaleEvidence
<1>1. OInv => NoStaleEvidence  BY DEF OInv, CInv, Clean, NoStaleEvidence
<1> QED  BY <1>1, BudgetInductive, PTL

\* _validate_inner_runs leaves a trainer no way to have a skill qualified that
\* is not the one it evaluated last, after the two rollouts of the seed.
THEOREM SelectedQualifies ==
  ASSUME OptimizerAssumption
  PROVE  OptimizerSpec => []QualifiedWasSelected
<1>1. OInv => QualifiedWasSelected
  BY DEF OInv, CInv, RunSettled, Chosen, QualifiedWasSelected
<1> QED  BY <1>1, BudgetInductive, PTL

----------------------------------------------------------------------------
(* The sealed plan.                                                        *)
(*                                                                         *)
(* The argument is about values that do not come back.  If a file has not  *)
(* taken an earlier content again and has the content now that it had when *)
(* it was recorded, then it had that content all the time in between, and  *)
(* so had whatever was read from it then.  Every check of the runner makes *)
(* the premise true for a moment, which is enough for what was read before *)
(* that moment.  The invariant says this for each thing that is read.      *)

LEMMA VariantType ==
  ASSUME SealedPlanAssumption, NEW p \in Pairs, NEW r \in Roles
  PROVE  VariantOf(p, r) \in Variants /\ CaseOf[p] \in Cases
BY DEF SealedPlanAssumption, VariantOf, Roles

LEMMA TypeInit ==
  ASSUME SealedPlanAssumption, Init
  PROVE  TypeOK
<1>1. pin \in PinType
  BY DEF Init, Unpinned, PinType, Maybe
<1>2. arm \in [Roles -> ArmType]
  BY DEF Init, Idle, NoArm, ArmType, ArmStages, Maybe
<1> QED  BY <1>1, <1>2 DEF Init, TypeOK, Stages, Maybe, Nothing

LEMMA TypeEdit ==
  ASSUME SealedPlanAssumption, TypeOK, Edit
  PROVE  TypeOK'
<1>1. ASSUME NEW c \in Cases, NEW b \in Bytes, EditTree(c, b)  PROVE TypeOK'
  BY <1>1 DEF EditTree, TypeOK, running
<1>2. ASSUME NEW v \in Worktree, NEW c \in Cases, NEW b \in Bytes, EditWork(v, c, b)
      PROVE  TypeOK'
  <2>1. work' \in [Worktree -> [Cases -> Bytes]]  BY <1>2 DEF EditWork, TypeOK
  <2>2. pastWork[v] \in [Cases -> SUBSET Bytes]  BY DEF TypeOK
  <2>3. [pastWork[v] EXCEPT ![c] = pastWork[v][c] \cup {b}] \in [Cases -> SUBSET Bytes]
    BY <2>2
  <2>4. pastWork' \in [Worktree -> [Cases -> SUBSET Bytes]]
    BY <1>2, <2>3 DEF EditWork, TypeOK
  <2> QED  BY <1>2, <2>1, <2>4 DEF EditWork, TypeOK, running
<1>3. ASSUME NEW v \in Worktree, NEW k \in Commits, MoveHead(v, k)  PROVE TypeOK'
  BY <1>3 DEF MoveHead, TypeOK, running
<1>4. ASSUME NEW c \in Cases, NEW b \in Bytes, EditTools(c, b)  PROVE TypeOK'
  BY <1>4 DEF EditTools, TypeOK, running, history
<1>5. ASSUME NEW v \in Repositories, NEW k \in Commits, MoveRef(v, k)  PROVE TypeOK'
  BY <1>5 DEF MoveRef, TypeOK, running, history
<1>6. CASE EditSuite \/ EditPlan  BY <1>6 DEF EditSuite, EditPlan, TypeOK, running, history
<1> QED  BY <1>1, <1>2, <1>3, <1>4, <1>5, <1>6 DEF Edit

LEMMA UnpinnedType ==
  ASSUME TypeOK
  PROVE  Unpinned \in PinType
BY DEF Unpinned, PinType, Maybe

LEMMA TypeControl ==
  ASSUME SealedPlanAssumption, TypeOK,
         Begin \/ Raise \/ Die \/ AssertManifest \/ LoadRuntime \/ AssertSources
         \/ LoadPlan \/ BindPlan \/ Prepare \/ AssertAgain \/ Claim \/ Return
  PROVE  TypeOK'
<1>1. CASE Begin
  <2>1. arm' \in [Roles -> ArmType]
    BY <1>1 DEF Begin, Idle, NoArm, ArmType, ArmStages, Maybe
  <2>2. pastTree' \in [Cases -> SUBSET Bytes]
    BY <1>1 DEF Begin, TypeOK
  <2>3. pastWork' \in [Worktree -> [Cases -> SUBSET Bytes]]
    BY <1>1 DEF Begin, TypeOK
  <2>4. pair' \in Maybe(Pairs) /\ given' \in [prompt : Maybe(Bytes), base : Maybe(Bytes)]
    BY <1>1 DEF Begin, Maybe, Nothing
  <2> QED  BY <1>1, <2>1, <2>2, <2>3, <2>4, UnpinnedType DEF Begin, TypeOK, Stages, world
<1>2. CASE Raise \/ Die  BY <1>2 DEF Raise, Die, TypeOK, Stages, world, history, running
<1>3. CASE AssertManifest \/ LoadRuntime \/ AssertSources \/ LoadPlan \/ BindPlan
  BY <1>3 DEF AssertManifest, LoadRuntime, AssertSources, LoadPlan, BindPlan, TypeOK, Stages,
              world, history, running
<1>4. CASE WritePlan \/ SealPlan
  BY <1>4 DEF WritePlan, SealPlan, TypeOK, Stages, world, history, running
<1>5. CASE ReloadPlan
  BY <1>5, UnpinnedType DEF ReloadPlan, TypeOK, Stages, world, history, running
<1>6. CASE AssertAgain \/ Claim \/ Return
  BY <1>6 DEF AssertAgain, Claim, Return, TypeOK, Stages, world, history, running
<1> QED  BY <1>1, <1>2, <1>3, <1>4, <1>5, <1>6 DEF Prepare

\* The steps that record something.
Records ==
  \/ \E v \in GitRef : PinGitRef(v)
  \/ \E v \in Worktree : ReadHead(v) \/ ResolveSource(v) \/ AssertClean(v)
  \/ \E v \in Worktree, c \in Cases : PinWorktree(v, c)
  \/ \E c \in Cases : ReadPrompt(c) \/ AttestTools(c) \/ SnapshotCase(c)

LEMMA TypeRecords ==
  ASSUME SealedPlanAssumption, TypeOK, Records
  PROVE  TypeOK'
<1> USE DEF PinType
<1>0. pin \in PinType  BY DEF TypeOK
<1>1. ASSUME NEW next \in PinType, Pin(next)  PROVE TypeOK'
  BY <1>1 DEF Pin, TypeOK, world, history, running
<1>2. ASSUME NEW v \in GitRef, PinGitRef(v)  PROVE TypeOK'
  <2>1. Contents[refs[v]] \in [Cases -> Maybe(Bytes \cup {Empty})] /\ refs[v] \in Maybe(Commits)
    BY DEF TypeOK, SealedPlanAssumption, Maybe, Repositories
  <2>2. [pin EXCEPT !.commit[v] = refs[v], !.source[v] = Contents[refs[v]]] \in PinType
    BY <1>0, <2>1 DEF Repositories, Variants
  <2> QED  BY <1>1, <1>2, <2>2 DEF PinGitRef
<1>3. ASSUME NEW v \in Worktree, ReadHead(v)  PROVE TypeOK'
  <2>1. [pin EXCEPT !.head[v] = heads[v]] \in PinType  BY <1>0 DEF TypeOK, Maybe
  <2> QED  BY <1>1, <1>3, <2>1 DEF ReadHead
<1>4. ASSUME NEW v \in Worktree, ResolveSource(v)  PROVE TypeOK'
  <2>1. [pin EXCEPT !.commit[v] = refs[v]] \in PinType
    BY <1>0 DEF TypeOK, Maybe, Repositories
  <2> QED  BY <1>1, <1>4, <2>1 DEF ResolveSource
<1>5. ASSUME NEW v \in Worktree, AssertClean(v)  PROVE TypeOK'
  <2>1. [pin EXCEPT !.clean = @ \cup {v}] \in PinType  BY <1>0
  <2> QED  BY <1>1, <1>5, <2>1 DEF AssertClean
<1>6. ASSUME NEW v \in Worktree, NEW c \in Cases, PinWorktree(v, c)  PROVE TypeOK'
  <2>1. work[v][c] \in Maybe(Bytes \cup {Empty})  BY DEF TypeOK, Maybe
  <2>2. pin.source[v] \in [Cases -> Maybe(Bytes \cup {Empty})]
    BY <1>0 DEF Variants, Repositories
  <2>3. [pin.source[v] EXCEPT ![c] = work[v][c]] \in [Cases -> Maybe(Bytes \cup {Empty})]
    BY <2>1, <2>2
  <2>4. [pin EXCEPT !.source[v][c] = work[v][c]] \in PinType  BY <1>0, <2>3
  <2> QED  BY <1>1, <1>6, <2>4 DEF PinWorktree
<1>7. ASSUME NEW c \in Cases, ReadPrompt(c)  PROVE TypeOK'
  <2>1. [pin EXCEPT !.prompt[c] = trees[c]] \in PinType  BY <1>0 DEF TypeOK, Maybe
  <2> QED  BY <1>1, <1>7, <2>1 DEF ReadPrompt
<1>8. ASSUME NEW c \in Cases, AttestTools(c)  PROVE TypeOK'
  <2>1. [pin EXCEPT !.tools[c] = tools[c]] \in PinType  BY <1>0 DEF TypeOK, Maybe
  <2> QED  BY <1>1, <1>8, <2>1 DEF AttestTools
<1>9. ASSUME NEW c \in Cases, SnapshotCase(c)  PROVE TypeOK'
  <2>1. [pin EXCEPT !.tree[c] = trees[c]] \in PinType  BY <1>0 DEF TypeOK, Maybe
  <2> QED  BY <1>1, <1>9, <2>1 DEF SnapshotCase
<1> QED  BY <1>2, <1>3, <1>4, <1>5, <1>6, <1>7, <1>8, <1>9 DEF Records

-----------------------------------------------------------------------------
(* The invariant.                                                          *)

SourcesPinned ==
  /\ \A v \in Variants, c \in Cases : pin.source[v][c] # None
  /\ \A p \in Pairs : pin.source[Control[p]][CaseOf[p]] # pin.source[Treatment[p]][CaseOf[p]]
TreesPinned == \A c \in Cases : pin.tree[c] # None
Ready == SourcesPinned /\ TreesPinned /\ plan = Payload /\ task = "run"

PinControl ==
  /\ \A v \in Plain, c \in Cases : pin.source[v][c] = Empty
  /\ \A v \in GitRef, c \in Cases :
       IF pin.commit[v] = None THEN pin.source[v][c] = None
       ELSE pin.source[v][c] = Contents[pin.commit[v]][c]
  /\ \A v \in pin.clean : pin.head[v] # None /\ pin.commit[v] # None
  /\ \A v \in Worktree : pin.commit[v] # None => pin.head[v] # None
  /\ \A v \in Worktree, c \in Cases : pin.source[v][c] # None => v \in pin.clean
  /\ \A c \in Cases : /\ pin.tree[c] # None => pin.tools[c] # None
                      /\ pin.tools[c] # None => pin.prompt[c] # None

StageControl ==
  /\ pc \in {"cases", "reload", "bind", "bound", "claim", "pairs"} => SourcesPinned
  /\ pc \in {"reload", "bind", "bound", "claim", "pairs"} => TreesPinned
  /\ pc \in {"bound", "claim", "pairs"} => plan = Payload
  /\ pc \in {"claim", "pairs"} => task = "run"
  /\ pair # None \/ pairs # {} => Ready /\ pc \in {"pairs", "ended"}
  /\ draft # None => task = "prepare"
  /\ result # None => pc = "ended"

ArmControl ==
  \A r \in Roles :
    /\ arm[r].pc # "none" => pair # None /\ given.prompt # None /\ given.base # None
    /\ arm[r].pc \in {"fingerprint", "copy", "dirty"} => VariantOf(pair, r) \in Worktree
    /\ arm[r].pc \notin {"none", "check", "fixture", "failed"} => arm[r].fixture # None

\* History knows every content that was seen.
Past ==
  /\ \A c \in Cases :
       /\ trees[c] \in pastTree[c]
       /\ pin.prompt[c] # None => pin.prompt[c] \in pastTree[c]
       /\ pin.tree[c] # None => pin.tree[c] \in pastTree[c]
       /\ draft # None => draft.prompt[c] # None /\ draft.prompt[c] \in pastTree[c]
  /\ \A v \in Worktree, c \in Cases :
       /\ work[v][c] \in pastWork[v][c]
       /\ v \in pin.clean /\ v \notin moved => Contents[pin.head[v]][c] \in pastWork[v][c]
  /\ \A v \in Worktree : v \notin moved /\ pin.head[v] # None => heads[v] = pin.head[v]

\* A worktree that is at its HEAD again never left it since it was found clean.
SourceKept ==
  \A v \in pin.clean, c \in Cases :
    SettledSource(v, c) /\ pin.source[v][c] # None /\ work[v][c] = Contents[pin.head[v]][c]
      => pin.source[v][c] = Contents[pin.head[v]][c]

\* A case that is what its prompt was read from was that when its tree was read.
CaseKept ==
  \A c \in Cases :
    Settled(c) /\ pin.tree[c] # None /\ trees[c] = pin.prompt[c]
      => pin.tree[c] = pin.prompt[c]

\* The same across the two preflights of a plan that is being sealed.
DraftKept ==
  draft # None =>
    \A c \in Cases :
      Settled(c) /\ \/ trees[c] = draft.prompt[c]
                    \/ pc \notin {"reload", "ended"} /\ pin.prompt[c] = draft.prompt[c]
        => draft.tree[c] = draft.prompt[c]

\* A case that is what its tree was pinned to was that whenever a pair read it.
GivenKept ==
  pair # None /\ Settled(Case) /\ trees[Case] = pin.tree[Case] =>
    /\ given.prompt \in {None, pin.tree[Case]} /\ given.base \in {None, pin.tree[Case]}
    /\ \A r \in Roles : arm[r].fixture \in {None, pin.tree[Case]}

\* What an arm that has passed the checks was given.
GivenAt(r) ==
  arm[r].pc \in {"bench", "verify", "done"} /\ Settled(Case) =>
    /\ given.prompt = pin.tree[Case] /\ given.base = pin.tree[Case]
    /\ arm[r].fixture = pin.tree[Case]
SourceAt(r) ==
  LET v == VariantOf(pair, r)
  IN  /\ SettledSource(v, Case)
      /\ \/ arm[r].pc \in {"call", "bench", "verify", "done"}
         \/ arm[r].pc = "dirty" /\ work[v][Case] = Contents[pin.head[v]][Case]
      => arm[r].source = pin.source[v][Case]
VerifierAt(r) ==
  arm[r].pc = "done" => arm[r].tree = pin.tree[Case] /\ arm[r].tools = pin.tools[Case]
ArmKept == pair # None => \A r \in Roles : GivenAt(r) /\ SourceAt(r) /\ VerifierAt(r)

PairsKept == SourceAsSealed /\ CaseAsSealed /\ \A q \in pairs : q.pair \in Pairs

Control3 == PinControl /\ StageControl /\ ArmControl
IInv ==
  /\ TypeOK /\ Control3 /\ Past /\ SourceKept /\ CaseKept /\ DraftKept
  /\ GivenKept /\ ArmKept /\ PairsKept /\ ResultOfPlan /\ SealedAtOnce

-----------------------------------------------------------------------------
(* Runs of arms keep the types, which takes the control part of the        *)
(* invariant.                                                              *)

LEMMA PairIsReady ==
  ASSUME Control3, pair # None \/ pairs # {}
  PROVE  Ready
BY DEF Control3, StageControl

\* What an arm does next, if it does anything.
LEMMA ArmStep ==
  ASSUME SealedPlanAssumption, TypeOK, Control3, NEW r \in Roles, Arm(r)
  PROVE  /\ pair \in Pairs /\ Case \in Cases /\ VariantOf(pair, r) \in Variants
         /\ \E next \in ArmType : Step(r, arm[r].pc, next)
<1>1. pair \in Pairs /\ arm[r] \in ArmType
  BY DEF Arm, CheckFixture, CopyFixture, TakeSource, CheckSource, CopySource, CheckDirty,
         CheckVerifier, CopyBench, RunVerifier, ArmFails, Step, Running, TypeOK, Maybe, ArmType
<1>2. Case \in Cases /\ VariantOf(pair, r) \in Variants  BY <1>1, VariantType DEF Case
<1>3. trees[Case] \in Maybe(Bytes) /\ tools[Case] \in Maybe(Bytes)
      /\ pin.tree[Case] \in Maybe(Bytes)
  BY <1>2 DEF TypeOK, PinType, Maybe
<1>4. \A pc2 \in ArmStages :
        /\ [arm[r] EXCEPT !.pc = pc2] \in ArmType
        /\ [arm[r] EXCEPT !.pc = pc2, !.fixture = trees[Case]] \in ArmType
        /\ [arm[r] EXCEPT !.pc = pc2, !.bench = trees[Case]] \in ArmType
        /\ [arm[r] EXCEPT !.pc = pc2, !.tree = pin.tree[Case], !.tools = tools[Case]] \in ArmType
  BY <1>1, <1>3 DEF ArmType
<1>5. \A x \in Bytes \cup {Empty}, pc2 \in ArmStages :
        [arm[r] EXCEPT !.pc = pc2, !.source = x] \in ArmType
  BY <1>1 DEF ArmType, Maybe
<1>6. CASE CheckFixture(r)
  BY <1>1, <1>2, <1>4, <1>6 DEF CheckFixture, Step, ArmStages
<1>7. CASE CopyFixture(r)
  BY <1>1, <1>2, <1>4, <1>7 DEF CopyFixture, Step, ArmStages
<1>8. CASE TakeSource(r)
  <2>1. ASSUME VariantOf(pair, r) \in GitRef
        PROVE  Contents[pin.commit[VariantOf(pair, r)]][Case] \in Bytes \cup {Empty}
    <3>1. pin.source[VariantOf(pair, r)][Case] # None
      BY <1>1, <1>2, PairIsReady DEF Ready, SourcesPinned, SealedPlanAssumption
    <3>2. pin.source[VariantOf(pair, r)][Case] = Contents[pin.commit[VariantOf(pair, r)]][Case]
      BY <1>2, <2>1, <3>1 DEF Control3, PinControl
    <3> QED  BY <1>2, <3>1, <3>2 DEF TypeOK, PinType, Maybe
  <2> QED  BY <1>1, <1>2, <1>4, <1>5, <1>8, <2>1 DEF TakeSource, Step, ArmStages
<1>9. CASE CheckSource(r)
  BY <1>1, <1>2, <1>4, <1>9 DEF CheckSource, Step, ArmStages
<1>10. CASE CopySource(r)
  <2>0. VariantOf(pair, r) \in Worktree
    BY <1>10 DEF CopySource, Step, Control3, ArmControl
  <2>1. work[VariantOf(pair, r)][Case] \in Bytes \cup {Empty}  BY <1>2, <2>0 DEF TypeOK
  <2> QED  BY <1>1, <1>2, <1>5, <1>10, <2>1 DEF CopySource, Step, ArmStages
<1>11. CASE CheckDirty(r)
  BY <1>1, <1>2, <1>4, <1>11 DEF CheckDirty, Step, ArmStages
<1>12. CASE CheckVerifier(r)
  BY <1>1, <1>2, <1>4, <1>12 DEF CheckVerifier, Step, ArmStages
<1>13. CASE CopyBench(r)
  BY <1>1, <1>2, <1>4, <1>13 DEF CopyBench, Step, ArmStages
<1>14. CASE RunVerifier(r)
  BY <1>1, <1>2, <1>4, <1>14 DEF RunVerifier, Step, ArmStages
<1>15. CASE ArmFails(r)
  BY <1>1, <1>2, <1>4, <1>15 DEF ArmFails, Step, ArmStages
<1> QED
  BY <1>6, <1>7, <1>8, <1>9, <1>10, <1>11, <1>12, <1>13, <1>14, <1>15 DEF Arm

LEMMA TypeRun ==
  ASSUME SealedPlanAssumption, TypeOK, Control3,
         (\E p \in Pairs : StartPair(p)) \/ ReadPairPrompt \/ ReadBaseFiles
         \/ (\E r \in Roles : Arm(r)) \/ FinishPair
  PROVE  TypeOK'
<1>0. arm \in [Roles -> ArmType] /\ NoArm \in ArmType /\ [NoArm EXCEPT !.pc = "check"] \in ArmType
      /\ Idle \in [Roles -> ArmType]
  BY DEF TypeOK, ArmType, NoArm, ArmStages, Maybe, Idle
<1>1. ASSUME NEW p \in Pairs, StartPair(p)  PROVE TypeOK'
  <2>1. pair' \in Maybe(Pairs) /\ given' \in [prompt : Maybe(Bytes), base : Maybe(Bytes)]
    BY <1>1 DEF StartPair, Maybe, Nothing
  <2> QED  BY <1>0, <1>1, <2>1 DEF StartPair, TypeOK, world, history, ArmType
<1>2. CASE ReadPairPrompt \/ ReadBaseFiles
  <2>1. trees[Case] \in Maybe(Bytes)
    BY <1>2, VariantType DEF ReadPairPrompt, ReadBaseFiles, Running, TypeOK, Maybe, Case,
                             SealedPlanAssumption
  <2>2. given' \in [prompt : Maybe(Bytes), base : Maybe(Bytes)]
    BY <1>2, <2>1 DEF ReadPairPrompt, ReadBaseFiles, TypeOK
  <2>3. arm' \in [Roles -> ArmType]
    BY <1>0, <1>2 DEF ReadPairPrompt, ReadBaseFiles
  <2> QED  BY <1>2, <2>2, <2>3 DEF ReadPairPrompt, ReadBaseFiles, TypeOK, world, history, ArmType
<1>3. ASSUME NEW r \in Roles, Arm(r)  PROVE TypeOK'
  <2>1. PICK next \in ArmType : Step(r, arm[r].pc, next)  BY <1>3, ArmStep
  <2>2. arm' \in [Roles -> ArmType]  BY <1>0, <2>1 DEF Step
  <2> QED  BY <2>1, <2>2 DEF Step, TypeOK, world, history, ArmType
<1>4. CASE FinishPair
  <2>1. pair' \in Maybe(Pairs) /\ given' \in [prompt : Maybe(Bytes), base : Maybe(Bytes)]
    BY <1>4 DEF FinishPair, Maybe, Nothing
  <2> QED  BY <1>0, <1>4, <2>1 DEF FinishPair, TypeOK, world, history, ArmType
<1> QED  BY <1>1, <1>2, <1>3, <1>4

-----------------------------------------------------------------------------
(* The steps by what they leave alone.                                     *)

\* Steps that move the runner and no more than judge, draft, plan and result.
Moves ==
  \/ Raise \/ Die \/ AssertManifest \/ LoadRuntime \/ AssertSources \/ LoadPlan \/ BindPlan
  \/ WritePlan \/ SealPlan \/ AssertAgain \/ Claim \/ Return

\* Steps of a pair.
Pairing ==
  \/ \E p \in Pairs : StartPair(p)
  \/ ReadPairPrompt \/ ReadBaseFiles
  \/ \E r \in Roles : Arm(r)
  \/ FinishPair

LEMMA Groups ==
  ASSUME Next
  PROVE  Edit \/ Begin \/ ReloadPlan \/ Moves \/ Records \/ Pairing
BY DEF Next, PreflightReads, Prepare, Run, Moves, Records, Pairing

LEMMA EditFrame ==
  ASSUME Edit
  PROVE  UNCHANGED <<task, pc, suite, judge, pin, draft, plan, running, result>>
BY DEF Edit, EditTree, EditTools, EditWork, MoveHead, MoveRef, EditSuite, EditPlan

LEMMA MovesFrame ==
  ASSUME Moves
  PROVE  UNCHANGED <<trees, tools, heads, work, history, task, pin, running>>
BY DEF Moves, Raise, Die, AssertManifest, LoadRuntime, AssertSources, LoadPlan, BindPlan,
       WritePlan, SealPlan, AssertAgain, Claim, Return, world

LEMMA RecordsFrame ==
  ASSUME Records
  PROVE  /\ UNCHANGED <<world, history, task, pc, suite, judge, draft, plan, running, result>>
         /\ pc \in {"sources", "cases"}
BY DEF Records, PinGitRef, ReadHead, ResolveSource, AssertClean, PinWorktree, ReadPrompt,
       AttestTools, SnapshotCase, Pin

LEMMA ArmFrame ==
  ASSUME NEW r \in Roles, Arm(r)
  PROVE  /\ UNCHANGED <<world, history, task, pc, suite, judge, pin, draft, plan,
                        pair, given, pairs, result>>
         /\ Running
BY DEF Arm, CheckFixture, CopyFixture, TakeSource, CheckSource, CopySource, CheckDirty,
       CheckVerifier, CopyBench, RunVerifier, ArmFails, Step

LEMMA PairingFrame ==
  ASSUME Pairing
  PROVE  /\ UNCHANGED <<world, history, task, pc, suite, judge, pin, draft, plan, result>>
         /\ pc = "pairs"
<1>1. ASSUME NEW r \in Roles, Arm(r)
      PROVE  /\ UNCHANGED <<world, history, task, pc, suite, judge, pin, draft, plan, result>>
             /\ pc = "pairs"
  BY <1>1, ArmFrame DEF Running
<1> QED  BY <1>1 DEF Pairing, StartPair, ReadPairPrompt, ReadBaseFiles, FinishPair, Running

-----------------------------------------------------------------------------
(* Control.                                                                *)

LEMMA PinControlUnpinned ==
  ASSUME SealedPlanAssumption, TypeOK, pin' = Unpinned
  PROVE  PinControl'
BY DEF SealedPlanAssumption, PinControl, Unpinned, Variants, Repositories

LEMMA PinControlRecords ==
  ASSUME SealedPlanAssumption, TypeOK, PinControl, Records
  PROVE  PinControl'
<1> USE DEF PinType
<1>0. pin \in PinType  BY DEF TypeOK
<1>a. GitRef \subseteq Variants /\ Worktree \subseteq Variants /\ Plain \subseteq Variants
      /\ GitRef \subseteq Repositories /\ Worktree \subseteq Repositories
      /\ GitRef \cap Worktree = {} /\ Plain \cap Repositories = {}
  BY DEF Variants, Repositories, SealedPlanAssumption
<1>1. ASSUME NEW v \in GitRef, PinGitRef(v)  PROVE PinControl'
  <2>1. pin'.commit = [pin.commit EXCEPT ![v] = refs[v]]
        /\ pin'.source = [pin.source EXCEPT ![v] = Contents[refs[v]]]
        /\ pin'.clean = pin.clean /\ pin'.head = pin.head
        /\ pin'.tree = pin.tree /\ pin'.tools = pin.tools /\ pin'.prompt = pin.prompt
    BY <1>0, <1>1 DEF PinGitRef, Pin
  <2>2. refs[v] # None  BY <1>a DEF TypeOK, SealedPlanAssumption
  <2> QED  BY <1>0, <1>a, <2>1, <2>2 DEF PinControl
<1>2. ASSUME NEW v \in Worktree, ReadHead(v)  PROVE PinControl'
  <2>1. pin'.head = [pin.head EXCEPT ![v] = heads[v]]
        /\ pin'.commit = pin.commit /\ pin'.source = pin.source /\ pin'.clean = pin.clean
        /\ pin'.tree = pin.tree /\ pin'.tools = pin.tools /\ pin'.prompt = pin.prompt
    BY <1>0, <1>2 DEF ReadHead, Pin
  <2>2. heads[v] # None  BY DEF TypeOK, SealedPlanAssumption
  <2> QED  BY <1>0, <1>a, <2>1, <2>2 DEF PinControl
<1>3. ASSUME NEW v \in Worktree, ResolveSource(v)  PROVE PinControl'
  <2>1. pin'.commit = [pin.commit EXCEPT ![v] = refs[v]] /\ pin.head[v] # None
        /\ pin'.head = pin.head /\ pin'.source = pin.source /\ pin'.clean = pin.clean
        /\ pin'.tree = pin.tree /\ pin'.tools = pin.tools /\ pin'.prompt = pin.prompt
    BY <1>0, <1>3 DEF ResolveSource, Pin
  <2>2. refs[v] # None  BY <1>a DEF TypeOK, SealedPlanAssumption
  <2> QED  BY <1>0, <1>a, <2>1, <2>2 DEF PinControl
<1>4. ASSUME NEW v \in Worktree, AssertClean(v)  PROVE PinControl'
  <2>1. pin'.clean = pin.clean \cup {v} /\ pin.commit[v] # None
        /\ pin'.head = pin.head /\ pin'.source = pin.source /\ pin'.commit = pin.commit
        /\ pin'.tree = pin.tree /\ pin'.tools = pin.tools /\ pin'.prompt = pin.prompt
    BY <1>0, <1>4 DEF AssertClean, Pin
  <2> QED  BY <1>0, <1>a, <2>1 DEF PinControl
<1>5. ASSUME NEW v \in Worktree, NEW c \in Cases, PinWorktree(v, c)  PROVE PinControl'
  <2>1. pin'.source = [pin.source EXCEPT ![v][c] = work[v][c]] /\ v \in pin.clean
        /\ pin'.head = pin.head /\ pin'.clean = pin.clean /\ pin'.commit = pin.commit
        /\ pin'.tree = pin.tree /\ pin'.tools = pin.tools /\ pin'.prompt = pin.prompt
    BY <1>0, <1>5 DEF PinWorktree, Pin
  <2>2. \A w \in Variants : w # v => pin'.source[w] = pin.source[w]
    BY <1>0, <2>1
  <2>3. \A w \in Plain \cup GitRef : w # v  BY <1>a
  <2> QED  BY <1>0, <1>a, <2>1, <2>2, <2>3 DEF PinControl
<1>6. ASSUME NEW c \in Cases, ReadPrompt(c)  PROVE PinControl'
  <2>1. pin'.prompt = [pin.prompt EXCEPT ![c] = trees[c]]
        /\ pin'.head = pin.head /\ pin'.clean = pin.clean /\ pin'.commit = pin.commit
        /\ pin'.source = pin.source /\ pin'.tree = pin.tree /\ pin'.tools = pin.tools
    BY <1>0, <1>6 DEF ReadPrompt, Pin
  <2>2. trees[c] # None  BY DEF TypeOK, SealedPlanAssumption
  <2> QED  BY <1>0, <2>1, <2>2 DEF PinControl
<1>7. ASSUME NEW c \in Cases, AttestTools(c)  PROVE PinControl'
  <2>1. pin'.tools = [pin.tools EXCEPT ![c] = tools[c]] /\ pin.prompt[c] # None
        /\ pin'.head = pin.head /\ pin'.clean = pin.clean /\ pin'.commit = pin.commit
        /\ pin'.source = pin.source /\ pin'.tree = pin.tree /\ pin'.prompt = pin.prompt
    BY <1>0, <1>7 DEF AttestTools, Pin
  <2>2. tools[c] # None  BY DEF TypeOK, SealedPlanAssumption
  <2> QED  BY <1>0, <2>1, <2>2 DEF PinControl
<1>8. ASSUME NEW c \in Cases, SnapshotCase(c)  PROVE PinControl'
  <2>1. pin'.tree = [pin.tree EXCEPT ![c] = trees[c]] /\ pin.tools[c] # None
        /\ pin'.head = pin.head /\ pin'.clean = pin.clean /\ pin'.commit = pin.commit
        /\ pin'.source = pin.source /\ pin'.tools = pin.tools /\ pin'.prompt = pin.prompt
    BY <1>0, <1>8 DEF SnapshotCase, Pin
  <2> QED  BY <1>0, <2>1 DEF PinControl
<1> QED  BY <1>1, <1>2, <1>3, <1>4, <1>5, <1>6, <1>7, <1>8 DEF Records

LEMMA PinControlNext ==
  ASSUME SealedPlanAssumption, TypeOK, PinControl, Next
  PROVE  PinControl'
<1>1. CASE Edit \/ Moves \/ Pairing
  <2>1. pin' = pin  BY <1>1, EditFrame, MovesFrame, PairingFrame
  <2> QED  BY <2>1 DEF PinControl
<1>2. CASE Begin \/ ReloadPlan
  BY <1>2, PinControlUnpinned DEF Begin, ReloadPlan
<1> QED  BY <1>1, <1>2, PinControlRecords, Groups

LEMMA StageControlNext ==
  ASSUME SealedPlanAssumption, TypeOK, Control3, Next
  PROVE  StageControl'
<1>0. StageControl /\ pc \in Stages  BY DEF Control3, TypeOK
<1>1. CASE Edit
  BY <1>0, <1>1, EditFrame
     DEF StageControl, SourcesPinned, TreesPinned, Ready, Payload, running
<1>2. CASE Begin
  BY <1>2 DEF Begin, StageControl
<1>3. CASE ReloadPlan
  BY <1>0, <1>3 DEF ReloadPlan, StageControl, running
<1>4. CASE Raise \/ Die \/ AssertManifest \/ LoadRuntime
  <2>1. pc # "ended" /\ pc' \in {"ended", "judge", "sources"} /\ (pc' # "ended" => pc # "pairs")
        /\ UNCHANGED <<suite, pin, plan, task, draft, result, running>>
        /\ (pc' = "ended" => judge' = judge)
    BY <1>4 DEF Raise, Die, AssertManifest, LoadRuntime
  <2> QED
    BY <1>0, <2>1 DEF StageControl, SourcesPinned, TreesPinned, Ready, Payload, running
<1>5. CASE AssertSources
  BY <1>0, <1>5 DEF AssertSources, StageControl, SourcesPinned, running
<1>6. CASE LoadPlan
  BY <1>0, <1>6
     DEF LoadPlan, CasesPinned, StageControl, SourcesPinned, TreesPinned, running
<1>7. CASE BindPlan
  BY <1>0, <1>7 DEF BindPlan, StageControl, SourcesPinned, TreesPinned, Payload, running
<1>8. CASE WritePlan
  BY <1>0, <1>8
     DEF WritePlan, CasesPinned, StageControl, SourcesPinned, TreesPinned, running
<1>9. CASE SealPlan
  BY <1>0, <1>9 DEF SealPlan, StageControl, running
<1>10. CASE AssertAgain \/ Claim \/ Return
  BY <1>0, <1>10
     DEF AssertAgain, Claim, Return, StageControl, SourcesPinned, TreesPinned, Ready, Payload,
         running
<1>11. CASE Records
  <2>1. pin'.source = pin.source \/ pc = "sources"
    BY <1>11 DEF Records, PinGitRef, ReadHead, ResolveSource, AssertClean, PinWorktree,
                 ReadPrompt, AttestTools, SnapshotCase, Pin, TypeOK, PinType
  <2> QED
    BY <1>0, <1>11, <2>1, RecordsFrame DEF StageControl, SourcesPinned, running
<1>12. CASE Pairing
  <2>1. Ready  BY <1>0, <1>12, PairingFrame DEF StageControl, Ready
  <2> QED
    BY <1>0, <1>12, <2>1, PairingFrame
       DEF StageControl, SourcesPinned, TreesPinned, Ready, Payload
<1> QED
  BY <1>1, <1>2, <1>3, <1>4, <1>5, <1>6, <1>7, <1>8, <1>9, <1>10, <1>11, <1>12, Groups DEF Moves

LEMMA ArmControlNext ==
  ASSUME SealedPlanAssumption, TypeOK, Control3, Next
  PROVE  ArmControl'
<1>0. ArmControl /\ StageControl  BY DEF Control3
<1>1. CASE Edit \/ Moves \/ Records \/ ReloadPlan
  <2>1. UNCHANGED running
    BY <1>1, EditFrame, MovesFrame, RecordsFrame DEF ReloadPlan
  <2> QED  BY <1>0, <2>1 DEF ArmControl, running, VariantOf
<1>2. CASE Begin \/ (\E p \in Pairs : StartPair(p)) \/ FinishPair
  <2>1. arm' = Idle  BY <1>2 DEF Begin, StartPair, FinishPair
  <2> QED  BY <2>1 DEF ArmControl, Idle, NoArm
<1>3. CASE ReadPairPrompt
  <2>1. \A r \in Roles : arm[r].pc = "none"
    BY <1>0, <1>3 DEF ReadPairPrompt, ArmControl
  <2> QED  BY <1>3, <2>1 DEF ReadPairPrompt, ArmControl
<1>4. CASE ReadBaseFiles
  <2>1. \A r \in Roles : arm'[r].pc = "check"
    BY <1>4 DEF ReadBaseFiles, NoArm
  <2>2. trees[Case] # None /\ pair # None
    BY <1>4, VariantType DEF ReadBaseFiles, Running, TypeOK, Maybe, Case, SealedPlanAssumption
  <2>3. given'.prompt # None /\ given'.base # None
    BY <1>4, <2>2 DEF ReadBaseFiles, TypeOK
  <2> QED  BY <1>4, <2>1, <2>2, <2>3 DEF ReadBaseFiles, ArmControl
<1>5. ASSUME NEW r \in Roles, Arm(r)  PROVE ArmControl'
  <2>0. UNCHANGED <<pair, given>> /\ Case \in Cases  BY <1>5, ArmFrame, ArmStep
  <2>1. PICK next \in ArmType : Step(r, arm[r].pc, next)  BY <1>5, ArmStep
  <2>2. arm' = [arm EXCEPT ![r] = next] /\ arm \in [Roles -> ArmType] /\ pair # None
    BY <2>1 DEF Step, TypeOK, Running
  <2>3. /\ arm[r].pc # "none"
        /\ arm'[r].pc \in {"fingerprint", "copy", "dirty"} => VariantOf(pair, r) \in Worktree
        /\ arm'[r].pc \notin {"none", "check", "fixture", "failed"} => arm'[r].fixture # None
    <3>1. trees[Case] # None  BY <2>0 DEF TypeOK, SealedPlanAssumption
    <3>2. arm[r] \in ArmType  BY <2>2
    <3>3. CASE CheckFixture(r)
      <4>1. arm[r].pc = "check" /\ arm'[r] = [arm[r] EXCEPT !.pc = "fixture"]
        BY <2>2, <3>3 DEF CheckFixture, Step
      <4>2. arm'[r].pc = "fixture" /\ arm'[r].fixture = arm[r].fixture
        BY <3>2, <4>1 DEF ArmType
      <4> QED  BY <1>0, <4>1, <4>2 DEF ArmControl
    <3>4. CASE CopyFixture(r)
      <4>1. arm[r].pc = "fixture" /\ arm'[r] = [arm[r] EXCEPT !.pc = "source", !.fixture = trees[Case]]
        BY <2>2, <3>4 DEF CopyFixture, Step
      <4>2. arm'[r].pc = "source" /\ arm'[r].fixture = trees[Case]
        BY <3>2, <4>1 DEF ArmType
      <4> QED  BY <1>0, <3>1, <4>1, <4>2 DEF ArmControl
    <3>5. CASE TakeSource(r)
      <4>1. arm[r].pc = "source"  BY <3>5 DEF TakeSource, Step
      <4>2. CASE arm'[r] = [arm[r] EXCEPT !.pc = "fingerprint"] /\ VariantOf(pair, r) \in Worktree
        <5>1. arm'[r].pc = "fingerprint" /\ arm'[r].fixture = arm[r].fixture
          BY <3>2, <4>2 DEF ArmType
        <5> QED  BY <1>0, <4>1, <4>2, <5>1 DEF ArmControl
      <4>3. ASSUME NEW b, arm'[r] = [arm[r] EXCEPT !.pc = "call", !.source = b]
            PROVE  arm'[r].pc = "call" /\ arm'[r].fixture = arm[r].fixture
        BY <3>2, <4>3 DEF ArmType
      <4>4. \/ arm'[r] = [arm[r] EXCEPT !.pc = "fingerprint"] /\ VariantOf(pair, r) \in Worktree
            \/ \E b : arm'[r] = [arm[r] EXCEPT !.pc = "call", !.source = b]
        BY <2>2, <3>5 DEF TakeSource, Step
      <4> QED  BY <1>0, <4>1, <4>2, <4>3, <4>4 DEF ArmControl
    <3>6. CASE CheckSource(r)
      <4>1. arm[r].pc = "fingerprint" /\ arm'[r] = [arm[r] EXCEPT !.pc = "copy"]
        BY <2>2, <3>6 DEF CheckSource, Step
      <4>2. arm'[r].pc = "copy" /\ arm'[r].fixture = arm[r].fixture
        BY <3>2, <4>1 DEF ArmType
      <4> QED  BY <1>0, <4>1, <4>2 DEF ArmControl
    <3>7. CASE CopySource(r)
      <4>1. arm[r].pc = "copy" /\ arm'[r] = [arm[r] EXCEPT !.pc = "dirty", !.source = work[VariantOf(pair, r)][Case]]
        BY <2>2, <3>7 DEF CopySource, Step
      <4>2. arm'[r].pc = "dirty" /\ arm'[r].fixture = arm[r].fixture
        BY <3>2, <4>1 DEF ArmType
      <4> QED  BY <1>0, <4>1, <4>2 DEF ArmControl
    <3>8. CASE CheckDirty(r)
      <4>1. arm[r].pc = "dirty" /\ arm'[r] = [arm[r] EXCEPT !.pc = "call"]
        BY <2>2, <3>8 DEF CheckDirty, Step
      <4>2. arm'[r].pc = "call" /\ arm'[r].fixture = arm[r].fixture
        BY <3>2, <4>1 DEF ArmType
      <4> QED  BY <1>0, <4>1, <4>2 DEF ArmControl
    <3>9. CASE CheckVerifier(r)
      <4>1. arm[r].pc = "call" /\ arm'[r] = [arm[r] EXCEPT !.pc = "bench"]
        BY <2>2, <3>9 DEF CheckVerifier, Step
      <4>2. arm'[r].pc = "bench" /\ arm'[r].fixture = arm[r].fixture
        BY <3>2, <4>1 DEF ArmType
      <4> QED  BY <1>0, <4>1, <4>2 DEF ArmControl
    <3>10. CASE CopyBench(r)
      <4>1. arm[r].pc = "bench" /\ arm'[r] = [arm[r] EXCEPT !.pc = "verify", !.bench = trees[Case]]
        BY <2>2, <3>10 DEF CopyBench, Step
      <4>2. arm'[r].pc = "verify" /\ arm'[r].fixture = arm[r].fixture
        BY <3>2, <4>1 DEF ArmType
      <4> QED  BY <1>0, <4>1, <4>2 DEF ArmControl
    <3>11. CASE RunVerifier(r)
      <4>1. arm'[r] = [arm[r] EXCEPT !.pc = "done", !.tree = pin.tree[Case],
                                     !.tools = tools[Case]] /\ arm[r].pc = "verify"
        BY <2>2, <3>11 DEF RunVerifier, Step
      <4>2. arm'[r].pc = "done" /\ arm'[r].fixture = arm[r].fixture
        BY <3>2, <4>1 DEF ArmType
      <4> QED  BY <1>0, <4>1, <4>2 DEF ArmControl
    <3>12. CASE ArmFails(r)
      <4>1. arm[r].pc # "none" /\ arm'[r] = [arm[r] EXCEPT !.pc = "failed"]
        BY <2>2, <3>12 DEF ArmFails, Step
      <4>2. arm'[r].pc = "failed"  BY <3>2, <4>1 DEF ArmType
      <4> QED  BY <4>1, <4>2
    <3> QED
      BY <1>5, <3>3, <3>4, <3>5, <3>6, <3>7, <3>8, <3>9, <3>10, <3>11, <3>12 DEF Arm
  <2>4. given'.prompt # None /\ given'.base # None /\ pair' # None
    BY <1>0, <2>0, <2>2, <2>3 DEF ArmControl
  <2>5. \A s \in Roles : s # r => arm'[s] = arm[s]  BY <2>2
  <2>6. \A s \in Roles : VariantOf(pair', s) = VariantOf(pair, s)  BY <2>0
  <2> QED  BY <1>0, <2>3, <2>4, <2>5, <2>6 DEF ArmControl
<1> QED  BY <1>1, <1>2, <1>3, <1>4, <1>5, Groups DEF Pairing

-----------------------------------------------------------------------------
(* History, and what it says of what was recorded.                         *)

LEMMA EditHistory ==
  ASSUME SealedPlanAssumption, TypeOK, Past, Edit
  PROVE  /\ backTree \subseteq backTree' /\ backWork \subseteq backWork' /\ moved \subseteq moved'
         /\ \A c \in Cases :
              /\ pastTree[c] \subseteq pastTree'[c] /\ trees'[c] \in pastTree'[c]
              /\ trees'[c] # trees[c] /\ trees'[c] \in pastTree[c] => c \in backTree'
         /\ \A v \in Worktree, c \in Cases :
              /\ pastWork[v][c] \subseteq pastWork'[v][c] /\ work'[v][c] \in pastWork'[v][c]
              /\ work'[v][c] # work[v][c] /\ work'[v][c] \in pastWork[v][c]
                   => <<v, c>> \in backWork'
         /\ \A v \in Worktree : heads'[v] # heads[v] => v \in moved'
<1>0. /\ \A c \in Cases : trees[c] \in pastTree[c]
      /\ \A v \in Worktree, c \in Cases : work[v][c] \in pastWork[v][c]
  BY DEF Past
<1>1. ASSUME NEW c \in Cases, NEW b \in Bytes, EditTree(c, b)
      PROVE  /\ backTree \subseteq backTree' /\ UNCHANGED <<work, heads, backWork, pastWork, moved>>
             /\ \A d \in Cases :
                  /\ pastTree[d] \subseteq pastTree'[d] /\ trees'[d] \in pastTree'[d]
                  /\ trees'[d] # trees[d] /\ trees'[d] \in pastTree[d] => d \in backTree'
  <2>1. \A d \in Cases : d # c => trees'[d] = trees[d] /\ pastTree'[d] = pastTree[d]
    BY <1>1 DEF EditTree, TypeOK
  <2>2. trees'[c] = b /\ pastTree'[c] = pastTree[c] \cup {b}
    BY <1>1 DEF EditTree, TypeOK
  <2> QED  BY <1>0, <1>1, <2>1, <2>2 DEF EditTree
<1>2. ASSUME NEW v \in Worktree, NEW c \in Cases, NEW b \in Bytes, EditWork(v, c, b)
      PROVE  /\ backWork \subseteq backWork' /\ UNCHANGED <<trees, heads, backTree, pastTree, moved>>
             /\ \A w \in Worktree, d \in Cases :
                  /\ pastWork[w][d] \subseteq pastWork'[w][d] /\ work'[w][d] \in pastWork'[w][d]
                  /\ work'[w][d] # work[w][d] /\ work'[w][d] \in pastWork[w][d]
                       => <<w, d>> \in backWork'
  <2>1. \A w \in Worktree, d \in Cases :
          w # v \/ d # c => work'[w][d] = work[w][d] /\ pastWork'[w][d] = pastWork[w][d]
    BY <1>2 DEF EditWork, TypeOK
  <2>2. work'[v][c] = b /\ pastWork'[v][c] = pastWork[v][c] \cup {b}
    BY <1>2 DEF EditWork, TypeOK
  <2> QED  BY <1>0, <1>2, <2>1, <2>2 DEF EditWork
<1>3. ASSUME NEW v \in Worktree, NEW k \in Commits, MoveHead(v, k)
      PROVE  /\ moved \subseteq moved'
             /\ UNCHANGED <<trees, work, backTree, pastTree, backWork, pastWork>>
             /\ \A w \in Worktree : heads'[w] # heads[w] => w \in moved'
  BY <1>3 DEF MoveHead, TypeOK
<1>4. CASE UNCHANGED <<trees, work, heads, history>>
  BY <1>0, <1>4 DEF history
<1>5. ASSUME NEW c \in Cases, NEW b \in Bytes, EditTools(c, b)
      PROVE  UNCHANGED <<trees, work, heads, history>>
  BY <1>5 DEF EditTools
<1>6. ASSUME NEW v \in Repositories, NEW k \in Commits, MoveRef(v, k)
      PROVE  UNCHANGED <<trees, work, heads, history>>
  BY <1>6 DEF MoveRef
<1>7. CASE EditSuite \/ EditPlan  BY <1>4, <1>7 DEF EditSuite, EditPlan
<1> QED  BY <1>0, <1>1, <1>2, <1>3, <1>4, <1>5, <1>6, <1>7 DEF Edit

\* What a recording step adds to the record.
Recorded ==
  /\ \A c \in Cases :
       /\ pin'.prompt[c] # pin.prompt[c] => pin.prompt[c] = None /\ pin'.prompt[c] = trees[c]
       /\ pin'.tree[c] # pin.tree[c] =>
            pin'.tree[c] = trees[c] /\ pin.prompt[c] # None /\ pin'.prompt[c] = pin.prompt[c]
  /\ \A v \in Worktree :
       /\ pin'.head[v] # pin.head[v] => pin.head[v] = None /\ pin'.head[v] = heads[v]
       /\ v \in pin'.clean =>
            \/ v \in pin.clean
            \/ /\ pin.head[v] # None /\ work[v] = Contents[heads[v]]
               /\ \A c \in Cases : pin'.source[v][c] = pin.source[v][c]
       /\ \A c \in Cases :
            pin'.source[v][c] # pin.source[v][c] => pin'.source[v][c] = work[v][c]

LEMMA RecordsEffect ==
  ASSUME SealedPlanAssumption, TypeOK, PinControl, Records
  PROVE  Recorded /\ PinControl'
<1> USE DEF PinType
<1>0. pin \in PinType  BY DEF TypeOK
<1>a. GitRef \subseteq Variants /\ Worktree \subseteq Variants /\ GitRef \cap Worktree = {}
      /\ Worktree \subseteq Repositories
  BY DEF Variants, Repositories, SealedPlanAssumption
<1>1. ASSUME NEW v \in GitRef, PinGitRef(v)  PROVE Recorded
  <2>1. pin'.source = [pin.source EXCEPT ![v] = Contents[refs[v]]]
        /\ pin'.clean = pin.clean /\ pin'.head = pin.head
        /\ pin'.tree = pin.tree /\ pin'.prompt = pin.prompt
    BY <1>0, <1>1 DEF PinGitRef, Pin
  <2>2. \A w \in Worktree : pin'.source[w] = pin.source[w]  BY <1>0, <1>a, <2>1
  <2> QED  BY <2>1, <2>2 DEF Recorded
<1>2. ASSUME NEW v \in Worktree, ReadHead(v)  PROVE Recorded
  <2>1. pin'.head = [pin.head EXCEPT ![v] = heads[v]] /\ pin.head[v] = None
        /\ pin'.source = pin.source /\ pin'.clean = pin.clean
        /\ pin'.tree = pin.tree /\ pin'.prompt = pin.prompt
    BY <1>0, <1>2 DEF ReadHead, Pin
  <2> QED  BY <1>0, <2>1 DEF Recorded
<1>3. ASSUME NEW v \in Worktree, ResolveSource(v)  PROVE Recorded
  <2>1. pin'.head = pin.head /\ pin'.source = pin.source /\ pin'.clean = pin.clean
        /\ pin'.tree = pin.tree /\ pin'.prompt = pin.prompt
    BY <1>0, <1>3 DEF ResolveSource, Pin
  <2> QED  BY <2>1 DEF Recorded
<1>4. ASSUME NEW v \in Worktree, AssertClean(v)  PROVE Recorded
  <2>1. pin'.clean = pin.clean \cup {v} /\ pin.commit[v] # None /\ work[v] = Contents[heads[v]]
        /\ pin'.head = pin.head /\ pin'.source = pin.source
        /\ pin'.tree = pin.tree /\ pin'.prompt = pin.prompt
    BY <1>0, <1>4 DEF AssertClean, Pin
  <2>2. pin.head[v] # None  BY <2>1 DEF PinControl
  <2> QED  BY <2>1, <2>2 DEF Recorded
<1>5. ASSUME NEW v \in Worktree, NEW c \in Cases, PinWorktree(v, c)  PROVE Recorded
  <2>1. pin'.source = [pin.source EXCEPT ![v][c] = work[v][c]]
        /\ pin'.head = pin.head /\ pin'.clean = pin.clean
        /\ pin'.tree = pin.tree /\ pin'.prompt = pin.prompt
    BY <1>0, <1>5 DEF PinWorktree, Pin
  <2>2. \A w \in Worktree, d \in Cases :
          pin'.source[w][d] # pin.source[w][d] => pin'.source[w][d] = work[w][d]
    BY <1>0, <1>a, <2>1
  <2> QED  BY <2>1, <2>2 DEF Recorded
<1>6. ASSUME NEW c \in Cases, ReadPrompt(c)  PROVE Recorded
  <2>1. pin'.prompt = [pin.prompt EXCEPT ![c] = trees[c]] /\ pin.prompt[c] = None
        /\ pin'.head = pin.head /\ pin'.clean = pin.clean
        /\ pin'.source = pin.source /\ pin'.tree = pin.tree
    BY <1>0, <1>6 DEF ReadPrompt, Pin
  <2> QED  BY <1>0, <2>1 DEF Recorded
<1>7. ASSUME NEW c \in Cases, AttestTools(c)  PROVE Recorded
  <2>1. pin'.head = pin.head /\ pin'.clean = pin.clean
        /\ pin'.source = pin.source /\ pin'.tree = pin.tree /\ pin'.prompt = pin.prompt
    BY <1>0, <1>7 DEF AttestTools, Pin
  <2> QED  BY <2>1 DEF Recorded
<1>8. ASSUME NEW c \in Cases, SnapshotCase(c)  PROVE Recorded
  <2>1. pin'.tree = [pin.tree EXCEPT ![c] = trees[c]] /\ pin.tools[c] # None
        /\ pin'.head = pin.head /\ pin'.clean = pin.clean
        /\ pin'.source = pin.source /\ pin'.prompt = pin.prompt
    BY <1>0, <1>8 DEF SnapshotCase, Pin
  <2>2. pin.prompt[c] # None  BY <2>1 DEF PinControl
  <2> QED  BY <1>0, <2>1, <2>2 DEF Recorded
<1> QED
  BY <1>1, <1>2, <1>3, <1>4, <1>5, <1>6, <1>7, <1>8, PinControlRecords DEF Records

LEMMA PastNext ==
  ASSUME SealedPlanAssumption, TypeOK, Control3, Past, Next
  PROVE  Past'
<1>0. PinControl /\ StageControl  BY DEF Control3
<1>1. CASE Edit
  <2>1. UNCHANGED <<pin, draft>>  BY <1>1, EditFrame
  <2> QED  BY <1>1, <2>1, EditHistory DEF Past
<1>2. CASE Begin
  <2>1. \A c \in Cases : pastTree'[c] = {trees[c]} /\ trees'[c] = trees[c]
    BY <1>2 DEF Begin, world
  <2>2. \A v \in Worktree, c \in Cases : pastWork'[v][c] = {work[v][c]} /\ work'[v][c] = work[v][c]
    BY <1>2 DEF Begin, world
  <2> QED  BY <1>2, <2>1, <2>2 DEF Begin, Past, Unpinned
<1>3. CASE ReloadPlan
  <2>1. UNCHANGED <<trees, work, heads, history, draft>> /\ pin' = Unpinned
    BY <1>3 DEF ReloadPlan, world
  <2> QED  BY <2>1 DEF Past, Unpinned, history
<1>4. CASE Moves /\ ~WritePlan
  <2>1. UNCHANGED <<trees, work, heads, history, pin>>  BY <1>4, MovesFrame
  <2>2. draft' = draft
    BY <1>4 DEF Moves, Raise, Die, AssertManifest, LoadRuntime, AssertSources, LoadPlan, BindPlan,
                SealPlan, AssertAgain, Claim, Return
  <2> QED  BY <2>1, <2>2 DEF Past, history
<1>5. CASE WritePlan
  <2>1. UNCHANGED <<trees, work, heads, history, pin>>  BY <1>5 DEF WritePlan
  <2>2. \A c \in Cases : draft'.prompt[c] = pin.prompt[c] /\ pin.prompt[c] # None
    BY <1>0, <1>5 DEF WritePlan, CasesPinned, Payload, PinControl
  <2> QED  BY <2>1, <2>2 DEF Past, history
<1>6. CASE Records
  <2>1. Recorded /\ UNCHANGED <<trees, work, heads, history, draft>>
    BY <1>0, <1>6, RecordsEffect, RecordsFrame DEF world
  <2>2. \A c \in Cases :
          /\ trees[c] \in pastTree[c]
          /\ pin'.prompt[c] # None => pin'.prompt[c] \in pastTree[c]
          /\ pin'.tree[c] # None => pin'.tree[c] \in pastTree[c]
    BY <2>1 DEF Past, Recorded
  <2>3. \A v \in Worktree : v \notin moved /\ pin'.head[v] # None => heads[v] = pin'.head[v]
    BY <2>1 DEF Past, Recorded
  <2>4. ASSUME NEW v \in Worktree, NEW c \in Cases, v \in pin'.clean, v \notin moved
        PROVE  Contents[pin'.head[v]][c] \in pastWork[v][c]
    <3>1. CASE v \in pin.clean
      <4>1. pin'.head[v] = pin.head[v]  BY <1>0, <2>1, <3>1 DEF Recorded, PinControl
      <4> QED  BY <2>4, <3>1, <4>1 DEF Past
    <3>2. CASE v \notin pin.clean
      <4>1. pin'.head[v] = pin.head[v] /\ pin.head[v] # None /\ work[v] = Contents[heads[v]]
        BY <2>1, <2>4, <3>2 DEF Recorded
      <4>2. heads[v] = pin.head[v]  BY <2>4, <4>1 DEF Past
      <4> QED  BY <4>1, <4>2 DEF Past
    <3> QED  BY <3>1, <3>2
  <2> QED  BY <2>1, <2>2, <2>3, <2>4 DEF Past, history
<1>7. CASE Pairing
  <2>1. UNCHANGED <<trees, work, heads, history, pin, draft>>
    BY <1>7, PairingFrame DEF world
  <2> QED  BY <2>1 DEF Past, history
<1> QED  BY <1>1, <1>2, <1>3, <1>4, <1>5, <1>6, <1>7, Groups

LEMMA SettledAgain ==
  ASSUME SealedPlanAssumption, TypeOK, Past, Edit
  PROVE  /\ \A c \in Cases : Settled(c)' => Settled(c)
         /\ \A v \in Variants, c \in Cases : SettledSource(v, c)' => SettledSource(v, c)
BY EditHistory DEF Settled, SettledSource

LEMMA SourceKeptNext ==
  ASSUME SealedPlanAssumption, TypeOK, Control3, Past, SourceKept, Next
  PROVE  SourceKept'
<1>0. PinControl /\ StageControl /\ pin.clean \subseteq Worktree
  BY DEF Control3, TypeOK, PinType
<1>1. CASE Edit
  <2>0. UNCHANGED pin  BY <1>1, EditFrame
  <2>1. SUFFICES ASSUME NEW v \in pin.clean, NEW c \in Cases, SettledSource(v, c)',
                        pin.source[v][c] # None, work'[v][c] = Contents[pin.head[v]][c]
                 PROVE  pin.source[v][c] = Contents[pin.head[v]][c]
    BY <2>0 DEF SourceKept
  <2>2. v \in Worktree /\ <<v, c>> \notin backWork' /\ v \notin moved' /\ v \notin moved
    BY <1>0, <1>1, <2>1, EditHistory DEF SettledSource
  <2>3. Contents[pin.head[v]][c] \in pastWork[v][c]  BY <2>2 DEF Past
  <2>4. work'[v][c] = work[v][c]  BY <1>1, <2>1, <2>2, <2>3, EditHistory
  <2>5. SettledSource(v, c)
    BY <1>1, <2>1, <2>2, EditHistory DEF SettledSource
  <2> QED  BY <2>1, <2>4, <2>5 DEF SourceKept
<1>2. CASE Begin \/ ReloadPlan
  BY <1>2 DEF Begin, ReloadPlan, Unpinned, SourceKept
<1>3. CASE Moves \/ Pairing
  <2>1. UNCHANGED <<work, history, pin>>  BY <1>3, MovesFrame, PairingFrame DEF world
  <2> QED  BY <2>1 DEF SourceKept, SettledSource, history
<1>4. CASE Records
  <2>0. Recorded /\ PinControl' /\ UNCHANGED <<work, heads, history>>
    BY <1>0, <1>4, RecordsEffect, RecordsFrame DEF world
  <2>1. SUFFICES ASSUME NEW v \in pin'.clean, NEW c \in Cases, SettledSource(v, c),
                        pin'.source[v][c] # None, work[v][c] = Contents[pin'.head[v]][c]
                 PROVE  pin'.source[v][c] = Contents[pin'.head[v]][c]
    BY <2>0 DEF SourceKept, SettledSource, history
  <2>2. v \in Worktree
    <3>1. TypeOK'  BY <1>4, TypeRecords
    <3> QED  BY <3>1 DEF TypeOK, PinType
  <2>3. CASE pin'.source[v][c] = pin.source[v][c]
    <3>1. v \in pin.clean  BY <1>0, <2>1, <2>2, <2>3 DEF PinControl
    <3>2. pin'.head[v] = pin.head[v]  BY <1>0, <2>0, <2>2, <3>1 DEF Recorded, PinControl
    <3> QED  BY <2>1, <2>3, <3>1, <3>2 DEF SourceKept
  <2>4. CASE pin'.source[v][c] # pin.source[v][c]
    BY <2>0, <2>1, <2>2, <2>4 DEF Recorded
  <2> QED  BY <2>3, <2>4
<1> QED  BY <1>1, <1>2, <1>3, <1>4, Groups

LEMMA CaseKeptNext ==
  ASSUME SealedPlanAssumption, TypeOK, Control3, Past, CaseKept, Next
  PROVE  CaseKept'
<1>0. PinControl  BY DEF Control3
<1>1. CASE Edit
  <2>0. UNCHANGED pin  BY <1>1, EditFrame
  <2>1. SUFFICES ASSUME NEW c \in Cases, Settled(c)', pin.tree[c] # None,
                        trees'[c] = pin.prompt[c]
                 PROVE  pin.tree[c] = pin.prompt[c]
    BY <2>0 DEF CaseKept
  <2>2. pin.prompt[c] # None  BY <1>0, <2>1 DEF PinControl
  <2>3. pin.prompt[c] \in pastTree[c]  BY <2>2 DEF Past
  <2>4. trees'[c] = trees[c]  BY <1>1, <2>1, <2>3, EditHistory DEF Settled
  <2>5. Settled(c)  BY <1>1, <2>1, SettledAgain
  <2> QED  BY <2>1, <2>4, <2>5 DEF CaseKept
<1>2. CASE Begin \/ ReloadPlan
  BY <1>2 DEF Begin, ReloadPlan, Unpinned, CaseKept
<1>3. CASE Moves \/ Pairing
  <2>1. UNCHANGED <<trees, history, pin>>  BY <1>3, MovesFrame, PairingFrame DEF world
  <2> QED  BY <2>1 DEF CaseKept, Settled, history
<1>4. CASE Records
  <2>0. Recorded /\ UNCHANGED <<trees, history>>
    BY <1>0, <1>4, RecordsEffect, RecordsFrame DEF world
  <2>1. SUFFICES ASSUME NEW c \in Cases, Settled(c), pin'.tree[c] # None,
                        trees[c] = pin'.prompt[c]
                 PROVE  pin'.tree[c] = pin'.prompt[c]
    BY <2>0 DEF CaseKept, Settled, history
  <2>2. CASE pin'.tree[c] = pin.tree[c]
    <3>1. pin.prompt[c] # None  BY <1>0, <2>1, <2>2 DEF PinControl
    <3>2. pin'.prompt[c] = pin.prompt[c]  BY <2>0, <3>1 DEF Recorded
    <3> QED  BY <2>1, <2>2, <3>2 DEF CaseKept
  <2>3. CASE pin'.tree[c] # pin.tree[c]  BY <2>0, <2>1, <2>3 DEF Recorded
  <2> QED  BY <2>2, <2>3
<1> QED  BY <1>1, <1>2, <1>3, <1>4, Groups

LEMMA DraftKeptNext ==
  ASSUME SealedPlanAssumption, TypeOK, Control3, Past, CaseKept, DraftKept, Next
  PROVE  DraftKept'
<1>0. PinControl  BY DEF Control3
<1>1. CASE Edit
  <2>0. UNCHANGED <<pin, pc, draft>>  BY <1>1, EditFrame
  <2>1. SUFFICES ASSUME draft # None, NEW c \in Cases, Settled(c)',
                        \/ trees'[c] = draft.prompt[c]
                        \/ pc \notin {"reload", "ended"} /\ pin.prompt[c] = draft.prompt[c]
                 PROVE  draft.tree[c] = draft.prompt[c]
    BY <2>0 DEF DraftKept
  <2>2. draft.prompt[c] \in pastTree[c]  BY <2>1 DEF Past
  <2>3. trees'[c] = draft.prompt[c] => trees'[c] = trees[c]
    BY <1>1, <2>1, <2>2, EditHistory DEF Settled
  <2>4. Settled(c)  BY <1>1, <2>1, SettledAgain
  <2> QED  BY <2>1, <2>3, <2>4 DEF DraftKept
<1>2. CASE Begin  BY <1>2 DEF Begin, DraftKept
<1>3. CASE ReloadPlan
  <2>1. UNCHANGED <<trees, history, draft>> /\ pin' = Unpinned  BY <1>3 DEF ReloadPlan, world
  <2>2. ASSUME draft # None, NEW c \in Cases  PROVE pin'.prompt[c] # draft.prompt[c]
    BY <2>1, <2>2 DEF Unpinned, Past
  <2> QED  BY <2>1, <2>2 DEF DraftKept, Settled, history
<1>4. CASE Moves /\ ~WritePlan
  <2>1. UNCHANGED <<trees, history, pin>>  BY <1>4, MovesFrame
  <2>2. draft' = draft /\ (pc' \notin {"reload", "ended"} => pc \notin {"reload", "ended"})
    BY <1>4 DEF Moves, Raise, Die, AssertManifest, LoadRuntime, AssertSources, LoadPlan, BindPlan,
                CasesPinned, SealPlan, AssertAgain, Claim, Return
  <2> QED  BY <2>1, <2>2 DEF DraftKept, Settled, history
<1>5. CASE WritePlan
  <2>1. UNCHANGED <<trees, history, pin>> /\ pc' = "reload" /\ TreesPinned
    BY <1>5 DEF WritePlan, CasesPinned, TreesPinned
  <2>2. draft'.prompt = pin.prompt /\ draft'.tree = pin.tree
    BY <1>5 DEF WritePlan, Payload
  <2> QED  BY <2>1, <2>2 DEF DraftKept, CaseKept, TreesPinned, Settled, history
<1>6. CASE Records
  <2>0. Recorded /\ UNCHANGED <<trees, history, pc, draft>> /\ pc \in {"sources", "cases"}
    BY <1>0, <1>6, RecordsEffect, RecordsFrame DEF world
  <2>1. \A c \in Cases : pin'.prompt[c] = pin.prompt[c] \/ pin'.prompt[c] = trees[c]
    BY <2>0 DEF Recorded
  <2> QED  BY <2>0, <2>1 DEF DraftKept, Settled, history
<1>7. CASE Pairing
  <2>1. UNCHANGED <<trees, history, pin, pc, draft>>  BY <1>7, PairingFrame DEF world
  <2> QED  BY <2>1 DEF DraftKept, Settled, history
<1> QED  BY <1>1, <1>2, <1>3, <1>4, <1>5, <1>6, <1>7, Groups

\* A pair that is being run is one of the suite's, with its case.
LEMMA PairType ==
  ASSUME SealedPlanAssumption, TypeOK, pair # None
  PROVE  pair \in Pairs /\ Case \in Cases /\ \A r \in Roles : VariantOf(pair, r) \in Variants
<1>1. pair \in Pairs  BY DEF TypeOK, Maybe
<1>2. \A r \in Roles : VariantOf(pair, r) \in Variants  BY <1>1, VariantType
<1>3. Case \in Cases  BY <1>1 DEF Case, SealedPlanAssumption
<1> QED  BY <1>1, <1>2, <1>3

\* Fixtures come from the case, and only from there.
LEMMA ArmFixture ==
  ASSUME SealedPlanAssumption, TypeOK, Control3, NEW r \in Roles, Arm(r)
  PROVE  /\ \A s \in Roles : s # r => arm'[s] = arm[s]
         /\ arm'[r].fixture \in {arm[r].fixture, trees[Case]}
<1>1. arm \in [Roles -> ArmType] /\ arm[r] \in ArmType  BY DEF TypeOK
<1>2. \A s \in Roles : s # r => arm'[s] = arm[s]
  <2>1. PICK next \in ArmType : Step(r, arm[r].pc, next)  BY ArmStep
  <2> QED  BY <1>1, <2>1 DEF Step
<1>3. CASE CopyFixture(r)
  <2>1. arm'[r] = [arm[r] EXCEPT !.pc = "source", !.fixture = trees[Case]]
    BY <1>1, <1>3 DEF CopyFixture, Step
  <2> QED  BY <1>1, <1>2, <2>1 DEF ArmType
<1>4. CASE CheckFixture(r) \/ CheckSource(r) \/ CheckDirty(r) \/ CheckVerifier(r)
  BY <1>1, <1>2, <1>4 DEF CheckFixture, CheckSource, CheckDirty, CheckVerifier, Step, ArmType
<1>5. CASE TakeSource(r)
  BY <1>1, <1>2, <1>5 DEF TakeSource, Step, ArmType
<1>6. CASE CopySource(r) \/ CopyBench(r)
  BY <1>1, <1>2, <1>6 DEF CopySource, CopyBench, Step, ArmType
<1>7. CASE RunVerifier(r)
  <2>1. arm'[r] = [arm[r] EXCEPT !.pc = "done", !.tree = pin.tree[Case], !.tools = tools[Case]]
    BY <1>1, <1>7 DEF RunVerifier, Step
  <2> QED  BY <1>1, <1>2, <2>1 DEF ArmType
<1>8. CASE ArmFails(r)
  BY <1>1, <1>2, <1>8 DEF ArmFails, Step, ArmType
<1> QED  BY <1>3, <1>4, <1>5, <1>6, <1>7, <1>8 DEF Arm

LEMMA GivenKeptNext ==
  ASSUME SealedPlanAssumption, TypeOK, Control3, Past, GivenKept, Next
  PROVE  GivenKept'
<1>0. StageControl /\ ArmControl  BY DEF Control3
<1>1. CASE Edit
  <2>0. UNCHANGED <<pin, pair, given, arm>> /\ Case' = Case
    BY <1>1, EditFrame DEF running, Case
  <2>1. SUFFICES ASSUME pair # None, Settled(Case)', trees'[Case] = pin.tree[Case]
                 PROVE  /\ given.prompt \in {None, pin.tree[Case]}
                        /\ given.base \in {None, pin.tree[Case]}
                        /\ \A r \in Roles : arm[r].fixture \in {None, pin.tree[Case]}
    BY <2>0 DEF GivenKept
  <2>2. Case \in Cases /\ Case \notin backTree'
    BY <2>0, <2>1, PairType DEF Settled
  <2>3. pin.tree[Case] \in pastTree[Case]
    BY <2>1, <2>2, PairIsReady DEF Ready, TreesPinned, Past
  <2>4. trees'[Case] = trees[Case] /\ Case \notin backTree
    BY <1>1, <2>1, <2>2, <2>3, EditHistory
  <2> QED  BY <2>1, <2>4 DEF GivenKept, Settled
<1>2. CASE Begin \/ FinishPair  BY <1>2 DEF Begin, FinishPair, GivenKept
<1>3. CASE ReloadPlan \/ Records
  <2>1. pair = None /\ pair' = pair
    BY <1>0, <1>3, RecordsFrame DEF ReloadPlan, StageControl, running
  <2> QED  BY <2>1 DEF GivenKept
<1>4. CASE Moves
  BY <1>4, MovesFrame DEF GivenKept, Settled, history, running, Case
<1>5. ASSUME NEW p \in Pairs, StartPair(p)  PROVE GivenKept'
  BY <1>5 DEF StartPair, GivenKept, Nothing, Idle, NoArm
<1>6. CASE ReadPairPrompt
  <2>1. given' = [given EXCEPT !.prompt = trees[Case]] /\ UNCHANGED <<world, history, pin, pair, arm>>
    BY <1>6 DEF ReadPairPrompt
  <2>2. given'.prompt = trees[Case] /\ given'.base = given.base  BY <2>1 DEF TypeOK
  <2> QED  BY <2>1, <2>2 DEF GivenKept, Settled, world, history, Case
<1>7. CASE ReadBaseFiles
  <2>1. given' = [given EXCEPT !.base = trees[Case]] /\ UNCHANGED <<world, history, pin, pair>>
    BY <1>7 DEF ReadBaseFiles
  <2>2. given'.base = trees[Case] /\ given'.prompt = given.prompt  BY <2>1 DEF TypeOK
  <2>3. \A r \in Roles : arm'[r].fixture = None  BY <1>7 DEF ReadBaseFiles, NoArm
  <2> QED  BY <2>1, <2>2, <2>3 DEF GivenKept, Settled, world, history, Case
<1>8. ASSUME NEW r \in Roles, Arm(r)  PROVE GivenKept'
  <2>1. UNCHANGED <<world, history, pin, pair, given>>  BY <1>8, ArmFrame
  <2>2. \A s \in Roles : arm'[s].fixture \in {arm[s].fixture, trees[Case]}
    BY <1>8, ArmFixture
  <2> QED  BY <2>1, <2>2 DEF GivenKept, Settled, world, history, Case
<1> QED  BY <1>1, <1>2, <1>3, <1>4, <1>5, <1>6, <1>7, <1>8, Groups DEF Pairing

\* What an arm has when it takes its next step.
LEMMA ArmKeptStep ==
  ASSUME SealedPlanAssumption, TypeOK, Control3, Past, SourceKept, GivenKept, ArmKept,
         NEW r \in Roles, Arm(r)
  PROVE  GivenAt(r)' /\ SourceAt(r)' /\ VerifierAt(r)'
<1>0. /\ UNCHANGED <<world, history, pin, pair, given>> /\ Case' = Case
      /\ \A v \in Variants : SettledSource(v, Case)' = SettledSource(v, Case)
      /\ Settled(Case)' = Settled(Case) /\ VariantOf(pair, r)' = VariantOf(pair, r)
  BY ArmFrame DEF Case, history, SettledSource, Settled, VariantOf
<1> DEFINE v == VariantOf(pair, r)
<1>1. /\ pair # None /\ Case \in Cases /\ v \in Variants
      /\ arm \in [Roles -> ArmType] /\ arm[r] \in ArmType
  BY ArmStep, ArmFrame DEF TypeOK, Running
<1>2. GivenAt(r) /\ SourceAt(r) /\ VerifierAt(r)  BY <1>1 DEF ArmKept
<1>3. Ready /\ PinControl /\ ArmControl  BY <1>1, PairIsReady DEF Control3
<1>4. pin.source[v][Case] # None /\ pin.tree[Case] # None
  BY <1>1, <1>3 DEF Ready, SourcesPinned, TreesPinned
<1>5. Worktree \cap (Plain \cup GitRef) = {} /\ Variants = Plain \cup GitRef \cup Worktree
  BY DEF SealedPlanAssumption, Repositories, Variants
<1> HIDE DEF v
<1>6. CASE CheckFixture(r) \/ CopyFixture(r)
  <2>1. arm'[r].pc \in {"fixture", "source"}
    BY <1>1, <1>6 DEF CheckFixture, CopyFixture, Step, ArmType
  <2> QED  BY <2>1 DEF GivenAt, SourceAt, VerifierAt
<1>7. CASE TakeSource(r)
  <2>1. \/ /\ v \in Plain /\ arm'[r].pc = "call" /\ arm'[r].source = Empty
        \/ /\ v \in GitRef /\ arm'[r].pc = "call"
           /\ arm'[r].source = Contents[pin.commit[v]][Case]
        \/ arm'[r].pc = "fingerprint"
    BY <1>1, <1>7 DEF TakeSource, Step, ArmType, v
  <2>2. v \in Plain => pin.source[v][Case] = Empty  BY <1>1, <1>3 DEF PinControl
  <2>3. v \in GitRef => pin.source[v][Case] = Contents[pin.commit[v]][Case]
    BY <1>1, <1>3, <1>4 DEF PinControl
  <2>4. arm'[r].pc = "fingerprint" \/ arm'[r].source = pin'.source[v][Case]
    BY <1>0, <2>1, <2>2, <2>3
  <2>5. SourceAt(r)'  BY <1>0, <2>1, <2>4 DEF SourceAt, v
  <2> QED  BY <2>1, <2>5 DEF GivenAt, VerifierAt
<1>8. CASE CheckSource(r)
  <2>1. arm'[r].pc = "copy"  BY <1>1, <1>8 DEF CheckSource, Step, ArmType
  <2> QED  BY <2>1 DEF GivenAt, SourceAt, VerifierAt
<1>9. CASE CopySource(r)
  <2>1. arm'[r].pc = "dirty" /\ arm'[r].source = work[v][Case] /\ arm[r].pc = "copy"
    BY <1>1, <1>9 DEF CopySource, Step, ArmType, v
  <2>2. v \in Worktree /\ v \in pin.clean
    BY <1>1, <1>3, <1>4, <2>1 DEF ArmControl, PinControl, v
  <2>3. SettledSource(v, Case) /\ work[v][Case] = Contents[pin.head[v]][Case]
          => pin.source[v][Case] = work[v][Case]
    BY <1>1, <1>4, <2>2 DEF SourceKept
  <2>4. UNCHANGED work  BY <1>0 DEF world
  <2>5. SourceAt(r)'  BY <1>0, <1>1, <2>1, <2>3, <2>4 DEF SourceAt, v
  <2> QED  BY <2>1, <2>5 DEF GivenAt, VerifierAt
<1>10. CASE CheckDirty(r)
  <2>1. /\ arm'[r].pc = "call" /\ arm'[r].source = arm[r].source /\ arm[r].pc = "dirty"
        /\ work[v][Case] = Contents[heads[v]][Case]
    BY <1>1, <1>10 DEF CheckDirty, Step, ArmType, v
  <2>2. v \in Worktree /\ v \in pin.clean /\ pin.head[v] # None
    BY <1>1, <1>3, <1>4, <2>1 DEF ArmControl, PinControl, v
  <2>3. SettledSource(v, Case) => heads[v] = pin.head[v]
    BY <2>2 DEF SettledSource, Past
  <2>4. SettledSource(v, Case) => arm[r].source = pin.source[v][Case]
    BY <1>2, <2>1, <2>3 DEF SourceAt, v
  <2>5. SourceAt(r)'  BY <1>0, <1>1, <2>1, <2>4 DEF SourceAt, v
  <2> QED  BY <2>1, <2>5 DEF GivenAt, VerifierAt
<1>11. CASE CheckVerifier(r)
  <2>1. /\ arm'[r] = [arm[r] EXCEPT !.pc = "bench"] /\ arm[r].pc = "call"
        /\ trees[Case] = pin.tree[Case]
    BY <1>1, <1>11 DEF CheckVerifier, Step, AssertCase
  <2>2. arm'[r].pc = "bench" /\ arm'[r].source = arm[r].source /\ arm'[r].fixture = arm[r].fixture
    BY <1>1, <2>1 DEF ArmType
  <2>3. given.prompt # None /\ given.base # None /\ arm[r].fixture # None
    BY <1>3, <2>1 DEF ArmControl
  <2>4. Settled(Case) => /\ given.prompt = pin.tree[Case] /\ given.base = pin.tree[Case]
                         /\ arm[r].fixture = pin.tree[Case]
    BY <1>1, <2>1, <2>3 DEF GivenKept
  <2>5. GivenAt(r)'  BY <1>0, <2>2, <2>4 DEF GivenAt
  <2>6. SourceAt(r)'
    BY <1>0, <1>1, <1>2, <2>1, <2>2 DEF SourceAt, v
  <2> QED  BY <2>2, <2>5, <2>6 DEF VerifierAt
<1>12. CASE CopyBench(r)
  <2>1. arm'[r].pc = "verify" /\ arm'[r].source = arm[r].source /\ arm'[r].fixture = arm[r].fixture
        /\ arm[r].pc = "bench"
    BY <1>1, <1>12 DEF CopyBench, Step, ArmType
  <2>2. GivenAt(r)'  BY <1>0, <1>2, <2>1 DEF GivenAt
  <2>3. SourceAt(r)'  BY <1>0, <1>1, <1>2, <2>1 DEF SourceAt, v
  <2> QED  BY <2>1, <2>2, <2>3 DEF VerifierAt
<1>13. CASE RunVerifier(r)
  <2>1. arm'[r] = [arm[r] EXCEPT !.pc = "done", !.tree = pin.tree[Case], !.tools = tools[Case]]
        /\ arm[r].pc = "verify" /\ tools[Case] = pin.tools[Case]
    BY <1>1, <1>13 DEF RunVerifier, Step
  <2>2. arm'[r].pc = "done" /\ arm'[r].source = arm[r].source /\ arm'[r].fixture = arm[r].fixture
        /\ arm'[r].tree = pin.tree[Case] /\ arm'[r].tools = pin.tools[Case]
    BY <1>1, <2>1 DEF ArmType
  <2>3. GivenAt(r)'  BY <1>0, <1>2, <2>1, <2>2 DEF GivenAt
  <2>4. SourceAt(r)'  BY <1>0, <1>1, <1>2, <2>1, <2>2 DEF SourceAt, v
  <2>5. VerifierAt(r)'  BY <1>0, <2>2 DEF VerifierAt
  <2> QED  BY <2>3, <2>4, <2>5
<1>14. CASE ArmFails(r)
  <2>1. arm'[r].pc = "failed"  BY <1>1, <1>14 DEF ArmFails, Step, ArmType
  <2> QED  BY <2>1 DEF GivenAt, SourceAt, VerifierAt
<1> QED
  BY <1>6, <1>7, <1>8, <1>9, <1>10, <1>11, <1>12, <1>13, <1>14 DEF Arm

LEMMA ArmKeptNext ==
  ASSUME SealedPlanAssumption, TypeOK, Control3, Past, SourceKept, GivenKept, ArmKept, Next
  PROVE  ArmKept'
<1>0. StageControl /\ ArmControl /\ PinControl  BY DEF Control3
<1>1. CASE Edit
  <2>0. UNCHANGED <<pin, pair, given, arm>> /\ Case' = Case
        /\ \A r \in Roles : VariantOf(pair, r)' = VariantOf(pair, r)
    BY <1>1, EditFrame DEF running, Case, VariantOf
  <2>1. SUFFICES ASSUME pair # None, NEW r \in Roles
                 PROVE  GivenAt(r)' /\ SourceAt(r)' /\ VerifierAt(r)'
    BY <2>0 DEF ArmKept
  <2> DEFINE v == VariantOf(pair, r)
  <2>2. GivenAt(r) /\ SourceAt(r) /\ VerifierAt(r)  BY <2>1 DEF ArmKept
  <2>3. Case \in Cases /\ v \in Variants  BY <2>1, PairType
  <2>4. (Settled(Case)' => Settled(Case)) /\ (SettledSource(v, Case)' => SettledSource(v, Case))
    <3> HIDE DEF v
    <3>1. Settled(Case)' => Settled(Case)
      BY <1>1, <2>0, <2>3, SettledAgain DEF Settled
    <3>2. SettledSource(v, Case)' => SettledSource(v, Case)
      BY <1>1, <2>0, <2>3, SettledAgain DEF SettledSource, v
    <3> QED  BY <3>1, <3>2
  <2>5. ASSUME arm[r].pc = "dirty", SettledSource(v, Case)',
               work'[v][Case] = Contents[pin.head[v]][Case]
        PROVE  work[v][Case] = Contents[pin.head[v]][Case]
    <3>1. v \in Worktree  BY <1>0, <2>5 DEF ArmControl
    <3>2. pin.source[v][Case] # None
      BY <2>1, <2>3, PairIsReady DEF Ready, SourcesPinned
    <3>3. v \in pin.clean  BY <1>0, <2>3, <3>1, <3>2 DEF PinControl
    <3>4. v \notin moved' /\ <<v, Case>> \notin backWork'
      BY <2>0, <2>5, <3>1 DEF SettledSource
    <3>5. v \notin moved  BY <1>1, <3>4, EditHistory
    <3>6. Contents[pin.head[v]][Case] \in pastWork[v][Case]
      BY <2>3, <3>1, <3>3, <3>5 DEF Past
    <3> QED  BY <1>1, <2>3, <2>5, <3>1, <3>4, <3>6, EditHistory
  <2>6. GivenAt(r)'  BY <2>0, <2>2, <2>4 DEF GivenAt
  <2>7. SourceAt(r)'  BY <2>0, <2>2, <2>4, <2>5 DEF SourceAt
  <2>8. VerifierAt(r)'  BY <2>0, <2>2 DEF VerifierAt
  <2> QED  BY <2>6, <2>7, <2>8
<1>2. CASE Begin \/ FinishPair  BY <1>2 DEF Begin, FinishPair, ArmKept
<1>3. CASE ReloadPlan \/ Records
  <2>1. pair = None /\ pair' = pair
    BY <1>0, <1>3, RecordsFrame DEF ReloadPlan, StageControl, running
  <2> QED  BY <2>1 DEF ArmKept
<1>4. CASE Moves
  BY <1>4, MovesFrame DEF ArmKept, GivenAt, SourceAt, VerifierAt, Settled, SettledSource,
                          history, running, Case, VariantOf
<1>5. CASE (\E p \in Pairs : StartPair(p)) \/ ReadPairPrompt \/ ReadBaseFiles
  <2>1. ASSUME NEW r \in Roles  PROVE arm'[r].pc \in {"none", "check"}
    BY <1>0, <1>5, <2>1
       DEF StartPair, ReadPairPrompt, ReadBaseFiles, Idle, NoArm, ArmControl
  <2> QED  BY <2>1 DEF ArmKept, GivenAt, SourceAt, VerifierAt
<1>6. ASSUME NEW r \in Roles, Arm(r)  PROVE ArmKept'
  <2>1. GivenAt(r)' /\ SourceAt(r)' /\ VerifierAt(r)'  BY <1>6, ArmKeptStep
  <2>2. ASSUME NEW s \in Roles, s # r  PROVE GivenAt(s)' /\ SourceAt(s)' /\ VerifierAt(s)'
    <3>1. UNCHANGED <<world, history, pin, pair, given>> /\ arm'[s] = arm[s] /\ pair # None
      BY <1>6, <2>2, ArmFrame, ArmFixture DEF Running
    <3>2. GivenAt(s) /\ SourceAt(s) /\ VerifierAt(s)  BY <3>1 DEF ArmKept
    <3> QED
      BY <3>1, <3>2 DEF GivenAt, SourceAt, VerifierAt, Settled, SettledSource, world, history,
                        Case, VariantOf
  <2> QED  BY <2>1, <2>2 DEF ArmKept
<1> QED  BY <1>1, <1>2, <1>3, <1>4, <1>5, <1>6, Groups DEF Pairing

\* The same of one record of pair_results.
RecordKept(q) ==
  /\ q.pair \in Pairs
  /\ q.completed =>
       /\ q.judge = plan.release
       /\ \A r \in Roles :
            LET v == VariantOf(q.pair, r)
                c == CaseOf[q.pair]
            IN  /\ SettledSource(v, c) => q.arm[r].source = plan.source[v][c]
                /\ q.arm[r].tree = plan.tree[c] /\ q.arm[r].tools = pin.tools[c]
                /\ Settled(c) => /\ q.given = [prompt |-> plan.tree[c], base |-> plan.tree[c]]
                                 /\ q.arm[r].fixture = plan.tree[c]

LEMMA RecordsKept == PairsKept <=> \A q \in pairs : RecordKept(q)
<1>1. "control" \in Roles  BY DEF Roles
<1>2. ASSUME \A q \in pairs : RecordKept(q)  PROVE PairsKept
  BY <1>1, <1>2 DEF RecordKept, PairsKept, SourceAsSealed, CaseAsSealed, Completed
<1>3. ASSUME PairsKept  PROVE \A q \in pairs : RecordKept(q)
  BY <1>3 DEF RecordKept, PairsKept, SourceAsSealed, CaseAsSealed, Completed
<1> QED  BY <1>2, <1>3

LEMMA PairsKeptNext ==
  ASSUME SealedPlanAssumption, TypeOK, Control3, Past, ArmKept, PairsKept, Next
  PROVE  PairsKept'
<1>0. StageControl /\ \A q \in pairs : RecordKept(q)  BY RecordsKept DEF Control3
<1>1. SUFFICES ASSUME NEW q \in pairs'  PROVE RecordKept(q)'
  <2>1. (PairsKept <=> \A q \in pairs : RecordKept(q))'  BY RecordsKept, PTL
  <2> QED  BY <2>1
<1>2. CASE Edit
  <2>1. UNCHANGED <<pin, plan, pairs>>  BY <1>2, EditFrame DEF running
  <2>2. RecordKept(q)  BY <1>0, <2>1
  <2>3. CaseOf[q.pair] \in Cases /\ \A r \in Roles : VariantOf(q.pair, r) \in Variants
    BY <2>2, VariantType DEF RecordKept, SealedPlanAssumption
  <2>4. Settled(CaseOf[q.pair])' => Settled(CaseOf[q.pair])
    BY <1>2, <2>3, SettledAgain
  <2>5. \A r \in Roles : SettledSource(VariantOf(q.pair, r), CaseOf[q.pair])'
                           => SettledSource(VariantOf(q.pair, r), CaseOf[q.pair])
    BY <1>2, <2>3, SettledAgain
  <2> QED  BY <2>1, <2>2, <2>4, <2>5 DEF RecordKept
<1>3. CASE Begin  BY <1>3 DEF Begin
<1>4. CASE ReloadPlan \/ Records
  BY <1>0, <1>4, RecordsFrame DEF ReloadPlan, StageControl, running
<1>5. CASE Moves
  <2>1. UNCHANGED <<history, pin, pairs>>  BY <1>5, MovesFrame DEF running
  <2>2. pc \in {"pairs", "ended"}  BY <1>0, <2>1 DEF StageControl
  <2>3. plan' = plan
    BY <1>5, <2>2 DEF Moves, Raise, Die, AssertManifest, LoadRuntime, AssertSources, LoadPlan,
                      CasesPinned, BindPlan, WritePlan, SealPlan, AssertAgain, Claim, Return
  <2> QED
    BY <1>0, <2>1, <2>3 DEF RecordKept, Settled, SettledSource, history
<1>6. CASE Pairing
  <2>1. UNCHANGED <<history, pin, plan, judge>>  BY <1>6, PairingFrame
  <2>2. CASE q \in pairs
    BY <1>0, <2>1, <2>2 DEF RecordKept, Settled, SettledSource, history
  <2>3. CASE q \notin pairs
    <3>1. FinishPair
      BY <1>6, <2>3, ArmFrame DEF Pairing, StartPair, ReadPairPrompt, ReadBaseFiles
    <3>2. /\ q.pair = pair /\ q.arm = arm /\ q.given = given /\ q.judge = judge
          /\ q.completed => \A r \in Roles : arm[r].pc = "done"
      BY <2>3, <3>1 DEF FinishPair
    <3>3. pair # None /\ pair \in Pairs  BY <3>1, PairType DEF FinishPair, Running
    <3>4. plan.release = judge /\ plan.source = pin.source /\ plan.tree = pin.tree
      BY <3>3, PairIsReady DEF Ready, Payload
    <3>5. ASSUME q.completed, NEW r \in Roles
          PROVE  /\ SettledSource(VariantOf(pair, r), Case)
                      => arm[r].source = plan.source[VariantOf(pair, r)][Case]
                 /\ arm[r].tree = plan.tree[Case] /\ arm[r].tools = pin.tools[Case]
                 /\ Settled(Case) => /\ given = [prompt |-> plan.tree[Case], base |-> plan.tree[Case]]
                                     /\ arm[r].fixture = plan.tree[Case]
      <4>1. arm[r].pc = "done" /\ GivenAt(r) /\ SourceAt(r) /\ VerifierAt(r)
        BY <3>2, <3>3, <3>5 DEF ArmKept
      <4>2. given = [prompt |-> given.prompt, base |-> given.base]  BY DEF TypeOK
      <4> QED  BY <3>4, <4>1, <4>2 DEF GivenAt, SourceAt, VerifierAt
    <3> QED
      BY <2>1, <3>2, <3>3, <3>4, <3>5 DEF RecordKept, Settled, SettledSource, history, Case
  <2> QED  BY <2>2, <2>3
<1> QED  BY <1>2, <1>3, <1>4, <1>5, <1>6, Groups

LEMMA ResultKeptNext ==
  ASSUME SealedPlanAssumption, TypeOK, Control3, Past, DraftKept, ResultOfPlan, SealedAtOnce, Next
  PROVE  ResultOfPlan' /\ SealedAtOnce'
<1>0. StageControl  BY DEF Control3
<1>1. CASE Edit
  <2>1. UNCHANGED <<task, suite, judge, pin, draft, plan, pairs, result>>
    BY <1>1, EditFrame DEF running
  <2>2. Payload' = Payload  BY <2>1 DEF Payload
  <2>3. \A c \in Cases : Settled(c)' => Settled(c)  BY <1>1, SettledAgain
  <2> QED  BY <2>1, <2>2, <2>3 DEF ResultOfPlan, SealedAtOnce
<1>2. CASE Begin  BY <1>2 DEF Begin, ResultOfPlan, SealedAtOnce
<1>3. CASE Records \/ Pairing \/ ReloadPlan
  <2>1. result = None /\ result' = None
    BY <1>0, <1>3, RecordsFrame, PairingFrame DEF ReloadPlan, StageControl
  <2> QED  BY <2>1 DEF ResultOfPlan, SealedAtOnce
<1>4. CASE Moves /\ ~SealPlan /\ ~Return
  <2>1. result = None /\ result' = None
    BY <1>0, <1>4 DEF Moves, Raise, Die, AssertManifest, LoadRuntime, AssertSources, LoadPlan,
                      CasesPinned, BindPlan, WritePlan, AssertAgain, Claim, StageControl
  <2> QED  BY <2>1 DEF ResultOfPlan, SealedAtOnce
<1>5. CASE SealPlan
  <2>1. /\ UNCHANGED <<task, suite, judge, pin, draft, plan, history>>
        /\ pc = "bound" /\ task = "prepare" /\ plan = draft /\ result' = plan
    BY <1>5 DEF SealPlan
  <2>2. plan = Payload /\ Payload' = Payload  BY <1>0, <2>1 DEF StageControl, Payload
  <2>3. plan.prompt = pin.prompt  BY <2>2 DEF Payload
  <2>4. ASSUME result' # None, NEW c \in Cases, Settled(c)
        PROVE  draft.tree[c] = draft.prompt[c]
    BY <2>1, <2>3, <2>4 DEF DraftKept
  <2>5. ResultOfPlan'  BY <2>1 DEF ResultOfPlan
  <2>6. SealedAtOnce'
    BY <2>1, <2>2, <2>4 DEF SealedAtOnce, Settled, history
  <2> QED  BY <2>5, <2>6
<1>6. CASE Return
  <2>1. /\ UNCHANGED <<task, suite, judge, pin, plan, pairs>> /\ pc = "pairs"
        /\ result' = [plan |-> plan, pairs |-> pairs]
        /\ \A p \in Pairs : \E q \in pairs : q.pair = p
    BY <1>6 DEF Return, running
  <2>2. task = "run" /\ plan = Payload /\ Payload' = Payload
    BY <1>0, <2>1 DEF StageControl, Payload
  <2> QED  BY <2>1, <2>2 DEF ResultOfPlan, SealedAtOnce
<1> QED  BY <1>1, <1>2, <1>3, <1>4, <1>5, <1>6, Groups

-----------------------------------------------------------------------------
(* The invariant is inductive.                                             *)

LEMMA TypeNext ==
  ASSUME SealedPlanAssumption, TypeOK, Control3, Next
  PROVE  TypeOK'
BY TypeEdit, TypeControl, TypeRecords, TypeRun DEF Next, PreflightReads, Prepare, Run, Records

LEMMA InvariantInit ==
  ASSUME SealedPlanAssumption, Init
  PROVE  IInv
<1>1. TypeOK  BY TypeInit
<1>2. pin = Unpinned /\ pair = None /\ pairs = {} /\ draft = None /\ result = None /\ arm = Idle
      /\ pc = "ended"
  BY DEF Init
<1>3. PinControl
  BY <1>2 DEF SealedPlanAssumption, PinControl, Unpinned, Variants, Repositories
<1>4. StageControl /\ ArmControl
  BY <1>2 DEF StageControl, ArmControl, Idle, NoArm
<1>5. Past
  <2>1. \A c \in Cases : pastTree[c] = {trees[c]}  BY DEF Init
  <2>2. \A v \in Worktree, c \in Cases : pastWork[v][c] = {work[v][c]}  BY DEF Init
  <2> QED  BY <1>2, <2>1, <2>2 DEF Past, Unpinned
<1>6. SourceKept /\ CaseKept /\ DraftKept /\ GivenKept /\ ArmKept
  BY <1>2 DEF SourceKept, CaseKept, DraftKept, GivenKept, ArmKept, Unpinned
<1>7. PairsKept  BY <1>2, RecordsKept
<1> QED
  BY <1>1, <1>2, <1>3, <1>4, <1>5, <1>6, <1>7 DEF IInv, Control3, ResultOfPlan, SealedAtOnce

LEMMA InvariantNext ==
  ASSUME SealedPlanAssumption, IInv, [Next]_vars
  PROVE  IInv'
<1>1. CASE Next
  BY <1>1, TypeNext, PinControlNext, StageControlNext, ArmControlNext, PastNext, SourceKeptNext,
     CaseKeptNext, DraftKeptNext, GivenKeptNext, ArmKeptNext, PairsKeptNext, ResultKeptNext
     DEF IInv, Control3
<1>2. CASE UNCHANGED vars
  <2> USE <1>2 DEF vars, world, history, running
  <2>1. TypeOK'  BY DEF IInv, TypeOK
  <2>2. PinControl' /\ StageControl' /\ ArmControl'
    BY DEF IInv, Control3, PinControl, StageControl, ArmControl, SourcesPinned, TreesPinned,
           Ready, Payload, VariantOf
  <2>3. Past' /\ SourceKept' /\ CaseKept' /\ DraftKept'
    BY DEF IInv, Past, SourceKept, CaseKept, DraftKept, Settled, SettledSource
  <2>4. GivenKept' /\ ArmKept'
    BY DEF IInv, GivenKept, ArmKept, GivenAt, SourceAt, VerifierAt, Settled, SettledSource,
           Case, VariantOf
  <2>5. PairsKept'
    BY DEF IInv, PairsKept, SourceAsSealed, CaseAsSealed, Completed, Settled, SettledSource,
           VariantOf
  <2>6. ResultOfPlan' /\ SealedAtOnce'
    BY DEF IInv, ResultOfPlan, SealedAtOnce, Payload, Settled
  <2> QED  BY <2>1, <2>2, <2>3, <2>4, <2>5, <2>6 DEF IInv, Control3
<1> QED  BY <1>1, <1>2

LEMMA Inductive ==
  ASSUME SealedPlanAssumption
  PROVE  Spec => []IInv
BY InvariantInit, InvariantNext, PTL DEF Spec

-----------------------------------------------------------------------------
(* The theorems.                                                           *)

\* Whatever refs, HEADs, files, executables, suite and plan become while a run is
\* going, an arm of a completed pair had the source the sealed plan binds for it,
\* a worktree whose HEAD moved or a file that took an earlier content again
\* excepted: _preflight_variant, the plan binding and _materialize_source.
THEOREM SourcesSealed ==
  ASSUME SealedPlanAssumption
  PROVE  Spec => []SourceAsSealed
<1>1. IInv => SourceAsSealed  BY DEF IInv, PairsKept
<1> QED  BY <1>1, Inductive, PTL

\* The same executions never judge a source against itself: the collision check
\* _assert_generic_holdout_source_authority makes once, in preflight, speaks of
\* what the arms are given hours later.
THEOREM SourcesDiffer ==
  ASSUME SealedPlanAssumption
  PROVE  Spec => []ArmsDiffer
<1>1. ASSUME IInv  PROVE ArmsDiffer
  <2>1. SUFFICES ASSUME NEW q \in Completed,
                        \A r \in Roles : SettledSource(VariantOf(q.pair, r), CaseOf[q.pair])
                 PROVE  q.arm["control"].source # q.arm["treatment"].source
    BY DEF ArmsDiffer
  <2>2. q \in pairs /\ q.pair \in Pairs
    BY <1>1, <2>1 DEF Completed, IInv, PairsKept
  <2>3. SourcesPinned /\ plan.source = pin.source
    BY <1>1, <2>2, PairIsReady DEF IInv, Ready, Payload
  <2>4. \A r \in Roles : q.arm[r].source = pin.source[VariantOf(q.pair, r)][CaseOf[q.pair]]
    BY <1>1, <2>1, <2>3 DEF IInv, PairsKept, SourceAsSealed
  <2>5. /\ VariantOf(q.pair, "control") = Control[q.pair]
        /\ VariantOf(q.pair, "treatment") = Treatment[q.pair]
    BY DEF VariantOf
  <2> QED  BY <2>2, <2>3, <2>4, <2>5 DEF SourcesPinned, Roles
<1> QED  BY <1>1, Inductive, PTL

\* Verifier, executables and judge of a completed pair are the attested ones, and
\* prompt, fixture and base files those of the sealed tree, wherever the edits
\* fell: _assert_case_integrity before and after the agent, _run_verifier on the
\* stored snapshot, _copy_attested_executable.
THEOREM CasesSealed ==
  ASSUME SealedPlanAssumption
  PROVE  Spec => []CaseAsSealed
<1>1. IInv => CaseAsSealed  BY DEF IInv, PairsKept
<1> QED  BY <1>1, Inductive, PTL

\* A run that returns has run every pair, and the plan in its result is the plan
\* its own preflight came to: run, _bind_holdout_plan.
THEOREM ResultsOfPlan ==
  ASSUME SealedPlanAssumption
  PROVE  Spec => []ResultOfPlan
<1>1. IInv => ResultOfPlan  BY DEF IInv
<1> QED  BY <1>1, Inductive, PTL

\* A plan prepare_holdout_plan returns was never a mixture: two preflights, with
\* edits between any two of their reads, and prompt and tree of every case are of
\* one content.
THEOREM SealedInOneState ==
  ASSUME SealedPlanAssumption
  PROVE  Spec => []SealedAtOnce
<1>1. IInv => SealedAtOnce  BY DEF IInv
<1> QED  BY <1>1, Inductive, PTL

----------------------------------------------------------------------------
(* The plan of a suite's holdout.                                          *)

\* A release selects what a loaded suite says, whoever names the plan.
LEMMA ReleaseSelects ==
  ASSUME NEW s, NEW named
  PROVE  /\ SelectedCases(s, Release(s, named))
              = {i \in DOMAIN s.cases : s.cases[i].split = "holdout"}
         /\ s.holdout # <<>> =>
              SelectedComparisons(s, Release(s, named))
                = {m \in DOMAIN s.comparisons : s.comparisons[m].id \in ToSet(s.holdout)}
BY DEF Release, SelectedCases, SplitCases, SelectedComparisons

\* The array has the holdout comparisons in the order the suite names them.
Named(array, s) ==
  \A n \in DOMAIN array : \A m \in DOMAIN s.comparisons :
    s.comparisons[m].id = s.holdout[n] => array[n] = s.comparisons[m]

\* The array has the selected comparisons and no other.
Holds(array, s, sel) ==
  ToSet(array) = {s.comparisons[m] : m \in SelectedComparisons(s, sel)}

\* The comparisons a plan is prepared with are listed in the order of the suite's
\* holdout comparisons and compared in the order of the manifest: the loader's
\* rule makes them the same.
LEMMA ComparisonsInOrder ==
  ASSUME NEW s, NEW d, NEW sel, sel.comparisons = s.holdout, HoldoutParses(s.holdout, s.comparisons),
         UniqueIds(s.comparisons), s.holdout # <<>>,
         DOMAIN s.holdout \subseteq Nat, DOMAIN s.comparisons \subseteq Nat,
         DOMAIN d.comparisons = DOMAIN s.holdout, Named(d.comparisons, s)
  PROVE  /\ Lists(d.comparisons, ComparisonBindings(s, SelectedComparisons(s, sel)))
         /\ UniqueIds(d.comparisons) /\ Holds(d.comparisons, s, sel)
<1> DEFINE ms == SelectedComparisons(s, sel)
           at == [n \in DOMAIN s.holdout |->
                    CHOOSE m \in DOMAIN s.comparisons : s.comparisons[m].id = s.holdout[n]]
<1>1. ms = {m \in DOMAIN s.comparisons : s.comparisons[m].id \in ToSet(s.holdout)}
  BY DEF SelectedComparisons
<1>2. ASSUME NEW n \in DOMAIN s.holdout
      PROVE  /\ at[n] \in DOMAIN s.comparisons /\ s.comparisons[at[n]].id = s.holdout[n]
             /\ at[n] \in ms
  <2>1. s.holdout[n] \in ToSet(s.holdout)
    BY DEF ToSet
  <2>2. \E m \in DOMAIN s.comparisons : s.comparisons[m].id = s.holdout[n]
    BY <2>1 DEF HoldoutParses, Ids
  <2>3. at[n] \in DOMAIN s.comparisons /\ s.comparisons[at[n]].id = s.holdout[n]
    BY <2>2
  <2>. QED  BY <1>1, <2>1, <2>3
<1> HIDE DEF at, ms
<1>3. ASSUME NEW m \in DOMAIN s.holdout, NEW n \in DOMAIN s.holdout
      PROVE  m < n <=> at[m] < at[n]
  <2>1. /\ at[m] \in DOMAIN s.comparisons /\ s.comparisons[at[m]].id = s.holdout[m]
        /\ at[n] \in DOMAIN s.comparisons /\ s.comparisons[at[n]].id = s.holdout[n]
    BY <1>2
  <2>. QED  BY <2>1 DEF HoldoutParses
<1>4. ASSUME NEW m \in DOMAIN s.holdout, NEW n \in DOMAIN s.holdout, at[m] = at[n]
      PROVE  m = n
  <2>1. at[m] \in Nat /\ m \in Nat /\ n \in Nat
    BY <1>2
  <2>2. (m < n <=> at[m] < at[n]) /\ (n < m <=> at[n] < at[m])
    BY <1>3
  <2>3. ~(at[m] < at[n]) /\ ~(at[n] < at[m])
    BY <1>4, <2>1
  <2>. QED  BY <2>1, <2>2, <2>3
<1>5. \A m \in ms : \E n \in DOMAIN s.holdout : at[n] = m
  <2>1. SUFFICES ASSUME NEW m \in ms  PROVE \E n \in DOMAIN s.holdout : at[n] = m
    OBVIOUS
  <2>2. PICK n \in DOMAIN s.holdout : s.comparisons[m].id = s.holdout[n]
    BY <1>1 DEF ToSet
  <2>3. at[n] = m
    BY <1>1, <1>2, <2>2 DEF UniqueIds
  <2>. QED  BY <2>3
<1>6. \A n \in DOMAIN s.holdout : d.comparisons[n] = s.comparisons[at[n]]
  BY <1>2 DEF Named
<1>7. at \in Bijection(DOMAIN s.holdout, ms)
  <2>1. at \in [DOMAIN s.holdout -> ms]
    BY <1>2 DEF at
  <2>. QED  BY <2>1, <1>4, <1>5 DEF Bijection, Injection, Surjection, IsInjective
<1>8. DOMAIN ComparisonBindings(s, ms) = ms
      /\ \A m \in ms : ComparisonBindings(s, ms)[m] = s.comparisons[m]
  BY DEF ComparisonBindings
<1>9. Increasing(at)
  BY <1>3 DEF Increasing, at
<1>10. Lists(d.comparisons, ComparisonBindings(s, ms))
  BY <1>2, <1>6, <1>7, <1>8, <1>9 DEF Lists
<1>11. UniqueIds(d.comparisons)
  <2>1. SUFFICES ASSUME NEW m \in DOMAIN s.holdout, NEW n \in DOMAIN s.holdout,
                        s.comparisons[at[m]].id = s.comparisons[at[n]].id
                 PROVE  m = n
    BY <1>6 DEF UniqueIds
  <2>2. at[m] = at[n]
    BY <1>2, <2>1 DEF UniqueIds
  <2>. QED  BY <1>4, <2>2
<1>12. ToSet(d.comparisons) = {s.comparisons[m] : m \in ms}
  BY <1>2, <1>5, <1>6 DEF ToSet
<1>. QED  BY <1>10, <1>11, <1>12 DEF ms, Holds

\* What a selection of a release that was not refused holds.
Enough(s, sel) ==
  /\ SelectedCases(s, sel) # {} /\ SelectedComparisons(s, sel) # {}
  /\ \A sk \in SelectedSkills(s, sel) :
       Cardinality({i \in SelectedCases(s, sel) : s.cases[i].skill = sk}) >= _MIN_HOLDOUT_CASES

\* No task twice, and eight of each skill, each judged on some case's tests.
Tasks(array, s) ==
  /\ \A m, n \in DOMAIN array :
       array[m].tree = array[n].tree \/ array[m].fingerprint = array[n].fingerprint => m = n
  /\ \A k \in DOMAIN array :
       Cardinality({n \in DOMAIN array : array[n].skill = array[k].skill}) >= _MIN_HOLDOUT_CASES
  /\ \A n \in DOMAIN array : \E i \in DOMAIN s.cases : array[n].critical = s.cases[i].critical

SelectedIds(s, sel) == {s.cases[i].id : i \in SelectedCases(s, sel)}

\* A list of the selected cases of a release has none twice, and eight of each
\* skill.
LEMMA CasesListed ==
  ASSUME NEW s, NEW sel, NEW pre, NEW d, UniqueIds(s.cases), Enough(s, sel),
         TasksUnique(s, sel, pre.tree, pre.fingerprint),
         Lists(d.cases, CaseBindings(s, sel, pre)), IsFiniteSet(DOMAIN d.cases)
  PROVE  /\ UniqueIds(d.cases)
         /\ Ids(d.cases) = SelectedIds(s, sel)
         /\ Tasks(d.cases, s)
<1> DEFINE xs == SelectedCases(s, sel)
           said == CaseBindings(s, sel, pre)
<1>1. DOMAIN said = xs
  BY DEF CaseBindings
<1>2. PICK at \in Bijection(DOMAIN d.cases, xs) :
        \A n \in DOMAIN d.cases : d.cases[n] = said[at[n]]
  BY <1>1 DEF Lists
<1>3. /\ at \in [DOMAIN d.cases -> xs]
      /\ \A m, n \in DOMAIN d.cases : at[m] = at[n] => m = n
      /\ \A i \in xs : \E n \in DOMAIN d.cases : at[n] = i
  BY DEF Bijection, Injection, Surjection, IsInjective
<1>4. xs \subseteq DOMAIN s.cases
  BY DEF SelectedCases, SplitCases
<1>5. \A i \in xs : /\ said[i].id = s.cases[i].id /\ said[i].skill = s.cases[i].skill
                    /\ said[i].critical = s.cases[i].critical
                    /\ said[i].tree = pre.tree[i] /\ said[i].fingerprint = pre.fingerprint[i]
  BY DEF CaseBindings
<1> HIDE DEF xs, said
<1>6. \A n \in DOMAIN d.cases :
        /\ at[n] \in xs
        /\ d.cases[n].id = s.cases[at[n]].id /\ d.cases[n].skill = s.cases[at[n]].skill
        /\ d.cases[n].critical = s.cases[at[n]].critical
        /\ d.cases[n].tree = pre.tree[at[n]] /\ d.cases[n].fingerprint = pre.fingerprint[at[n]]
  BY <1>2, <1>3, <1>5
<1>7. UniqueIds(d.cases)
  <2>1. SUFFICES ASSUME NEW m \in DOMAIN d.cases, NEW n \in DOMAIN d.cases,
                        d.cases[m].id = d.cases[n].id
                 PROVE  m = n
    BY DEF UniqueIds
  <2>2. at[m] = at[n]
    BY <1>4, <1>6, <2>1 DEF UniqueIds
  <2>. QED  BY <1>3, <2>2
<1>8. Ids(d.cases) = {s.cases[i].id : i \in xs}
  BY <1>3, <1>6 DEF Ids
<1>9. ASSUME NEW m \in DOMAIN d.cases, NEW n \in DOMAIN d.cases,
             d.cases[m].tree = d.cases[n].tree \/ d.cases[m].fingerprint = d.cases[n].fingerprint
      PROVE  m = n
  <2>1. at[m] = at[n]
    BY <1>6, <1>9 DEF TasksUnique, xs
  <2>. QED  BY <1>3, <2>1
<1>10. ASSUME NEW k \in DOMAIN d.cases
       PROVE  Cardinality({n \in DOMAIN d.cases : d.cases[n].skill = d.cases[k].skill})
                >= _MIN_HOLDOUT_CASES
  <2> DEFINE skilled == d.cases[k].skill
             P == {n \in DOMAIN d.cases : d.cases[n].skill = skilled}
             C == {i \in xs : s.cases[i].skill = skilled}
             f == [n \in P |-> at[n]]
  <2>1. skilled \in SelectedSkills(s, sel)
    BY <1>6 DEF SelectedSkills, xs
  <2>2. Cardinality(C) >= _MIN_HOLDOUT_CASES
    BY <2>1 DEF Enough, xs
  <2>3. IsFiniteSet(P)
    BY FS_Subset
  <2>4. f \in Bijection(P, C)
    <3>1. \A n \in P : at[n] \in C
      BY <1>6
    <3>2. f \in [P -> C]
      BY <3>1
    <3>3. \A m, n \in P : f[m] = f[n] => m = n
      BY <1>3
    <3>4. \A i \in C : \E n \in P : f[n] = i
      BY <1>3, <1>6
    <3>. QED  BY <3>2, <3>3, <3>4 DEF Bijection, Injection, Surjection, IsInjective
  <2>5. Cardinality(C) = Cardinality(P)
    BY <2>3, <2>4, FS_Bijection DEF ExistsBijection
  <2>. QED  BY <2>2, <2>5
<1>11. \A n \in DOMAIN d.cases : \E i \in DOMAIN s.cases :
         d.cases[n].critical = s.cases[i].critical
  BY <1>4, <1>6
<1>12. Tasks(d.cases, s)
  BY <1>9, <1>10, <1>11 DEF Tasks
<1>. QED  BY <1>7, <1>8, <1>12 DEF xs, SelectedIds

\* The binding of the generator of a loaded suite, if its policy may speak for a
\* release, is one a plan may hold.
LEMMA GeneratorBindingParses ==
  ASSUME NEW s, NEW generator, Loads(s), Policy(s.provider.adapter).release_authoritative,
         generator.lock_bytes = Absent <=> s.provider.lock = Absent
  PROVE  ProviderBindingParses(GeneratorBinding(s, generator))
<1> DEFINE p == s.provider
<1>1. ProviderParses(p, "generation")
  BY DEF Loads
<1>2. p.adapter \in {"claude-cli", "codex-app-server", "deterministic-fake"}
  BY <1>1 DEF ProviderParses, Capabilities
<1>3. p.adapter # "codex-app-server"
  BY DEF Policy, Capabilities
<1>4. Capabilities[p.adapter].kind # "codex" /\ Capabilities[p.adapter].concurrency = "concurrent"
  BY <1>2, <1>3 DEF Capabilities
<1>5. p.effort = Absent /\ p.lock = Absent /\ Billing(p) = "metered_api"
  BY <1>1, <1>4 DEF ProviderParses
<1>6. Policy(p.adapter) = [concurrency |-> "concurrent", release_authoritative |-> TRUE]
  BY <1>4 DEF Policy
<1>. QED  BY <1>5, <1>6 DEF ProviderBindingParses, GeneratorBinding

LEMMA ScopesParse ==
  ASSUME NEW config, NEW role, NEW runtime, ProviderParses(config, role)
  PROVE  AdapterBindingParses(AuthorityBinding(config, role, runtime), role)
<1>1. config.adapter \in {"claude-cli", "codex-app-server", "deterministic-fake"}
  BY DEF ProviderParses, Capabilities
<1>2. Capabilities[config.adapter].authority \in {"diagnostic", "production", "test"}
  BY <1>1 DEF Capabilities
<1>. QED  BY <1>2 DEF AdapterBindingParses, AuthorityBinding

\* The same for the document alone, of any selection of a release.
LEMMA PreparedParses ==
  ASSUME NEW s, NEW d, NEW pre, NEW sel, Loads(s), Enough(s, sel),
         sel.comparisons = s.holdout,
         Preflighted(s, sel, pre), Writes(d, s, pre),
         Lists(d.cases, CaseBindings(s, sel, pre)), IsFiniteSet(DOMAIN d.cases),
         s.holdout # <<>>, DOMAIN s.holdout \subseteq Nat, DOMAIN s.comparisons \subseteq Nat,
         DOMAIN d.comparisons = DOMAIN s.holdout, DOMAIN <<>> = {}
  PROVE  /\ PlanParses(d)
         /\ Lists(d.comparisons, ComparisonBindings(s, SelectedComparisons(s, sel)))
<1>1. /\ Lists(d.comparisons, ComparisonBindings(s, SelectedComparisons(s, sel)))
      /\ UniqueIds(d.comparisons) /\ Holds(d.comparisons, s, sel)
  <2>1. HoldoutParses(s.holdout, s.comparisons) /\ UniqueIds(s.comparisons)
    BY DEF Loads, ComparisonsParse
  <2>2. Named(d.comparisons, s)
    BY DEF Writes, Named
  <2>. QED  BY <2>1, <2>2, ComparisonsInOrder
<1>2. TasksUnique(s, sel, pre.tree, pre.fingerprint) /\ UniqueIds(s.cases)
  BY DEF Preflighted, Loads, CasesParse
<1>3. UniqueIds(d.cases) /\ Ids(d.cases) = SelectedIds(s, sel) /\ Tasks(d.cases, s)
  BY <1>2, CasesListed
<1>4. d.cases # <<>> /\ d.comparisons # <<>>
  <2>1. SelectedCases(s, sel) # {}
    BY DEF Enough
  <2>2. Ids(d.cases) # {}
    BY <1>3, <2>1 DEF SelectedIds
  <2>3. DOMAIN d.cases # {}
    BY <2>2 DEF Ids
  <2>4. DOMAIN d.comparisons # {}
    <3>1. SelectedComparisons(s, sel) # {}
      BY DEF Enough
    <3>2. ToSet(d.comparisons) # {}
      BY <1>1, <3>1 DEF Holds
    <3>. QED  BY <3>2 DEF ToSet
  <2>. QED  BY <2>3, <2>4
<1>5. \A n \in DOMAIN d.comparisons : d.comparisons[n].repetitions >= 1
  <2>1. \A m \in DOMAIN s.comparisons : s.comparisons[m].repetitions = 3
    BY DEF Loads, ComparisonsParse
  <2>2. SelectedComparisons(s, sel) \subseteq DOMAIN s.comparisons
    BY DEF SelectedComparisons
  <2>3. \A n \in DOMAIN d.comparisons : d.comparisons[n].repetitions = 3
    <3>1. TAKE n \in DOMAIN d.comparisons
    <3>2. PICK m \in SelectedComparisons(s, sel) : d.comparisons[n] = s.comparisons[m]
      BY <1>1 DEF Holds, ToSet
    <3>. QED  BY <2>1, <2>2, <3>2
  <2>. QED  BY <2>3
<1>6. \A n \in DOMAIN d.cases : d.cases[n].critical # <<>> /\ Distinct(d.cases[n].critical)
  BY <1>3 DEF Loads, CasesParse, Tasks
<1>7. SourcesParse(d.sources, d.comparisons, d.cases)
  <2>1. d.sources = pre.sources
    BY DEF Writes
  <2>2. DOMAIN pre.sources = ComparedVariants(d.comparisons)
    <3>1. \A m \in SelectedComparisons(s, sel) : \E n \in DOMAIN d.comparisons :
            d.comparisons[n] = s.comparisons[m]
      BY <1>1 DEF Holds, ToSet
    <3>2. \A n \in DOMAIN d.comparisons : \E m \in SelectedComparisons(s, sel) :
            d.comparisons[n] = s.comparisons[m]
      BY <1>1 DEF Holds, ToSet
    <3>3. ASSUME NEW v \in DOMAIN pre.sources  PROVE v \in ComparedVariants(d.comparisons)
      <4>1. PICK m \in SelectedComparisons(s, sel) :
              v \in {s.comparisons[m].control, s.comparisons[m].treatment}
        BY DEF Preflighted
      <4>. QED  BY <3>1, <4>1 DEF ComparedVariants
    <3>4. ASSUME NEW v \in ComparedVariants(d.comparisons)  PROVE v \in DOMAIN pre.sources
      <4>1. PICK n \in DOMAIN d.comparisons :
              v \in {d.comparisons[n].control, d.comparisons[n].treatment}
        BY DEF ComparedVariants
      <4>. QED  BY <3>2, <4>1 DEF Preflighted
    <3>. QED  BY <3>3, <3>4
  <2>3. \A v \in DOMAIN pre.sources : pre.sources[v].kind \in {"git_ref", "without_skill", "worktree"}
    BY DEF Preflighted, Loads, VariantsParse
  <2>4. \A v \in DOMAIN pre.sources :
          /\ pre.sources[v].kind = "without_skill" <=> pre.sources[v].commit = Absent
          /\ DOMAIN pre.sources[v].digests = Ids(d.cases)
          /\ pre.sources[v].kind = "without_skill" =>
               \A x \in DOMAIN pre.sources[v].digests :
                 pre.sources[v].digests[x] = EMPTY_SOURCE_SHA256
    <3>1. SourcesAuthoritative(s, sel, pre.sources)
      BY DEF Preflighted
    <3>. QED  BY <1>3, <3>1 DEF SourcesAuthoritative, SelectedIds
  <2>. QED  BY <2>1, <2>2, <2>3, <2>4 DEF SourcesParse
<1>8. ProviderBindingParses(d.provider)
  BY GeneratorBindingParses DEF Writes, Preflighted
<1>9. AdapterBindingParses(d.generator, "generation")
  BY ScopesParse DEF Writes, Loads
<1>10. d.mode = "judged" => AdapterBindingParses(d.comparator, "comparison")
  BY ScopesParse DEF Writes, Loads, ComparatorBinding
<1>11. /\ d.mode \in {"judged", "objective_only"} /\ d.seed \in Nat
       /\ d.mode = "judged" <=> d.judge # Absent
  BY DEF Writes, Loads, Preflighted
<1>12. PlanParses(d)
  BY <1>1, <1>3, <1>4, <1>5, <1>6, <1>7, <1>8, <1>9, <1>10, <1>11 DEF PlanParses, Tasks
<1>. QED  BY <1>1, <1>12

LEMMA UpToFinite ==
  ASSUME NEW n \in Nat
  PROVE  IsFiniteSet(1 .. n)
<1>1. n \in Int /\ 1 \in Int
  OBVIOUS
<1>. QED  BY <1>1, FS_Interval

\* Whatever plan is prepared from a preflight is read back and bound by the run
\* that names it, as long as that run's preflight finds the same: no suite that
\* loads and passes its preflight seals a plan that cannot be run
\* (prepare_holdout_plan, load_holdout_plan and _bind_holdout_plan).
THEOREM PreparedIsAccepted ==
  ASSUME NEW s, NEW d, NEW pre, NEW named, named # Absent, NEW Values,
         {s.holdout, s.comparisons, s.cases, d.comparisons, d.cases} \subseteq Seq(Values),
         Loads(s), Selects(s, Release(s, Absent), TRUE),
         Preflighted(s, Release(s, Absent), pre), Writes(d, s, pre)
  PROVE  /\ PlanParses(d)
         /\ Selects(s, Release(s, named), FALSE)
         /\ Binds(d, s, Release(s, named), pre)
<1> DEFINE sel == Release(s, Absent)
           run == Release(s, named)
<1>1. /\ s.holdout # <<>> /\ DOMAIN s.holdout \subseteq Nat /\ DOMAIN s.comparisons \subseteq Nat
      /\ IsFiniteSet(DOMAIN d.cases) /\ DOMAIN d.comparisons = DOMAIN s.holdout
  <2>1. Len(d.comparisons) = Len(s.holdout) /\ Len(s.holdout) >= 1
    BY DEF Writes, Loads, HoldoutParses
  <2>2. DOMAIN d.cases = 1 .. Len(d.cases) /\ Len(d.cases) \in Nat
    OBVIOUS
  <2>3. IsFiniteSet(1 .. Len(d.cases))
    BY <2>2, UpToFinite, Zenon
  <2>4. s.holdout # <<>>
    BY <2>1
  <2>. QED  BY <2>1, <2>2, <2>3, <2>4
<1>2. /\ SelectedCases(s, sel) = SelectedCases(s, run)
      /\ SelectedComparisons(s, sel) = SelectedComparisons(s, run)
      /\ SelectedComparisons(s, sel) \subseteq DOMAIN s.comparisons
      /\ sel.split = "holdout" /\ sel.comparisons = s.holdout
      /\ Selects(s, sel, TRUE) /\ Preflighted(s, sel, pre)
      /\ Lists(d.cases, CaseBindings(s, sel, pre))
  <2>1. sel.split = "holdout" /\ sel.comparisons = s.holdout
    BY DEF Release
  <2>2. SelectedComparisons(s, sel) \subseteq DOMAIN s.comparisons
    BY DEF SelectedComparisons
  <2>3. Lists(d.cases, CaseBindings(s, sel, pre))
    BY DEF Writes
  <2>. QED  BY <1>1, <2>1, <2>2, <2>3, ReleaseSelects
<1>3. /\ PlanParses(d)
      /\ Lists(d.comparisons, ComparisonBindings(s, SelectedComparisons(s, sel)))
  <2>1. Enough(s, sel)
    BY <1>2 DEF Selects, Enough
  <2>2. DOMAIN <<>> = {}
    OBVIOUS
  <2> HIDE DEF sel
  <2>. QED  BY <1>1, <1>2, <2>1, <2>2, PreparedParses
<1>4. Selects(s, run, FALSE)
  <2>1. HoldoutShape(s, run, FALSE)
    BY DEF HoldoutShape, Release
  <2>2. /\ run.split = sel.split /\ run.cases = sel.cases /\ run.comparisons = sel.comparisons
        /\ run.seed = sel.seed /\ sel.split = "holdout"
    BY DEF Release
  <2>3. SelectedSkills(s, run) = SelectedSkills(s, sel)
    BY <1>2 DEF SelectedSkills
  <2>. QED  BY <1>2, <2>1, <2>2, <2>3 DEF Selects
<1>5. Binds(d, s, run, pre)
  <2>1. SourcesAuthoritative(s, run, pre.sources)
    <3>1. SourcesAuthoritative(s, sel, pre.sources)
      BY DEF Preflighted
    <3>. QED  BY <1>2, <3>1 DEF SourcesAuthoritative
  <2>2. Lists(d.cases, CaseBindings(s, run, pre))
    BY <1>2 DEF CaseBindings
  <2>3. Lists(d.comparisons, ComparisonBindings(s, SelectedComparisons(s, run)))
    BY <1>2, <1>3
  <2>4. s.mode = "judged" => pre.judge.evidence # Absent
    BY DEF Preflighted
  <2>. QED  BY <2>1, <2>2, <2>3, <2>4 DEF Binds, Writes
<1>. QED  BY <1>3, <1>4, <1>5

LEMMA ListedOnce ==
  ASSUME NEW s, NEW d, NEW sel, NEW pre, NEW other, NEW found, UniqueIds(s.cases),
         Lists(d.cases, CaseBindings(s, sel, pre)),
         Lists(d.cases, CaseBindings(s, other, found)),
         NEW i \in SelectedCases(s, sel)
  PROVE  /\ i \in SelectedCases(s, other)
         /\ pre.tree[i] = found.tree[i] /\ pre.fingerprint[i] = found.fingerprint[i]
         /\ pre.shared = found.shared
<1> DEFINE said == CaseBindings(s, sel, pre)
           again == CaseBindings(s, other, found)
<1>1. DOMAIN said = SelectedCases(s, sel) /\ DOMAIN again = SelectedCases(s, other)
  BY DEF CaseBindings
<1>2. PICK at \in Bijection(DOMAIN d.cases, SelectedCases(s, sel)) :
        \A n \in DOMAIN d.cases : d.cases[n] = said[at[n]]
  BY <1>1 DEF Lists
<1>3. PICK to \in Bijection(DOMAIN d.cases, SelectedCases(s, other)) :
        \A n \in DOMAIN d.cases : d.cases[n] = again[to[n]]
  BY <1>1 DEF Lists
<1>4. PICK n \in DOMAIN d.cases : at[n] = i
  BY <1>2 DEF Bijection, Surjection
<1>5. to[n] \in SelectedCases(s, other)
  BY <1>3 DEF Bijection, Injection
<1>6. said[i] = again[to[n]]
  BY <1>2, <1>3, <1>4
<1>7. /\ said[i].id = s.cases[i].id /\ said[i].tree = pre.tree[i]
      /\ said[i].fingerprint = pre.fingerprint[i] /\ said[i].shared = pre.shared
  BY DEF CaseBindings
<1>8. /\ again[to[n]].id = s.cases[to[n]].id /\ again[to[n]].tree = found.tree[to[n]]
      /\ again[to[n]].fingerprint = found.fingerprint[to[n]] /\ again[to[n]].shared = found.shared
  BY <1>5 DEF CaseBindings
<1>9. i \in DOMAIN s.cases /\ to[n] \in DOMAIN s.cases
  BY <1>5 DEF SelectedCases, SplitCases
<1> HIDE DEF said, again
<1>10. to[n] = i
  BY <1>6, <1>7, <1>8, <1>9 DEF UniqueIds
<1>. QED  BY <1>5, <1>6, <1>7, <1>8, <1>10

\* Two preflights that bind one plan found the same: the manifest, the sources,
\* the judge, and every case's tree, shared verifiers and fingerprint, so what
\* the runs of a plan evaluate does not depend on when they were started.
THEOREM BoundAlike ==
  ASSUME NEW s, NEW t, NEW d, NEW sel, NEW pre, NEW other, NEW found, Loads(s),
         Binds(d, s, sel, pre), Binds(d, t, other, found)
  PROVE  /\ s = t /\ pre.sources = found.sources /\ pre.judge = found.judge
         /\ SelectedCases(s, sel) = SelectedCases(t, other)
         /\ \A i \in SelectedCases(s, sel) :
              /\ pre.tree[i] = found.tree[i] /\ pre.fingerprint[i] = found.fingerprint[i]
              /\ pre.shared = found.shared
<1>1. s = t /\ pre.sources = found.sources /\ pre.judge = found.judge
  BY DEF Binds
<1>2. UniqueIds(s.cases)
  BY DEF Loads, CasesParse
<1>3. Lists(d.cases, CaseBindings(s, sel, pre)) /\ Lists(d.cases, CaseBindings(s, other, found))
  BY <1>1 DEF Binds
<1>4. \A i \in SelectedCases(s, sel) :
        /\ i \in SelectedCases(s, other)
        /\ pre.tree[i] = found.tree[i] /\ pre.fingerprint[i] = found.fingerprint[i]
        /\ pre.shared = found.shared
  BY <1>2, <1>3, ListedOnce
<1>5. \A i \in SelectedCases(s, other) : i \in SelectedCases(s, sel)
  BY <1>2, <1>3, ListedOnce
<1>. QED  BY <1>1, <1>4, <1>5

----------------------------------------------------------------------------
(* The plan of an optimization.                                            *)

\* The lists of a request are sequences of ids.
Requested(q) ==
  \E T : q.train \in Seq(T) /\ q.selection \in Seq(T) /\ q.validation \in Seq(T)

\* Which cases a list of ids names.
NamedCases(s, ids) == {i \in DOMAIN s.cases : s.cases[i].id \in ToSet(ids)}

LEMMA SelectedOfSplit ==
  ASSUME NEW s, NEW ids, NEW text, NEW split, UniqueIds(s.cases),
         SelectCases(s, ids, text, split), NEW i \in NamedCases(s, ids)
  PROVE  s.cases[i].split = split /\ s.cases[i].skill = text
<1>1. PICK n \in DOMAIN ids : s.cases[i].id = ids[n]
  BY DEF NamedCases, ToSet
<1>2. PICK j \in DOMAIN s.cases :
        s.cases[j].id = ids[n] /\ s.cases[j].skill = text /\ s.cases[j].split = split
  BY DEF SelectCases
<1>. QED  BY <1>1, <1>2 DEF NamedCases, UniqueIds

LEMMA EveryIdNamed ==
  ASSUME NEW s, NEW ids, NEW text, NEW split, SelectCases(s, ids, text, split),
         NEW id \in ToSet(ids)
  PROVE  \E i \in NamedCases(s, ids) : s.cases[i].id = id
  BY DEF SelectCases, NamedCases, ToSet

\* A plan (build_plan) trains, selects and validates on three sets of cases
\* without a case in common, and none of them is a case of the holdout: what
\* release the candidate later gets rests on cases the optimizer has not seen.
THEOREM PilotSparesHoldout ==
  ASSUME NEW q, NEW w, Buildable(q, w)
  PROVE  LET p == PlanOf(q, w)
             s == Manifest(q, w)
         IN  /\ ToSet(p.train) \cap ToSet(p.selection) = {}
             /\ (ToSet(p.train) \cup ToSet(p.selection)) \cap ToSet(p.validation) = {}
             /\ \A i \in DOMAIN s.cases :
                  s.cases[i].split = "holdout"
                    => s.cases[i].id \notin ToSet(p.train) \cup ToSet(p.selection)
                                            \cup ToSet(p.validation)
<1> DEFINE s == Manifest(q, w)
<1>1. Loads(s) /\ CasesSelected(s, q)
  BY DEF Buildable, CasesAllowed
<1>2. UniqueIds(s.cases)
  BY <1>1 DEF Loads, CasesParse
<1>3. /\ SelectCases(s, q.train, q.skill, "train")
      /\ SelectCases(s, q.selection, q.skill, "train")
      /\ SelectCases(s, q.validation, q.skill, "validation")
      /\ ToSet(q.train) \cap ToSet(q.selection) = {}
  BY <1>1 DEF CasesSelected
<1>4. /\ PlanOf(q, w).train = q.train /\ PlanOf(q, w).selection = q.selection
      /\ PlanOf(q, w).validation = q.validation
  BY DEF PlanOf
<1> HIDE DEF s
<1>5. /\ \A i \in NamedCases(s, q.train) : s.cases[i].split = "train"
      /\ \A i \in NamedCases(s, q.selection) : s.cases[i].split = "train"
      /\ \A i \in NamedCases(s, q.validation) : s.cases[i].split = "validation"
  BY <1>2, <1>3, SelectedOfSplit
<1>6. ASSUME NEW id \in ToSet(q.validation)
      PROVE  id \notin ToSet(q.train) \cup ToSet(q.selection)
  <2>1. PICK i \in NamedCases(s, q.validation) : s.cases[i].id = id
    BY <1>3, EveryIdNamed
  <2>2. s.cases[i].split = "validation"
    BY <2>1, <1>5
  <2>3. i \in DOMAIN s.cases
    BY <2>1 DEF NamedCases
  <2>. QED  BY <2>1, <2>2, <2>3, <1>5 DEF NamedCases
<1>7. ASSUME NEW i \in DOMAIN s.cases, s.cases[i].split = "holdout"
      PROVE  s.cases[i].id \notin ToSet(q.train) \cup ToSet(q.selection) \cup ToSet(q.validation)
  BY <1>5, <1>7 DEF NamedCases
<1>. QED  BY <1>3, <1>4, <1>6, <1>7 DEF s

\* The cases of a manifest are objects with an id and a split.
Fielded(s) == \A i \in DOMAIN s.cases : {"id", "split"} \subseteq DOMAIN s.cases[i]

LEMMA NamedOnce ==
  ASSUME NEW s, NEW T, NEW ids \in Seq(T), NEW text, NEW split, UniqueIds(s.cases),
         SelectCases(s, ids, text, split)
  PROVE  Cardinality(NamedCases(s, ids)) = Len(ids)
<1> DEFINE f == [n \in 1 .. Len(ids) |-> CHOOSE i \in NamedCases(s, ids) : s.cases[i].id = ids[n]]
<1>1. /\ DOMAIN ids = 1 .. Len(ids) /\ Len(ids) \in Nat
      /\ ToSet(ids) = {ids[n] : n \in 1 .. Len(ids)}
  BY DEF ToSet
<1>2. ASSUME NEW n \in 1 .. Len(ids)
      PROVE  \E i \in NamedCases(s, ids) : s.cases[i].id = ids[n]
  <2>1. ids[n] \in ToSet(ids)
    BY <1>1
  <2>. QED  BY <2>1, EveryIdNamed
<1>3. \A n \in 1 .. Len(ids) : f[n] \in NamedCases(s, ids) /\ s.cases[f[n]].id = ids[n]
  BY <1>2
<1>4. DOMAIN f = 1 .. Len(ids)
  OBVIOUS
<1>5. f = [n \in 1 .. Len(ids) |-> f[n]]
  OBVIOUS
<1> HIDE DEF f
<1>6. f \in [1 .. Len(ids) -> NamedCases(s, ids)]
  BY <1>3, <1>5
<1>7. \A m, n \in 1 .. Len(ids) : f[m] = f[n] => m = n
  BY <1>1, <1>3 DEF SelectCases, Distinct
<1>8. ASSUME NEW i \in NamedCases(s, ids)
      PROVE  \E n \in 1 .. Len(ids) : f[n] = i
  <2>1. PICK n \in 1 .. Len(ids) : s.cases[i].id = ids[n]
    BY <1>1 DEF NamedCases
  <2>2. f[n] \in DOMAIN s.cases /\ i \in DOMAIN s.cases /\ s.cases[f[n]].id = s.cases[i].id
    BY <1>3, <2>1 DEF NamedCases
  <2>. QED  BY <2>2 DEF UniqueIds
<1>9. f \in Injection(1 .. Len(ids), NamedCases(s, ids))
  BY <1>6, <1>7 DEF Injection, IsInjective
<1>10. f \in Surjection(1 .. Len(ids), NamedCases(s, ids))
  BY <1>6, <1>8 DEF Surjection
<1>11. f \in Bijection(1 .. Len(ids), NamedCases(s, ids))
  BY <1>9, <1>10 DEF Bijection
<1>. QED  BY <1>1, <1>11, FS_CountingElements DEF ExistsBijection

\* The selection and the plan of the comparison of a question's live run.
AskedSelection(derived, asked) ==
  Effective(derived, Invocation(asked.split, AskedComparison(asked), asked.ids, FALSE))

PlanOfAsked(p, s, clone, candidate, asked, limits) ==
  LET derived == AskedSuite(p, s, clone, candidate, asked)
  IN  ComparisonPlan(derived, AskedSelection(derived, asked), limits, 1)

LEMMA AskedSelects ==
  ASSUME NEW p, NEW s, NEW clone, NEW candidate, NEW asked, NEW text, Fielded(s),
         UniqueIds(s.cases), SelectCases(s, asked.ids, text, asked.split),
         asked.split \in {"train", "validation"}
  PROVE  LET derived == AskedSuite(p, s, clone, candidate, asked)
         IN  SelectedCases(derived, AskedSelection(derived, asked)) = NamedCases(s, asked.ids)
<1> DEFINE derived == AskedSuite(p, s, clone, candidate, asked)
           sel == AskedSelection(derived, asked)
<1>1. derived.mode = "objective_only" /\ derived.cases = Moved(s, p.suite, clone).cases
  BY DEF AskedSuite, DerivedSuite
<1>2. sel.split = asked.split /\ sel.cases = asked.ids
  BY <1>1 DEF AskedSelection, Effective, Invocation
<1>3. DOMAIN derived.cases = DOMAIN s.cases
  BY <1>1 DEF Moved
<1>4. ASSUME NEW i \in DOMAIN s.cases
      PROVE  derived.cases[i].id = s.cases[i].id /\ derived.cases[i].split = s.cases[i].split
  BY <1>1, <1>4 DEF Moved, Fielded
<1>5. asked.ids # <<>>
  BY DEF SelectCases
<1> HIDE DEF derived, sel
<1>6. SelectedCases(derived, sel) =
        {i \in DOMAIN s.cases : /\ s.cases[i].split = asked.split
                                /\ s.cases[i].id \in ToSet(asked.ids)}
  BY <1>2, <1>3, <1>4, <1>5 DEF SelectedCases, SplitCases
<1>7. \A i \in NamedCases(s, asked.ids) : s.cases[i].split = asked.split
  BY SelectedOfSplit
<1>8. SelectedCases(derived, sel) = NamedCases(s, asked.ids)
  BY <1>6, <1>7 DEF NamedCases
<1>. QED  BY <1>8 DEF derived, sel

Askable(s, asked) ==
  /\ Fielded(s) /\ UniqueIds(s.cases) /\ asked.split \in {"train", "validation"}
  /\ \E text, T : asked.ids \in Seq(T) /\ SelectCases(s, asked.ids, text, asked.split)

LEMMA AskedIsCosted ==
  ASSUME NEW p, NEW s, NEW clone, NEW candidate, NEW asked, NEW limits, Askable(s, asked)
  PROVE  /\ PlanOfAsked(p, s, clone, candidate, asked, limits).pair_runs = 3 * Len(asked.ids)
         /\ PlanOfAsked(p, s, clone, candidate, asked, limits).agent_calls = 6 * Len(asked.ids)
<1> DEFINE derived == AskedSuite(p, s, clone, candidate, asked)
           sel == AskedSelection(derived, asked)
           pair_runs == derived.comparisons[1].repetitions * Cardinality(SelectedCases(derived, sel))
<1>0. PICK text, T : asked.ids \in Seq(T) /\ SelectCases(s, asked.ids, text, asked.split)
  BY DEF Askable
<1>1. derived.comparisons[1].repetitions = 3
  BY DEF AskedSuite, DerivedSuite
<1>2. Cardinality(SelectedCases(derived, sel)) = Len(asked.ids)
  <2>1. SelectedCases(derived, sel) = NamedCases(s, asked.ids)
    BY <1>0, AskedSelects DEF Askable
  <2>2. Cardinality(NamedCases(s, asked.ids)) = Len(asked.ids)
    BY <1>0, NamedOnce DEF Askable
  <2>. QED  BY <2>1, <2>2
<1>3. Len(asked.ids) \in Nat
  BY <1>0
<1>4. /\ PlanOfAsked(p, s, clone, candidate, asked, limits).pair_runs = pair_runs
      /\ PlanOfAsked(p, s, clone, candidate, asked, limits).agent_calls = pair_runs * 2
  BY DEF PlanOfAsked, ComparisonPlan
<1>5. pair_runs = 3 * Len(asked.ids)
  BY <1>1, <1>2
<1> HIDE DEF pair_runs
<1>6. pair_runs * 2 = 6 * Len(asked.ids)
  BY <1>3, <1>5
<1>. QED  BY <1>4, <1>5, <1>6

\* The generator calls a plan announces (planned_generator_calls) are those of its
\* four live runs: the baseline's selection, the training, the candidate's
\* selection and the validation, each of the derived suite its candidate makes;
\* and each dry run of the preflight counts the pairs it demands.
THEOREM CallsArePlanned ==
  ASSUME NEW q, NEW w, Buildable(q, w), Requested(q), Fielded(Manifest(q, w)),
         NEW clone, NEW baseline, NEW candidate, NEW limits
  PROVE  LET p == PlanOf(q, w)
             s == Manifest(q, w)
             Plan(text, asked) == PlanOfAsked(p, s, clone, text, asked, limits)
         IN  /\ \A asked \in {BaselineSelection(p), Training(p), Validation(p)} :
                  Plan(baseline, asked).pair_runs = 3 * Len(asked.ids)
             /\ Plan(baseline, BaselineSelection(p)).agent_calls
                  + Plan(baseline, Training(p)).agent_calls
                  + Plan(candidate, BaselineSelection(p)).agent_calls
                  + Plan(candidate, Validation(p)).agent_calls
                = PlannedGeneratorCalls(p)
<1> DEFINE s == Manifest(q, w)
           p == PlanOf(q, w)
           Plan(text, asked) == PlanOfAsked(p, s, clone, text, asked, limits)
<1>1. Loads(s) /\ CasesSelected(s, q)
  BY DEF Buildable, CasesAllowed
<1>2. UniqueIds(s.cases)
  BY <1>1 DEF Loads, CasesParse
<1>3. /\ SelectCases(s, q.train, q.skill, "train")
      /\ SelectCases(s, q.selection, q.skill, "train")
      /\ SelectCases(s, q.validation, q.skill, "validation")
  BY <1>1 DEF CasesSelected
<1>4. p.train = q.train /\ p.selection = q.selection /\ p.validation = q.validation
  BY DEF PlanOf
<1>5. PICK T : q.train \in Seq(T) /\ q.selection \in Seq(T) /\ q.validation \in Seq(T)
  BY DEF Requested
<1> HIDE DEF s, p
<1>6. /\ BaselineSelection(p).ids = q.selection /\ BaselineSelection(p).split = "train"
      /\ Training(p).ids = q.train /\ Training(p).split = "train"
      /\ Validation(p).ids = q.validation /\ Validation(p).split = "validation"
  BY <1>4 DEF BaselineSelection, Training, Validation, Asked
<1>7. ASSUME NEW text, NEW asked \in {BaselineSelection(p), Training(p), Validation(p)}
      PROVE  /\ Plan(text, asked).pair_runs = 3 * Len(asked.ids)
             /\ Plan(text, asked).agent_calls = 6 * Len(asked.ids)
  <2>1. /\ asked.ids \in Seq(T) /\ asked.split \in {"train", "validation"}
        /\ SelectCases(s, asked.ids, q.skill, asked.split)
    BY <1>3, <1>5, <1>6
  <2>2. Fielded(s)
    BY DEF s
  <2>3. Askable(s, asked)
    BY <1>2, <2>1, <2>2 DEF Askable
  <2>. QED  BY <2>3, AskedIsCosted
<1>8. /\ Plan(baseline, BaselineSelection(p)).agent_calls = 6 * Len(q.selection)
      /\ Plan(baseline, Training(p)).agent_calls = 6 * Len(q.train)
      /\ Plan(candidate, BaselineSelection(p)).agent_calls = 6 * Len(q.selection)
      /\ Plan(candidate, Validation(p)).agent_calls = 6 * Len(q.validation)
  BY <1>6, <1>7
<1>9. PlannedGeneratorCalls(p) =
        6 * (Len(q.selection) + Len(q.train) + Len(q.selection) + Len(q.validation))
  BY <1>4 DEF PlannedGeneratorCalls
<1>10. Len(q.selection) \in Nat /\ Len(q.train) \in Nat /\ Len(q.validation) \in Nat
  BY <1>5
<1>11. 6 * Len(q.selection) + 6 * Len(q.train) + 6 * Len(q.selection) + 6 * Len(q.validation)
         = PlannedGeneratorCalls(p)
  <2>1. \A a, b, c \in Nat : 6 * a + 6 * b + 6 * a + 6 * c = 6 * (a + b + a + c)
    OBVIOUS
  <2>. QED  BY <2>1, <1>9, <1>10
<1>12. \A asked \in {BaselineSelection(p), Training(p), Validation(p)} :
         Plan(baseline, asked).pair_runs = 3 * Len(asked.ids)
  BY <1>7
<1>. QED  BY <1>8, <1>11, <1>12 DEF p, s

\* What the command line writes of a plan, the sidecar reads: with the output
\* directory made and the executables still in place, plan_from_json refuses
\* nothing that build_plan resolved.
THEOREM PlanIsReadBack ==
  ASSUME NEW q, NEW w, NEW v, Buildable(q, w), v.executables = w.executables,
         LET p == PlanOf(q, w)
         IN  {p.suite, p.repository, p.output, p.source, p.environment} \subseteq DOMAIN v.files
  PROVE  PlanAccepted(AsJson(PlanOf(q, w)), v)
<1> DEFINE s == Manifest(q, w)
           p == PlanOf(q, w)
           d == AsJson(p)
<1>1. /\ d.plan = p /\ PolicyUnchanged(d)
      /\ d.optimizer.batch_size = Len(p.train)
      /\ d.planned_generator_calls = PlannedGeneratorCalls(p)
      /\ d.planned_optimizer_invocations = PlannedOptimizerInvocations(p)
      /\ d.optimizer.max_invocations = PlannedOptimizerInvocations(p)
      /\ d.optimizer.timeout = OPTIMIZER_CALL_TIMEOUT_SECONDS
      /\ d.planned_ceiling = PlannedGeneratorCalls(p) + PlannedOptimizerInvocations(p)
  BY DEF AsJson, PolicyUnchanged
<1>2. /\ p.train = q.train /\ p.selection = q.selection /\ p.validation = q.validation
      /\ p.timeout = q.timeout /\ p.skill_path = SkillPath(p.bundle)
      /\ p.optimizer = w.codex /\ p.sandbox = w.bundled[w.codex]
      /\ p.skillopt_python = q.skillopt_python /\ p.skivolve_python = q.skivolve_python
  BY DEF PlanOf
<1>3. CasesSelected(s, q) /\ ProgramsBound(q, w) /\ q.timeout \in Timeouts
  BY DEF Buildable, CasesAllowed
<1>4. /\ \A ids \in {q.train, q.selection, q.validation} : ids # <<>> /\ Distinct(ids)
      /\ Len(q.selection) = 1 /\ ToSet(q.train) \cap ToSet(q.selection) = {}
  BY <1>3 DEF CasesSelected, SelectCases
<1>5. \A path \in {w.codex, w.bundled[w.codex], q.skillopt_python, q.skivolve_python} :
        Resolves(v, path)
  BY <1>3 DEF ProgramsBound, EnvironmentResolves, Resolves
<1>6. {p.suite, p.repository, p.output, p.source, p.environment} \subseteq DOMAIN v.files
  OBVIOUS
<1> HIDE DEF p, d, s
<1>7. PlanConsistent(d, v)
  BY <1>1, <1>2, <1>3, <1>4, <1>5, <1>6 DEF PlanConsistent
<1>. QED  BY <1>1, <1>7 DEF PlanAccepted, d, p

\* The score that gates a candidate and the one that ranks it agree at the top
\* (_score_case): a case is hard exactly when its soft score is one, so no skill
\* the gate accepts is ranked below another for that case.
THEOREM HardIsWhole ==
  ASSUME NEW run, NEW x, NEW expectations, IsFiniteSet(expectations), Absent \notin expectations
  PROVE  Hard(run, x, expectations)
           <=> Soft(run, x, expectations)[1] = Soft(run, x, expectations)[2]
<1> DEFINE points == Points(expectations)
           earned == Earned(run, x, expectations)
           T(repetition) == TreatmentOf(run, x, repetition)
<1>1. points = (0 .. 2) \X (expectations \cup {Absent})
  BY DEF Points
<1>2. IsFiniteSet(0 .. 2) /\ Cardinality(0 .. 2) = 3
  <2>1. IsFiniteSet({0}) /\ Cardinality({0}) = 1
    BY FS_Singleton
  <2>2. IsFiniteSet({0} \cup {1}) /\ Cardinality({0} \cup {1}) = 2
    BY <2>1, FS_AddElement
  <2>3. IsFiniteSet(({0} \cup {1}) \cup {2}) /\ Cardinality(({0} \cup {1}) \cup {2}) = 3
    BY <2>2, FS_AddElement
  <2>4. 0 .. 2 = ({0} \cup {1}) \cup {2}
    OBVIOUS
  <2>. QED  BY <2>3, <2>4
<1>3. /\ IsFiniteSet(expectations \cup {Absent})
      /\ Cardinality(expectations \cup {Absent}) = Cardinality(expectations) + 1
  BY FS_AddElement
<1>4. IsFiniteSet(points) /\ Cardinality(points) = 3 * (Cardinality(expectations) + 1)
  BY <1>1, <1>2, <1>3, FS_Product
<1>5. earned \subseteq points
  BY DEF Earned
<1>6. Cardinality(earned) = Cardinality(points) <=> earned = points
  BY <1>4, <1>5, FS_Subset
<1>7. Hard(run, x, expectations) <=> earned = points
  <2>1. \A point \in points :
          point \in earned <=>
            IF point[2] = Absent THEN T(point[1]).executed /\ T(point[1]).passed
            ELSE point[2] \in DOMAIN T(point[1]).critical /\ T(point[1]).critical[point[2]]
    BY DEF Earned
  <2>2. ASSUME NEW r \in 0 .. 2, NEW e \in expectations \cup {Absent}
        PROVE  /\ <<r, e>> \in points
               /\ <<r, e>> \in earned <=>
                    IF e = Absent THEN T(r).executed /\ T(r).passed
                    ELSE e \in DOMAIN T(r).critical /\ T(r).critical[e]
    <3>1. <<r, e>> \in points
      BY <1>1
    <3>. QED  BY <3>1, <2>1
  <2>3. \A point \in points : \E r \in 0 .. 2 : \E e \in expectations \cup {Absent} : point = <<r, e>>
    BY <1>1
  <2>4. Hard(run, x, expectations) <=>
          \A r \in 0 .. 2 : /\ T(r).executed /\ T(r).passed
                            /\ \A e \in expectations : e \in DOMAIN T(r).critical /\ T(r).critical[e]
    BY DEF Hard
  <2> HIDE DEF points, earned, T
  <2>5. earned = points <=> \A r \in 0 .. 2 : \A e \in expectations \cup {Absent} : <<r, e>> \in earned
    BY <2>2, <2>3, <1>5
  <2>6. ASSUME Hard(run, x, expectations), NEW r \in 0 .. 2, NEW e \in expectations \cup {Absent}
        PROVE  <<r, e>> \in earned
    <3>1. /\ T(r).executed /\ T(r).passed
          /\ \A f \in expectations : f \in DOMAIN T(r).critical /\ T(r).critical[f]
      BY <2>4, <2>6
    <3>. QED  BY <3>1, <2>2, <2>6
  <2>7. ASSUME \A r \in 0 .. 2 : \A e \in expectations \cup {Absent} : <<r, e>> \in earned,
               NEW r \in 0 .. 2
        PROVE  /\ T(r).executed /\ T(r).passed
               /\ \A e \in expectations : e \in DOMAIN T(r).critical /\ T(r).critical[e]
    <3>1. T(r).executed /\ T(r).passed
      BY <2>2, <2>7
    <3>2. ASSUME NEW e \in expectations
          PROVE  e \in DOMAIN T(r).critical /\ T(r).critical[e]
      <4>1. e # Absent /\ <<r, e>> \in earned
        BY <2>7, <3>2
      <4>. QED  BY <4>1, <2>2
    <3>. QED  BY <3>1, <3>2
  <2>. QED  BY <2>4, <2>5, <2>6, <2>7
<1>8. /\ Soft(run, x, expectations)[1] = Cardinality(earned)
      /\ Soft(run, x, expectations)[2] = Cardinality(points)
  BY <1>4 DEF Soft
<1>. QED  BY <1>6, <1>7, <1>8

\* A plan holds in the world it was made in: what _preflight_skivolve and every
\* later boundary check again is what build_plan established, if the skill at the
\* baseline has a candidate's size (which only revalidate_plan asks).
THEOREM FreshPlanHolds ==
  ASSUME NEW q, NEW w, Buildable(q, w),
         w.refs[q.baseline] \in DOMAIN w.tree,
         LET p == PlanOf(q, w)
         IN  w.tree[p.baseline][p.skill_path].content.bytes <= MAX_CANDIDATE_BYTES
  PROVE  Revalidates(PlanOf(q, w), w)
<1> DEFINE p == PlanOf(q, w)
           b == p.bindings
<1>1. /\ p.suite = q.suite /\ p.repository = w.repository /\ p.skill = q.skill
      /\ p.bundle = BundleOf(Manifest(q, w), q) /\ p.skill_path = SkillPath(p.bundle)
      /\ p.baseline = w.refs[q.baseline]
      /\ p.train = q.train /\ p.selection = q.selection /\ p.validation = q.validation
  BY DEF PlanOf
<1>2. /\ p.optimizer = w.codex /\ p.sandbox = w.bundled[w.codex] /\ p.source = q.source
      /\ p.skillopt_python = q.skillopt_python /\ p.environment = w.prefix[q.skillopt_python]
      /\ p.skivolve_python = q.skivolve_python
  BY DEF PlanOf
<1>3. /\ b.inputs = EvaluationInputs(q.suite, InputRootsOf(Manifest(q, w), q, w), w.files)
      /\ b.package = w.package
      /\ b.skillopt_python = w.executables[q.skillopt_python]
      /\ b.environment = EnvironmentContent(w.prefix[q.skillopt_python], w.files)
      /\ b.skivolve_python = w.executables[q.skivolve_python]
      /\ b.optimizer = w.executables[w.codex]
      /\ b.sandbox = w.executables[w.bundled[w.codex]]
  BY DEF PlanOf
<1>4. w.tree[p.baseline][p.skill_path].content.bytes <= MAX_CANDIDATE_BYTES
  OBVIOUS
<1> HIDE DEF p, b
<1>5. /\ Manifest(p, w) = Manifest(q, w)
      /\ PlannedCases(Manifest(q, w), p) = PlannedCases(Manifest(q, w), q)
      /\ InputRootsOf(Manifest(q, w), p, w) = InputRootsOf(Manifest(q, w), q, w)
  BY <1>1 DEF Manifest, PlannedCases, InputRootsOf
<1>6. ProgramsSame(p, w)
  BY <1>2, <1>3 DEF Buildable, ProgramsBound, EnvironmentResolves, ProgramsSame, SameExecutable, b
<1>7. /\ p.suite \in DOMAIN w.suites /\ Loads(Manifest(p, w))
      /\ SelectCases(Manifest(p, w), p.train, p.skill, "train")
      /\ SelectCases(Manifest(p, w), p.selection, p.skill, "train")
      /\ SelectCases(Manifest(p, w), p.validation, p.skill, "validation")
  BY <1>1, <1>5 DEF Buildable, CasesAllowed, CasesSelected
<1>8. OnlySkill(Manifest(p, w), p, p.bundle)
  BY <1>1, <1>5 DEF Buildable, CasesAllowed, OnlySkill
<1>9. /\ InputsReadable(p.suite, InputRootsOf(Manifest(p, w), p, w), w.files)
      /\ InputsMatchCommit(w, p.baseline, p.suite, InputRootsOf(Manifest(p, w), p, w))
      /\ TrackedFileMatches(w, p.baseline, p.skill_path)
  BY <1>1, <1>5 DEF Buildable, InputsBound
<1>10. /\ EvaluationInputs(p.suite, InputRootsOf(Manifest(p, w), p, w), w.files) = p.bindings.inputs
       /\ w.package = p.bindings.package
  BY <1>1, <1>3, <1>5 DEF b
<1>11. w.repository = p.repository /\ p.baseline \in DOMAIN w.tree
  BY <1>1
<1>12. Revalidates(p, w)
  BY <1>4, <1>6, <1>7, <1>8, <1>9, <1>10, <1>11 DEF Revalidates
<1>. QED  BY <1>12 DEF p
=============================================================================
