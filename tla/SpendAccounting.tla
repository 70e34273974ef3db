--------------------------- MODULE SpendAccounting ---------------------------
(***************************************************************************)
(* What asking the judge costs.  An answer is taken only with the evidence *)
(* that its call was reserved and reconciled in the spend journal of the   *)
(* comparison (ComparatorResult, skivolve/providers.py); at the end of the *)
(* run the aggregate adds up the journals and demands every trial in them  *)
(* (_comparator_cost_accounting, skivolve/runner.py).                      *)
(*                                                                         *)
(* A digest is the thing it is a digest of, an amount a natural number,    *)
(* the raw text of an answer what it parses to.  runtime is the release of *)
(* the judge: limits, judge, test_release and the executors it admits.     *)
(***************************************************************************)
EXTENDS PairVerdict, Suite

-----------------------------------------------------------------------------
(* The question.                                                           *)

\* opaque_id: the digest names the manifest, the comparison, the case, the
\* repetition and the seed of the pair.
OpaqueId(s, seed, c, x, repetition) ==
  [manifest |-> s, comparison |-> c, case |-> x, repetition |-> repetition, seed |-> seed]

InvocationId(id, repetition, order) == <<id, repetition, order>>
RequestBytes(pair, repetition, order) ==
  [pair |-> pair, repetition |-> repetition, order |-> order]

\* shown is the task, contract, base files and diffs; roots what the judge may not
\* see.
JudgeRequest(s, roots, pair, repetition, order) ==
  [pair |-> pair, repetition |-> repetition, order |-> order,
   bytes |-> RequestBytes(pair, repetition, order), roots |-> roots,
   model |-> s.comparator.model, timeout |-> s.comparator.timeout,
   budget |-> s.comparator.budget]

RequestAccepted(q, runtime, maximum) ==
  /\ q.repetition \in Nat /\ q.order \in Orders
  /\ q.bytes = RequestBytes(q.pair, q.repetition, q.order)
  /\ [timeout |-> q.timeout, per_call |-> q.budget, run |-> maximum] = runtime.limits

-----------------------------------------------------------------------------
(* The answer: outcome, decision, response, transport and provider.        *)

\* ProviderResult.
ResultStated(p) ==
  /\ p.actual_models # <<>> /\ Distinct(p.actual_models)
  /\ p.billing \in {"metered_api", "chatgpt_subscription"}
  /\ p.billing = "metered_api" <=> p.cost # Absent
  /\ p.billing = "chatgpt_subscription" => Absent \notin {p.quota, p.provenance}
  /\ p.sandbox.enforced

\* validate_response, and what it normalizes to.
DecisionAgrees(result, q) ==
  /\ result.response \in Answers
  /\ result.decision = Normalized(result.response, q.order)
  /\ result.outcome = Outcome(result.decision)

\* The transport says what the provider says, and the raw text both.
EvidenceAgrees(result, q) ==
  LET p == result.provider
      expected ==
        [response |-> result.response, decision |-> result.decision, raw |-> p.final_output,
         requested_model |-> p.requested_model, actual_models |-> p.actual_models,
         provider |-> p.name, provider_version |-> p.version, cost |-> p.cost,
         duration |-> p.duration, request |-> q.bytes, executor |-> p.sandbox]
  IN  /\ \A key \in DOMAIN expected : result.transport[key] = expected[key]
      /\ p.final_output = [response |-> result.response, models |-> p.actual_models,
                           cost |-> p.cost, tokens |-> p.tokens]

JudgeAnswered(p, q, runtime) ==
  /\ ResultStated(p)
  /\ p.billing = "metered_api" /\ p.quota = Absent /\ p.provenance = Absent
  /\ p.cost <= q.budget
  /\ q.model = p.requested_model
  /\ runtime.judge = [requested_model |-> p.requested_model, provider |-> p.name,
                      provider_version |-> p.version]

\* Only a test release admits the fake; any other executor hid the roots.
ExecutorAccepted(result, q, runtime) ==
  LET executor == result.transport.executor
  IN  /\ IF executor.kind = "deterministic-fake"
         THEN runtime.test_release /\ result.provider.name = "deterministic-fake"
         ELSE executor \in runtime.executors /\ q.roots \subseteq executor.inaccessible
      /\ result.transport.command = [executable |-> executor.executable, request |-> q.bytes]

\* The journal holds one reservation and its reconciliation, and nothing else of
\* the attempt; only a test release may have no journal.
SpendReconciled(result, q, runtime, journal) ==
  LET bound == [attempt |-> result.transport.attempt, request |-> q.bytes,
                invocation |-> InvocationId(q.pair.id, q.repetition, q.order)]
      Entry(event, amount) ==
        [event |-> event, amount |-> amount, attempt |-> bound.attempt,
         request |-> bound.request, invocation |-> bound.invocation]
  IN  \/ journal = <<>> /\ runtime.test_release
      \/ \E m, n \in DOMAIN journal :
           /\ m < n
           /\ journal[m] = Entry("reserve", runtime.limits.per_call)
           /\ journal[n] = Entry("reconcile", result.provider.cost)
           /\ \A k \in DOMAIN journal : journal[k].attempt = bound.attempt => k \in {m, n}

\* _validate_comparator_result, when the result is made and when it is used.
ResultAccepted(result, q, runtime, maximum, journal) ==
  /\ RequestAccepted(q, runtime, maximum)
  /\ DecisionAgrees(result, q)
  /\ EvidenceAgrees(result, q)
  /\ JudgeAnswered(result.provider, q, runtime)
  /\ ExecutorAccepted(result, q, runtime)
  /\ SpendReconciled(result, q, runtime, journal)

\* The trial _compare_blind records of it.
Trial(result, q, c) ==
  [comparison |-> c, order |-> q.order, attempt |-> result.transport.attempt,
   request |-> q.bytes, invocation |-> InvocationId(q.pair.id, q.repetition, q.order),
   provider_cost |-> result.provider.cost, transport_cost |-> result.transport.cost]

-----------------------------------------------------------------------------
(* The accounting: journals[c] is the journal of comparison c.             *)

Terminal == {"reconcile", "forfeit"}
Binding(r) == <<r.request, r.invocation>>

RecordAccounts(journal, n) ==
  LET r == journal[n]
      before == {m \in 1 .. (n - 1) : journal[m].attempt = r.attempt}
  IN  \/ r.event = "reserve" /\ before = {} /\ r.amount > 0
      \/ r.event = "historical" /\ before = {}
      \/ /\ r.event \in Terminal
         /\ \E m \in before :
              /\ before = {m} /\ journal[m].event = "reserve"
              /\ r.amount <= journal[m].amount /\ Binding(r) = Binding(journal[m])
              /\ r.event = "forfeit" => r.amount = journal[m].amount

\* Every record fits what came before it, and no reservation stays open.
JournalAccounts(journal) ==
  /\ \A n \in DOMAIN journal : RecordAccounts(journal, n)
  /\ \A m \in DOMAIN journal : journal[m].event = "reserve" =>
       \E n \in DOMAIN journal : journal[n].event \in Terminal
                                   /\ journal[n].attempt = journal[m].attempt

TrialAccounts(journal, t) ==
  \E n \in DOMAIN journal :
    /\ journal[n].event = "reconcile" /\ journal[n].attempt = t.attempt
    /\ Binding(journal[n]) = Binding(t)
    /\ {t.provider_cost, t.transport_cost} = {journal[n].amount}

TrialsAccount(journals, trials) ==
  \A i \in DOMAIN trials :
    /\ TrialAccounts(journals[trials[i].comparison], trials[i])
    /\ \A j \in DOMAIN trials :
         trials[i].comparison = trials[j].comparison /\ trials[i].attempt = trials[j].attempt
           => i = j

Having(journal, events) == {n \in DOMAIN journal : journal[n].event \in events}

KnownCost(journals) ==
  MapThenSumSet(LAMBDA c :
    MapThenSumSet(LAMBDA n : journals[c][n].amount, Having(journals[c], {"historical", "reconcile"})),
    DOMAIN journals)

UnknownInvocations(journals) ==
  MapThenSumSet(LAMBDA c : Cardinality(Having(journals[c], {"forfeit"})), DOMAIN journals)
=============================================================================
