---------------------------- MODULE OptimizerRun ----------------------------
(***************************************************************************)
(* One live run of the skill optimizer: the command line that launches it  *)
(* and judges what comes back (skivolve/optimize_cli.py), the sidecar that *)
(* runs the trainer (skivolve/skillopt_sidecar.py), and the proxies, one   *)
(* per Codex start the trainer asks for, that share an invocation counter  *)
(* (skivolve/skillopt_codex_proxy.py).  The trainer is external: it asks   *)
(* for any rollout of any skill, any number of Codex starts, and reports   *)
(* what it likes.                                                          *)
(***************************************************************************)
EXTENDS Naturals, Sequences, FiniteSets

CONSTANTS
  Proxies,  \* proxy processes, each of one Codex start
  Maximum,  \* planned_optimizer_invocations
  Skills,   \* skill texts
  Seed,     \* the skill at the baseline commit
  Valid,    \* the skills that keep the frontmatter and the size limit
  Nil

OptimizerAssumption ==
  /\ Maximum \in Nat
  /\ Seed \in Valid /\ Valid \subseteq Skills
  /\ Nil \notin Proxies \cup Nat \cup {"qualified", "rejected", "no_change"}

VARIABLES
  counter,   \* codex-invocations.txt: a number, Nil when it is blank
  holder,    \* the proxy that holds the flock of the counter
  proxy,     \* proxy[p]: where it is, its claim and when it made it, what it started
  lost,      \* history: how often the count was lost
  sidecar,   \* where the sidecar is
  rollouts,  \* run_records, with the evidence their run.json binds
  report,    \* sidecar-result.json, Nil before it is written
  drift,     \* sources, packages or executables differ from the plan
  tainted,   \* history: what was evaluated while they did
  undone,    \* history: of this, what was before they were the plan's again
  cli,       \* where the command line is
  verdict    \* the status it publishes

optimizerVars == <<counter, holder, proxy, lost, sidecar, rollouts, report, drift, tainted, undone, cli, verdict>>
budget == <<counter, holder, proxy, lost>>
training == <<sidecar, rollouts, report>>
judging == <<cli, verdict>>
subject == <<drift, tainted, undone>>

OptimizerInit ==
  /\ counter = 0 /\ holder = Nil /\ lost = 0
  /\ proxy = [p \in Proxies |-> [pc |-> "none", epoch |-> 0, claim |-> 0, started |-> FALSE]]
  /\ sidecar = "launched" /\ rollouts = <<>> /\ report = Nil
  /\ drift = FALSE /\ tainted = {} /\ undone = {}
  /\ cli = "launched" /\ verdict = Nil

----------------------------------------------------------------------------
(* The invocation counter.                                                 *)

At(p, pc) == proxy[p].pc = pc
Go(p, pc) == proxy' = [proxy EXCEPT ![p].pc = pc]

\* int() of the text; nothing at all counts as none used.
Used == IF counter = Nil THEN 0 ELSE counter

\* The process ends and drops the lock.  Between truncate and write it takes
\* the count with it.
Ends(p) ==
  /\ Go(p, "ended")
  /\ holder' = IF holder = p THEN Nil ELSE holder
  /\ lost' = IF At(p, "truncated") THEN lost + 1 ELSE lost
  /\ UNCHANGED counter

Spawn(p) ==
  /\ sidecar = "training" /\ At(p, "none")
  /\ Go(p, "opened")
  /\ UNCHANGED <<counter, holder, lost, training, judging, subject>>

Lock(p) ==
  /\ At(p, "opened") /\ holder = Nil
  /\ Go(p, "locked") /\ holder' = p
  /\ UNCHANGED <<counter, lost, training, judging, subject>>

ClaimCall(p) ==
  /\ At(p, "locked")
  /\ IF Used + 1 > Maximum
     THEN Ends(p)
     ELSE /\ proxy' = [proxy EXCEPT ![p] =
               [pc |-> "read", epoch |-> lost, claim |-> Used + 1, started |-> FALSE]]
          /\ UNCHANGED <<counter, holder, lost>>
  /\ UNCHANGED <<training, judging, subject>>

Truncate(p) ==
  /\ At(p, "read")
  /\ Go(p, "truncated") /\ counter' = Nil
  /\ UNCHANGED <<holder, lost, training, judging, subject>>

Write(p) ==
  /\ At(p, "truncated")
  /\ Go(p, "written") /\ counter' = proxy[p].claim
  /\ UNCHANGED <<holder, lost, training, judging, subject>>

Sync(p) ==
  /\ At(p, "written")
  /\ Go(p, "claimed") /\ holder' = Nil
  /\ UNCHANGED <<counter, lost, training, judging, subject>>

\* The Codex process starts.
Start(p) ==
  /\ At(p, "claimed")
  /\ proxy' = [proxy EXCEPT ![p].pc = "running", ![p].started = TRUE]
  /\ UNCHANGED <<counter, holder, lost, training, judging, subject>>

\* A system call fails, an argument is refused, the call returns or times out,
\* or the process is killed.
Stop(p) ==
  /\ proxy[p].pc \notin {"none", "ended"}
  /\ Ends(p)
  /\ UNCHANGED <<training, judging, subject>>

----------------------------------------------------------------------------
(* The sidecar.                                                            *)

\* revalidate_plan: everything the plan binds is what it was, now.
PlanHolds == ~drift

\* The sidecar compares once, before the trainer starts.
Load ==
  /\ sidecar = "launched"
  /\ sidecar' = IF PlanHolds THEN "training" ELSE "failed"
  /\ UNCHANGED <<budget, rollouts, report, judging, subject>>

Phases == <<"baseline_selection", "training", "candidate_selection">>

\* What the requested batch means after the rollouts so far.
PhaseOf(batch) ==
  IF batch = "training" THEN "training"
  ELSE IF rollouts = <<>> THEN "baseline_selection" ELSE "candidate_selection"

\* An evaluation reads what is there, and compares it with nothing.
Evaluated(what) ==
  /\ tainted' = IF drift THEN tainted \cup {what} ELSE tainted
  /\ undone' = IF drift THEN undone \ {what} ELSE undone
  /\ UNCHANGED drift

\* SkivolveAdapter.rollout, when nothing raises: the evaluation's run.json has
\* complete infrastructure and hard is 1 iff all of the case's expectations held.
Rollout(skill, batch, hard) ==
  /\ sidecar = "training" /\ skill \in Valid
  /\ Len(rollouts) < 3 /\ PhaseOf(batch) = Phases[Len(rollouts) + 1]
  /\ rollouts' = Append(rollouts, [phase |-> PhaseOf(batch), skill |-> skill, hard |-> hard])
  /\ Evaluated("rollouts")
  /\ UNCHANGED <<budget, sidecar, report, judging>>

\* _finalize_optimizer_budget, and the rest of the result.  A blank counter
\* fails.  The trainer chooses the best skill and what it says of it.
Finalize(best, summary) ==
  /\ sidecar = "training"
  /\ counter # Nil /\ Used <= Maximum /\ best \in Valid
  /\ sidecar' = "finalized"
  /\ report' = [best |-> best, summary |-> summary, runs |-> rollouts, used |-> Used]
  /\ UNCHANGED <<budget, rollouts, judging, subject>>

Exit ==
  /\ sidecar = "finalized"
  /\ sidecar' = "exited"
  /\ UNCHANGED <<budget, rollouts, report, judging, subject>>

\* An exception, or the command line's deadline.
SidecarFails ==
  /\ sidecar \in {"launched", "training", "finalized"}
  /\ sidecar' = "failed"
  /\ UNCHANGED <<budget, rollouts, report, judging, subject>>

----------------------------------------------------------------------------
(* The command line.                                                       *)

\* _validate_inner_runs: the rollouts are the plan's, of the seed and then of
\* at most one other skill, and the trainer's summary agrees with them.
RunsAgree(r) ==
  LET initial == r.best = Seed
      scored == IF initial THEN r.runs[1].hard ELSE r.runs[3].hard
  IN /\ Len(r.runs) \in {2, 3}
     /\ \A i \in 1 .. Len(r.runs) : r.runs[i].phase = Phases[i]
     /\ r.runs[1].skill = Seed /\ r.runs[2].skill = Seed
     /\ IF Len(r.runs) = 2 THEN initial
        ELSE r.runs[3].skill # Seed /\ r.best \in {Seed, r.runs[3].skill}
     /\ r.summary = [accepted |-> ~initial, baseline |-> r.runs[1].hard, best |-> scored]

\* _validate_optimizer_budget.
BudgetAgrees(r) == r.used <= Maximum /\ counter = r.used

\* run_command kills the group of a sidecar that ended until nobody is left.
Reaped == \A p \in Proxies : proxy[p].pc \in {"none", "ended"}

CliFails == cli' = "failed" /\ UNCHANGED verdict

Collect ==
  /\ cli = "launched" /\ sidecar \in {"exited", "failed"} /\ Reaped
  /\ IF sidecar = "exited" THEN cli' = "collected" /\ UNCHANGED verdict ELSE CliFails
  /\ UNCHANGED <<budget, training, subject>>

\* The sources are compared, then _validate_sidecar_result.
Revalidate ==
  /\ cli = "collected"
  /\ IF PlanHolds THEN cli' = "revalidated" /\ UNCHANGED verdict ELSE CliFails
  /\ UNCHANGED <<budget, training, subject>>

Validate ==
  /\ cli = "revalidated"
  /\ IF RunsAgree(report) /\ BudgetAgrees(report) /\ report.best \in Valid
     THEN cli' = (IF report.best = Seed THEN "unchanged" ELSE "certifying") /\ UNCHANGED verdict
     ELSE CliFails
  /\ UNCHANGED <<budget, training, subject>>

\* _certify_candidate: a fresh evaluation that has its whole matrix; its exit
\* code says whether it passed.
Certify(passed) ==
  /\ cli = "certifying"
  /\ cli' = IF passed THEN "passed" ELSE "rejected"
  /\ Evaluated("certification")
  /\ UNCHANGED <<budget, training, verdict>>

\* An evaluation that is incomplete, or anything else that raises.
CliStops ==
  /\ cli \notin {"launched", "failed", "published"} /\ CliFails
  /\ UNCHANGED <<budget, training, subject>>

\* The sources are compared once more, and the status is published.
Publish ==
  /\ cli \in {"unchanged", "passed", "rejected"}
  /\ IF PlanHolds
     THEN /\ cli' = "published"
          /\ verdict' = CASE cli = "passed" -> "qualified"
                          [] cli = "rejected" -> "rejected"
                          [] cli = "unchanged" -> "no_change"
     ELSE CliFails
  /\ UNCHANGED <<budget, training, subject>>

\* Somebody edits what the plan binds.
Drift ==
  /\ ~drift /\ drift' = TRUE
  /\ UNCHANGED <<budget, training, judging, tainted, undone>>

\* And takes the edits back: no comparison will see them any more.
Undo ==
  /\ drift /\ drift' = FALSE
  /\ undone' = tainted
  /\ UNCHANGED <<budget, training, judging, tainted>>

----------------------------------------------------------------------------
Summaries == [accepted : BOOLEAN, baseline : {0, 1}, best : {0, 1}]

OptimizerNext ==
  \/ \E p \in Proxies :
       \/ Spawn(p) \/ Lock(p) \/ ClaimCall(p) \/ Truncate(p) \/ Write(p) \/ Sync(p) \/ Start(p)
       \/ Stop(p)
  \/ \E skill \in Skills, batch \in {"selection", "training"}, hard \in {0, 1} :
       Rollout(skill, batch, hard)
  \/ \E best \in Skills, summary \in Summaries : Finalize(best, summary)
  \/ Load \/ Exit \/ SidecarFails
  \/ Collect \/ Revalidate \/ Validate
  \/ \E passed \in BOOLEAN : Certify(passed)
  \/ CliStops \/ Publish
  \/ Drift \/ Undo

OptimizerSpec == OptimizerInit /\ [][OptimizerNext]_optimizerVars

----------------------------------------------------------------------------
(* Properties.                                                             *)

\* Proxies that started Codex.
Started == {p \in Proxies : proxy[p].started}

\* The number of Codex starts is within the plan's maximum, once more for every
\* time the count was lost: two proxies never start on one claim, however many
\* run at a time and wherever they are killed.
StartsAreBounded == Cardinality(Started) <= (lost + 1) * Maximum

\* A published result that kept its count names no fewer starts than were made,
\* and no proxy is left to start another.
CountIsWhole ==
  verdict # Nil => Reaped /\ (lost = 0 => Cardinality(Started) <= report.used)

\* Only edits that were taken back in time go unnoticed: no rollouts of other
\* sources than the plan's are judged, let alone their candidate certified, unless
\* the plan's came back after them, and no status is published on a certification
\* of other sources unless the plan's came back after it.
NoStaleEvidence ==
  /\ cli \in {"revalidated", "unchanged", "certifying", "passed", "rejected", "published"} =>
       ("rollouts" \in tainted => "rollouts" \in undone)
  /\ verdict # Nil => tainted \subseteq undone

\* Whatever the trainer asked for and reported, a skill that qualified is not
\* the seed, is valid, and was the one evaluated last, after the seed's own two
\* rollouts.
QualifiedWasSelected ==
  verdict = "qualified" =>
    /\ report.best \in Valid \ {Seed}
    /\ [i \in 1 .. Len(rollouts) |-> rollouts[i].skill] = <<Seed, Seed, report.best>>
=============================================================================
