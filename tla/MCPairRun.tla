------------------------------ MODULE MCPairRun ------------------------------
(* The run of one pair, and what is made of the results of many: a bounded  *)
(* check of ReleaseVerdict against what its verdicts are meant to say.  The  *)
(* holdout run has one comparison and eight cases of one skill.              *)
EXTENDS PairRun, Sequences

Holdout(results) ==
  INSTANCE ReleaseVerdict WITH
    pairs <- results,
    comparisons <- {"old-vs-new"}, release <- {"old-vs-new"},
    cases <- 1..8,
    skill <- [x \in 1..8 |-> "skill"], fingerprint <- [x \in 1..8 |-> x],
    selection <- [split |-> "holdout", verifier_only |-> FALSE, cases_chosen |-> FALSE,
                  seed_chosen |-> FALSE, comparisons |-> {"old-vs-new"}],
    objective <- FALSE,
    authorities <- [plan |-> TRUE, judge |-> TRUE, generator |-> TRUE],
    planned <- [x \in 1..8 |-> [fingerprint |-> x, tree |-> x, skill |-> "skill"]]

Result(x, r, w) ==
  [comparison |-> "old-vs-new", case |-> x, repetition |-> r, completed |-> TRUE,
   treatment |-> TRUE, critical |-> TRUE, winner |-> w, bias |-> FALSE,
   models |-> {"m"}, judges |-> {"j"}, missing |-> FALSE]

\* The results of a run in which repetition r of case x was won by won[x][r + 1].
Results(won) ==
  [n \in 1..24 |-> LET x == (n - 1) \div 3 + 1 r == (n - 1) % 3
                   IN Result(x, r, won[x][r + 1])]

Three(w) == <<w, w, w>>
Best == Results([x \in 1..8 |-> Three("treatment")])

Released(results) == Holdout(results)!FinalReleaseAuthorized

\* The best run is released; with one result lost, repeated, failed or
\* unstable in any way it is not, and with one other winner it still is.
ASSUME EveryResultCounts ==
  /\ Released(Best)
  /\ \A n \in 1..24 :
       LET With(result) == [Best EXCEPT ![n] = result]
       IN /\ ~Released(SubSeq(Best, 1, n - 1) \o SubSeq(Best, n + 1, 24))
          /\ ~Released(Append(Best, Best[n]))
          /\ \A m \in {(n % 24) + 1} : ~Released(With(Best[m]))
          /\ \A field \in {"completed", "treatment", "critical"} :
               ~Released(With([Best[n] EXCEPT ![field] = FALSE]))
          /\ \A field \in {"bias", "missing"} :
               ~Released(With([Best[n] EXCEPT ![field] = TRUE]))
          /\ \A field \in {"models", "judges"} :
               ~Released(With([Best[n] EXCEPT ![field] = {"other"}]))
          /\ \A w \in Holdout(Best)!FinalWinners : Released(With([Best[n] EXCEPT !.winner = w]))

\* Of eight cases, the treatment must win all, or seven and lose one.
ASSUME EnoughWins ==
  \A wins, losses \in 0..8 : wins + losses <= 8 =>
    \A won \in {Three("treatment"), <<"treatment", "tie", "treatment">>},
       lost \in {Three("control"), <<"control", "control", "treatment">>},
       neither \in {Three("tie"), <<"treatment", "control", "tie">>} :
      Released(Results([x \in 1..8 |-> IF x <= wins THEN won
                                       ELSE IF x <= wins + losses THEN lost
                                       ELSE neither]))
        <=> <<wins, losses>> \in {<<8, 0>>, <<7, 1>>}

\* The sign test is never passed without more wins than losses, nor failed by
\* one win more or one loss less.
ASSUME SignTest ==
  LET Significant(w, l) == Holdout(Best)!Significant(w, l)
  IN \A wins, losses \in 0..10 : Significant(wins, losses) =>
       /\ wins > losses
       /\ Significant(wins + 1, losses)
       /\ losses > 0 => Significant(wins, losses - 1)
=============================================================================
