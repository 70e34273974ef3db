---------------------------- MODULE MCHoldoutRun ----------------------------
(* Runs r1 and r2 are of one sealed plan, r3 is of a public split.         *)
EXTENDS HoldoutRun, TLC

CONSTANTS r1, r2, r3, plan, d1, d2, s1, s2, p1, p2, control, treatment

MCPlanOf == [r \in Runs |-> IF r = r3 THEN None ELSE plan]
MCPairsOf == [r \in Runs |-> <<p1>>]
MCSymmetry == Permutations(Roles) \cup Permutations(Roots)

\* Runs of a public split that select different cases.
MCNoPlan == [r \in Runs |-> None]
MCDisjoint == [r \in Runs |-> IF r = r3 THEN <<p1>> ELSE <<p2>>]
=============================================================================
