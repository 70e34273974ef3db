------------------------- MODULE MCGeneratorLedger -------------------------
(* The ledger on two arms, two attempt ids and three processes.            *)
EXTENDS GeneratorLedger, TLC

CONSTANTS a1, a2, i1, i2, p1, p2, p3, b1, b2

\* p1 and p2 run the same configuration, p3 another one.
MCBindingOf == [p \in Processes |-> IF p = p3 THEN b2 ELSE b1]
Symmetry == Permutations(Arms) \cup Permutations(Ids) \cup Permutations({p1, p2})
=============================================================================
