---------------------------- MODULE MCSpendLedger ----------------------------
(* The spend ledger under the AB and the BA comparison of a pair; the        *)
(* documents of a run, its accounting among them, are in MCDocuments.        *)
EXTENDS SpendLedger, MCDocuments, TLC

CONSTANTS AB, BA

Symmetry == Permutations({AB, BA})
=============================================================================
