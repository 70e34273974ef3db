----------------------------- MODULE MCCollector -----------------------------
(* Two collectors, one after the other or at the same time, on one output;   *)
(* what their evidence is worth is evaluated in MCCalibration.               *)
EXTENDS Collector, MCCalibration, TLC

Symmetry == Permutations(Collectors)
=============================================================================
