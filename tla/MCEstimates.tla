---------------------------- MODULE MCEstimates ----------------------------
(* Estimates on small instances.                                             *)
EXTENDS Estimates, TLC

CONSTANTS r1, r2, e1, taxed, bare

Symmetry == Permutations(Requests)
=============================================================================
