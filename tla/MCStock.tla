------------------------------- MODULE MCStock -------------------------------
(* Stock on a small instance.                                                *)
EXTENDS Stock, TLC

CONSTANTS r1, r2, item1, b1, d1, d2, d3

Symmetry == Permutations(Requests) \cup Permutations(Docs)
=============================================================================
