--------------------------- MODULE MCSalesInvoice ---------------------------
(* SalesInvoice on small instances.                                          *)
EXTENDS SalesInvoice, TLC

CONSTANTS r1, r2, i1, p1, p2

Symmetry == Permutations(Requests) \cup Permutations(Parties)
=============================================================================
