----------------------------- MODULE MCPosting -----------------------------
(* Posting on small instances: the two dates lie on either side of 1 April.  *)
EXTENDS Posting

CONSTANTS r1, r2

MCDates == {[y |-> 2026, m |-> 3], [y |-> 2026, m |-> 4]}
=============================================================================
