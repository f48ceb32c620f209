------------------------------- MODULE MCBooks -------------------------------
(* The components of the books on small instances.                             *)
EXTENDS Books, TLC

CONSTANTS a, b, m1, m2, p1, p2

FewForms == {[owner |-> "party", nature |-> "ASSET", opening |-> -2],
             [owner |-> "form", nature |-> "EXPENSE", opening |-> 1]}

(* Lines of the same code and rate, of no code, and of two rates.              *)
FewItem(qty, rate, gst, hsn) ==
  [qty |-> qty, rate |-> rate, disc |-> 0, gst |-> gst, short |-> FALSE, hsn |-> hsn]
FewDrafts ==
  <<[items |-> <<FewItem(10, 110, 5, p1), FewItem(10, 110, 5, None)>>, extra |-> 0],
    [items |-> <<FewItem(20, 110, 5, p1)>>, extra |-> 0],
    [items |-> <<FewItem(10, 900, 18, p2), FewItem(10, 110, 5, p1)>>, extra |-> 0]>>

Symmetry == Permutations({a, b})
=============================================================================
