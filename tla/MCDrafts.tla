------------------------------- MODULE MCDrafts -------------------------------
(* Two drafts whose amounts are at the roundings: of an item and entered freely,
   with a discount, within the state and across its border. *)
CONSTANTS i1, None

Draft(lines, extra, inter) == [lines |-> lines, extra |-> extra, inter |-> inter]
Item(qty, rate, disc, gst) == [item |-> i1, qty |-> qty, rate |-> rate, disc |-> disc, gst |-> gst]
Free(qty, rate, disc, gst) == [item |-> None, qty |-> qty, rate |-> rate, disc |-> disc, gst |-> gst]
FewDrafts ==
  {Draft(<<Item(15, 3999, 40, 0), Free(10, 670, 5, 18)>>, 0, TRUE),
   Draft(<<Item(15, 3999, 40, 18), Free(10, 659, 0, 18)>>, 25, FALSE)}
===============================================================================
