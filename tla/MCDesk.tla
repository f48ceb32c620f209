-------------------------------- MODULE MCDesk --------------------------------
(* The parts of the desk on small instances.                                   *)
EXTENDS Desk, FiniteSetsExt, TLC

CONSTANTS i1, c1, c2, k1, k2, p1, p2

INSTANCE MCDrafts

BothOfOne == <<p1, p1>>
OneEach == {<<1, 1>>}

PrintLine(hsn, qty, rate, disc, gst) ==
  [hsn |-> hsn, qty |-> qty, rate |-> rate, disc |-> disc, gst |-> gst]

PrintDocument(kind, inter, items, freight, other, notes, bank) ==
  LET lines == [i \in DOMAIN items |-> Entry!LineOf(items[i], inter, FALSE)]
  IN [kind |-> kind, inter |-> inter, freight |-> freight, other |-> other, notes |-> notes, bank |-> bank,
      lines |-> [i \in DOMAIN items |-> lines[i] @@ [hsn |-> items[i].hsn]],
      gross |-> MapThenSumSet(LAMBDA i : Entry!Round(items[i].qty * items[i].rate, Entry!QtyUnit), DOMAIN items),
      bill |-> Entry!Calculated(lines, freight + other)]

FewDocuments ==
  {PrintDocument("invoice", FALSE,
     <<PrintLine(1, 15, 3999, 10, 5), PrintLine(2, 10, 659, 0, 18), PrintLine(1, 10, 670, 0, 5)>>, 25, 10, 2, TRUE),
   PrintDocument("invoice", TRUE, <<PrintLine(1, 15, 3999, 0, 18), PrintLine(2, 10, 100, 0, 0)>>, 0, 0, 0, TRUE),
   PrintDocument("estimate", FALSE, <<PrintLine(1, 15, 3999, 40, 0)>>, 100, 0, 9, FALSE)}

FewLayouts ==
  {<<>>, [template |-> "boxed"], [template |-> "plain", simple |-> TRUE, paper |-> "A5"],
   [template |-> "boxed", balance |-> TRUE, paper |-> "A5"],
   [template |-> "other", gst |-> FALSE], [paper |-> "A5", qr |-> FALSE], [simple |-> TRUE]}

ListEntry(kind, taxed, booked, batched, year, date) ==
  [kind |-> kind, taxed |-> taxed, booked |-> booked, batched |-> batched, year |-> year, date |-> date]

FewEntries ==
  {ListEntry("invoice", TRUE, FALSE, FALSE, 2, 2), ListEntry("bill", FALSE, FALSE, TRUE, 2, 3),
   ListEntry("estimate", TRUE, FALSE, FALSE, 2, 2), ListEntry("estimate", TRUE, FALSE, FALSE, 1, 1),
   ListEntry("estimate", TRUE, TRUE, FALSE, 2, 1)}
ThisDay == [year |-> 2, date |-> 2]
FewUsers == {<<"ADMIN", FALSE, 2>>, <<"ACCOUNTANT", TRUE, 2>>, <<"ACCOUNTANT", FALSE, 1>>}

Symmetry == Permutations({c1, c2})
=============================================================================
