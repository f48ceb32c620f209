----------------------------- MODULE DocumentPrint -----------------------------
(***************************************************************************)
(* A document on paper: the template of its kind is resolved, its blocks    *)
(* are drawn one below the other, and each template has its own rules for   *)
(* when to turn the page.  Lengths are in points, amounts in paise.         *)
(***************************************************************************)
EXTENDS GstCalculator

CONSTANTS
  Documents,  \* documents saved: [kind, inter, lines, gross, bill, freight, other, notes, bank],
              \* gross before discounts, notes a number of lines, bank whether there is an account
  Layouts,    \* what a company may have stored for a kind of document, or for all kinds
  Heights,    \* heights of the rows of a table, as their descriptions are measured
  Tops,       \* where the table of the templates other than tally may start
  Amounts,    \* amounts to spell, in rupees
  None

VARIABLES print

vars == <<print>>

Sum(f) == SumFunctionOnSet(f, DOMAIN f)

(* What the calculator makes of any draft, and the service saves.              *)
LineSaved(line, inter) ==
  /\ line.taxable \in Nat /\ line.cgst \in Nat /\ line.sgst \in Nat /\ line.igst \in Nat
  /\ line.total = line.taxable + line.cgst + line.sgst + line.igst
  /\ IF inter THEN line.cgst = 0 ELSE line.igst = 0
  /\ line.cgst = 0 => line.sgst = 0
Saved(doc) ==
  /\ doc.lines \in Seq({doc.lines[i] : i \in DOMAIN doc.lines})
  /\ \A i \in DOMAIN doc.lines : LineSaved(doc.lines[i], doc.inter)
  /\ doc.gross \in Nat /\ doc.freight \in Nat /\ doc.other \in Nat /\ doc.notes \in Nat
  /\ doc.bill = Calculated(doc.lines, doc.freight + doc.other)

Default == [template |-> "tally", simple |-> FALSE, paper |-> "A4", gst |-> TRUE, qr |-> TRUE,
            balance |-> FALSE]
Allowed == [template |-> {"tally", "plain", "boxed"}, simple |-> BOOLEAN, paper |-> {"A4", "A5"},
            gst |-> BOOLEAN, qr |-> BOOLEAN, balance |-> BOOLEAN]

(* pickDocTemplate and resolveTemplate: the layout of the kind goes before the
   shared one, and what is missing or unknown in it is the default. *)
Layout(own, shared) ==
  LET raw == IF own # None THEN own ELSE IF shared # None THEN shared ELSE Default
  IN [f \in DOMAIN Default |->
        IF f \in DOMAIN raw THEN IF raw[f] \in Allowed[f] THEN raw[f] ELSE Default[f] ELSE Default[f]]

IsTally(l) == l.template = "tally"
Margin(l) == IF IsTally(l) THEN IF l.paper = "A5" THEN 16 ELSE 40
             ELSE IF l.paper = "A5" THEN 18 ELSE 24
Bottom(l) == (IF l.paper = "A5" THEN 595 ELSE 842) - Margin(l)

TaxOf(doc) == doc.bill.cgst + doc.bill.sgst + doc.bill.igst
Simple(doc, l) == IF doc.kind = "estimate" THEN TaxOf(doc) = 0 ELSE l.simple
ShowGst(doc, l) == l.gst /\ ~ Simple(doc, l) /\ TaxOf(doc) > 0

(* The amount in words, as <<number, unit>> parts, the largest unit first: the
   numbers below a hundred have names, and a hundred crores or more have none. *)
Said(parts) == {part \in parts : part[1] # 0}
AmountInWords(n) ==
  LET crore == n \div 10000000
  IN Said({<<IF crore < 100 THEN crore ELSE 0, 10000000>>, <<(n % 10000000) \div 100000, 100000>>,
           <<(n % 100000) \div 1000, 1000>>, <<n % 1000, 1>>})
AmountInWordsIntl(n) ==
  Said({<<(n \div 1000000000) % 1000, 1000000000>>, <<(n \div 1000000) % 1000, 1000000>>,
           <<(n \div 1000) % 1000, 1000>>, <<n % 1000, 1>>})

-----------------------------------------------------------------------------
(* Where the table begins: below the box of the seller, the parties and six rows of
   details and one of terms, or below a header, title and meta of some height. *)
TallyTop(l) == Margin(l) + 14 + 23 * (6 + 1)
PlainTop(top) == top

(* The height of the head of the table, repeated on every page.               *)
Heading(l) == IF IsTally(l) THEN 22 ELSE 18

(* A block is drawn where `need` points are left above the bottom less `slack`,
   moves the cursor by `take`, and prints an amount to be added up. *)
Block(what, need, take, slack, amount) ==
  [what |-> what, need |-> need, take |-> take, slack |-> slack, amount |-> amount]
Rows(what, amounts, tall, slack) ==
  [i \in DOMAIN amounts |-> Block(what, tall[i], tall[i], slack, amounts[i])]
Texts(n, tall) == [i \in 1..n |-> Block("text", tall, tall, 0, 0)]

Positive(amount) == IF amount > 0 THEN <<amount>> ELSE <<>>
RoundOffRow(doc) == IF doc.bill.roundOff # 0 THEN <<doc.bill.roundOff>> ELSE <<>>

(* Broken variant: an invoice across the border prints the taxes of the state. *)
TaxRows_HomeOnly(doc) == <<doc.bill.cgst, doc.bill.sgst>>

TaxRows(doc) == IF doc.inter THEN <<doc.bill.igst>> ELSE <<doc.bill.cgst, doc.bill.sgst>>

(* The columns of the templates other than tally that hold amounts, and their cells.  *)
Columns(doc, l) ==
  {"total"} \cup (IF Simple(doc, l) THEN {} ELSE {"taxable"}) \cup (IF ShowGst(doc, l) THEN {"tax"} ELSE {})
Cell(line, column) ==
  CASE column = "taxable" -> line.taxable
    [] column = "tax" -> line.cgst + line.sgst + line.igst
    [] column = "total" -> line.total

(* The grid: a row for each line, the taxes, the charges and the total.       *)
TallyTable(doc, l, heights) ==
  LET more == (IF ShowGst(doc, l) THEN TaxRows(doc) ELSE <<>>)
              \o Positive(doc.freight) \o Positive(doc.other) \o RoundOffRow(doc)
  IN Rows("row", [i \in DOMAIN doc.lines |-> doc.lines[i].taxable], heights, 6)
     \o Rows("row", more, [i \in DOMAIN more |-> 14], 6)
     \o <<Block("total", 22, 22, 6, 0)>>

Hsns(doc) == {doc.lines[i].hsn : i \in DOMAIN doc.lines}
HsnRow(doc, hsn) ==
  LET own == {i \in DOMAIN doc.lines : doc.lines[i].hsn = hsn}
  IN [taxable |-> Sum([i \in own |-> doc.lines[i].taxable]),
      tax |-> IF doc.inter THEN Sum([i \in own |-> doc.lines[i].igst])
              ELSE Sum([i \in own |-> doc.lines[i].cgst + doc.lines[i].sgst])]

(* Below the grid: the tax by HSN, which takes less room than it asks for, but for
   the words under it and the gap under these. *)
WordsGap == 4
TallyTax(doc) ==
  LET tall == 32 + 14 * Cardinality(Hsns(doc))
  IN <<Block("tax", tall + 18, tall + 16, 6, 0), Block("label", 12, 0, 0, 0), Block("taxWords", 13, 13 + WordsGap, 0, 0)>>

TallyBank(doc) == IF doc.bank THEN <<Block("bank", 30, 30, 6, 0)>> ELSE <<>>
TallyNotes(doc) ==
  LET tall == 8 + 10 * doc.notes
  IN IF doc.notes > 0 THEN <<Block("notes", tall, tall, 6, 0)>> ELSE <<>>
TallySign(l) ==
  LET tall == IF l.qr THEN 84 ELSE 56
  IN <<Block("sign", tall + 16, tall, 6, 0)>>

TallySections(doc, l) ==
  <<Block("words", 26, 26, 6, 0)>> \o (IF ShowGst(doc, l) THEN TallyTax(doc) ELSE <<>>)
    \o TallyNotes(doc) \o TallyBank(doc) \o TallySign(l)

(* The other templates: the rows, then the totals, for which 200 points are kept. *)
TotalsRoom_Hundred == 100
TotalsRoom == 200

PlainTable(doc, heights) == Rows("row", [i \in DOMAIN doc.lines |-> 0], heights, 4)

(* The rows of the totals under quantity and subtotal, and what they come to.  *)
PlainAmounts(doc, l) ==
  (IF Simple(doc, l) THEN <<doc.gross, doc.bill.taxable - doc.gross>> ELSE <<doc.bill.taxable>>)
    \o (IF Simple(doc, l) THEN <<>>
        ELSE (IF doc.bill.cgst > 0 THEN <<doc.bill.cgst, doc.bill.sgst>> ELSE <<>>)
               \o Positive(doc.bill.igst))
    \o RoundOffRow(doc)

PlainTotals(doc, l) ==
  LET amounts == PlainAmounts(doc, l)
      discount == IF doc.gross > doc.bill.taxable THEN 1 ELSE 0
      shown == 2 + discount + Len(amounts) - (IF Simple(doc, l) THEN 2 ELSE 0)
      after == IF l.balance /\ doc.kind = "invoice" THEN 2 ELSE 0
      box == IF l.template = "boxed" THEN 30 ELSE 28
      tall == 6 + 15 * shown + box + 14 * after
  IN <<Block("totals", TotalsRoom, tall, 0, Sum(amounts))>>

(* Words, notes and terms run on; the bank details and the signature stand near
   the bottom, or below what there is. *)
PlainSections(doc, l) == PlainTotals(doc, l) \o Texts(1 + doc.notes, 10) \o <<Block("bottom", 0, 0, 0, 0)>>

-----------------------------------------------------------------------------
Idle == [at |-> "idle"]
Init == print = Idle

(* getForPdf and the head of render; the table begins below the header.        *)
Render(doc, own, shared, heights, top) ==
  /\ print = Idle
  /\ LET l == Layout(own, shared)
     IN print' = [at |-> "drawing", doc |-> doc, layout |-> l, page |-> 1, sum |-> 0,
                  y |-> (IF IsTally(l) THEN TallyTop(l) ELSE PlainTop(top)) + Heading(l),
                  top |-> 0, done |-> "header",
                  todo |-> IF IsTally(l) THEN TallyTable(doc, l, heights) \o TallySections(doc, l)
                           ELSE PlainTable(doc, heights) \o PlainSections(doc, l)]

Next1 == Head(print.todo)
Fits == print.y + Next1.need <= Bottom(print.layout) - Next1.slack

Drawn(page, top) ==
  print' = [print EXCEPT !.page = page, !.top = top, !.y = top + Next1.take, !.done = Next1.what,
              !.sum = @ + Next1.amount, !.todo = Tail(@)]

Pending(whats) ==
  /\ print.at = "drawing"
  /\ IF print.todo # <<>> THEN Next1.what \in whats ELSE FALSE

(* rowBreak: the table goes on under its header on the next page.              *)
DrawRow ==
  /\ Pending({"row", "total"})
  /\ IF Fits THEN Drawn(print.page, print.y)
     ELSE Drawn(print.page + 1, Margin(print.layout) + Heading(print.layout))

(* ensureSpace, and the room for the totals.                                   *)
DrawSection ==
  /\ Pending({"words", "tax", "notes", "bank", "sign", "totals"})
  /\ IF Fits THEN Drawn(print.page, print.y) ELSE Drawn(print.page + 1, Margin(print.layout))

(* What is drawn unasked is moved by PDFKit to a new page when it does not fit;
   the label before the words of the tax leaves the cursor where it was. *)
DrawText ==
  /\ Pending({"text", "label", "taxWords"})
  /\ IF Fits THEN Drawn(print.page, print.y)
     ELSE IF Next1.what = "label"
     THEN print' = [print EXCEPT !.page = @ + 1, !.todo = Tail(@), !.done = "label",
                                 !.top = Margin(print.layout)]
     ELSE Drawn(print.page + 1, Margin(print.layout))

DrawBottom ==
  /\ Pending({"bottom"})
  /\ LET low == Bottom(print.layout) - 150
     IN Drawn(print.page, IF print.y + 22 > low THEN print.y + 22 ELSE low)

Finish ==
  /\ print.at = "drawing"
  /\ print.todo = <<>>
  /\ print' = [print EXCEPT !.at = "done"]

Deliver ==
  /\ print.at = "done"
  /\ print' = Idle

Next ==
  \/ \E doc \in Documents, own, shared \in Layouts \cup {None}, top \in Tops :
       \E heights \in [DOMAIN doc.lines -> Heights] : Render(doc, own, shared, heights, top)
  \/ DrawRow \/ DrawSection \/ DrawText \/ DrawBottom \/ Finish \/ Deliver

Spec == Init /\ [][Next]_vars

-----------------------------------------------------------------------------
TypeOK ==
  print = Idle \/ (print.at \in {"drawing", "done"} /\ print.doc \in Documents /\ print.page \in Nat \ {0})

(* Each row, the total, the tax table, the notes, the bank, the signature of the
   grid and the totals of the other templates stand whole on a page, unless they
   are taller than one (as a long description, a table of many codes and long notes
   may be), and the signature stands clear of the line at the foot of the page. *)
PageRoom(l, what) ==
  Bottom(l) - Margin(l) - (IF what \in {"row", "total"} THEN Heading(l) ELSE 0)
BlocksStayWhole ==
  print.at # "idle" =>
    /\ print.done \in {"total", "words", "bank", "totals", "text"} => print.y <= Bottom(print.layout)
    /\ print.done \in {"row", "tax", "notes"} =>
         \/ print.y <= Bottom(print.layout)
         \/ print.y - print.top > PageRoom(print.layout, print.done)
    /\ print.done = "taxWords" => print.y - WordsGap <= Bottom(print.layout)
    /\ print.done = "sign" => print.y <= Bottom(print.layout) - 12

(* What the templates leave out: the tax, where the GST columns are off or the bill
   is a simple one, and in the templates other than tally the charges. *)
Unprinted(doc, l) ==
  IF IsTally(l) THEN IF ShowGst(doc, l) THEN 0 ELSE TaxOf(doc)
  ELSE doc.bill.extra + (IF Simple(doc, l) THEN TaxOf(doc) ELSE 0)

(* The amounts printed above the total add up to it, but for those the layout
   leaves out, each row of the GST columns adds up to its total, and the tax table
   comes to the taxable value and tax of the document. *)
PrintedAddsUp ==
  print.at = "done" =>
    LET doc == print.doc
    IN /\ print.sum = doc.bill.total - Unprinted(doc, print.layout)
       /\ (~ IsTally(print.layout) /\ ShowGst(doc, print.layout)) =>
            \A i \in DOMAIN doc.lines :
              Cell(doc.lines[i], "total") =
                Sum([column \in Columns(doc, print.layout) \ {"total"} |-> Cell(doc.lines[i], column)])
       /\ doc.bill.taxable = Sum([hsn \in Hsns(doc) |-> HsnRow(doc, hsn).taxable])
       /\ TaxOf(doc) = Sum([hsn \in Hsns(doc) |-> HsnRow(doc, hsn).tax])

Spells(words, n) == n = Sum([part \in words |-> part[1] * part[2]])

(* The words say the amount, in both systems: below a hundred crores in the one,
   below a thousand billions in the other. *)
WordsSayAmount ==
  print.at = "done" =>
    \A n \in Amounts \cup {print.doc.bill.total \div Rupee} :
      /\ n \div 10000000 < 100 => Spells(AmountInWords(n), n)
      /\ n \div 1000000000 < 1000 => Spells(AmountInWordsIntl(n), n)
=============================================================================
