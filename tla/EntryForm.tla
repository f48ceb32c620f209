------------------------------ MODULE EntryForm ------------------------------
(***************************************************************************)
(* The form that enters invoices and estimates, against the service that    *)
(* saves them: the form shows a total of its own, the service computes      *)
(* another from what the form sends and from the items as they are by then. *)
(* A cash sale is paid by a second request, whose failure nobody sees.      *)
(***************************************************************************)
EXTENDS GstCalculator, FiniteSets

CONSTANTS
  Items, Rates,   \* items, and the GST rates one may have
  Drafts,         \* what a user may enter: [lines, extra, inter], extra the freight and
                  \* other charges, a line an [item, qty, rate, disc, gst]
  MaxDocs,        \* bound: documents ever saved
  MaxMoves,       \* bound: changes of items' rates
  MaxSends,       \* bound: times a form is sent
  None

Line == [item : Items \cup {None}, qty : Nat, rate : Nat, disc : 0..100, gst : Rates]

VARIABLES
  master,  \* server: the GST rate of each item
  docs,    \* server: the documents saved
  form,    \* the form
  moves    \* changes of items so far

vars == <<master, docs, form, moves>>

Closed == [at |-> "closed"]
Kinds == {"invoice", "estimate"}

Init ==
  /\ master \in [Items -> Rates]
  /\ docs = <<>>
  /\ form = Closed
  /\ moves = 0

Blank(kind) ==
  [at |-> "open", kind |-> kind, edit |-> 0, seen |-> master, lines |-> <<>>, extra |-> 0,
   taxed |-> TRUE, inter |-> FALSE, cash |-> FALSE, filled |-> FALSE, saved |-> 0, sends |-> 0,
   ledger |-> TRUE, error |-> "none"]

(* bootstrap: items, and the ledgers cash may go to; no ledger if they fail.  *)
Open(kind) ==
  /\ form = Closed
  /\ \E ledger \in BOOLEAN : form' = [Blank(kind) EXCEPT !.ledger = ledger]
  /\ UNCHANGED <<master, docs, moves>>

(* ... and the document, with the rates it was saved at: tax is off if none of
   its lines bears any. *)
OpenEdit(d) ==
  /\ form = Closed
  /\ LET doc == docs[d]
         taxed == doc.kind = "estimate" => \E i \in DOMAIN doc.lines : doc.lines[i].gst > 0
     IN form' = [Blank(doc.kind) EXCEPT !.edit = d, !.lines = doc.lines, !.extra = doc.extra,
                   !.taxed = taxed, !.inter = doc.inter]
  /\ UNCHANGED <<master, docs, moves>>

(* updateLine: an item brings the rate it had when the form was opened; only
   estimates have the tax switch, only new invoices the cash one. *)
Fill(draft, taxed, cash) ==
  /\ form # Closed
  /\ form.at = "open" /\ ~ form.filled
  /\ form.kind = "invoice" => taxed
  /\ form.kind = "estimate" \/ form.edit # 0 => ~ cash
  /\ \A i \in DOMAIN draft.lines :
       LET l == draft.lines[i] IN l.item # None => l.gst = form.seen[l.item]
  /\ form' = [form EXCEPT !.lines = draft.lines, !.extra = draft.extra, !.inter = draft.inter,
                !.taxed = taxed, !.cash = cash, !.filled = TRUE]
  /\ UNCHANGED <<master, docs, moves>>

Shown(f) ==
  Preview([i \in DOMAIN f.lines |-> [f.lines[i] EXCEPT !.gst = IF f.taxed THEN @ ELSE 0]], f.extra)

Submit ==
  /\ form # Closed
  /\ form.at = "open" /\ form.lines # <<>> /\ form.sends < MaxSends
  /\ form' = [form EXCEPT !.at = "sent", !.sends = @ + 1]
  /\ UNCHANGED <<master, docs, moves>>

(* Broken variant: with the switch off, items keep their own rate. *)
Resolved_SwitchForgotten(l, taxed) ==
  [l EXCEPT !.gst = IF l.item # None THEN master[l.item] ELSE IF taxed THEN @ ELSE 0]

(* The body sent has no rate on an item's line, and 0 on every line with tax
   off; create and update take the rate the item has now. *)
Resolved(l, taxed) ==
  [l EXCEPT !.gst = IF ~ taxed THEN 0 ELSE IF l.item # None THEN master[l.item] ELSE @]

Saved(kind, lines, extra, inter, short) ==
  LET calc == [i \in DOMAIN lines |-> LineOf(lines[i], inter, short)]
  IN [kind |-> kind, lines |-> lines, calc |-> calc, bill |-> Calculated(calc, extra),
      extra |-> extra, inter |-> inter, paid |-> 0, from |-> 0, edited |-> FALSE,
      shown |-> None, asShown |-> FALSE]

Converted(d) == \E e \in DOMAIN docs : docs[e].from = d
Final(d) == IF d \in DOMAIN docs THEN docs[d].paid > 0 \/ Converted(d) ELSE FALSE

(* create or update of the document as of now.  An invoice is posted; one with
   payments, or a converted estimate, is not edited. *)
Serve(short) ==
  /\ form # Closed
  /\ form.at = "sent"
  /\ Len(docs) < MaxDocs
  /\ LET lines == [i \in DOMAIN form.lines |-> Resolved(form.lines[i], form.taxed)]
         doc == [Saved(form.kind, lines, form.extra, form.inter, short) EXCEPT
                   !.shown = Shown(form),
                   !.asShown = ~ form.taxed \/ \A i \in DOMAIN lines : lines[i].gst = form.lines[i].gst]
         v == SalesVoucher(doc.bill)
     IN IF form.edit # 0 /\ Final(form.edit)
        THEN /\ form' = [form EXCEPT !.at = "open", !.error = "final"]
             /\ UNCHANGED docs
        ELSE IF form.kind = "invoice" /\ ~ (Balanced(v) /\ Something(v))
        THEN /\ form' = [form EXCEPT !.at = "open",
                           !.error = IF Balanced(v) THEN "empty" ELSE "unbalanced"]
             /\ UNCHANGED docs
        ELSE /\ docs' = IF form.edit = 0 THEN Append(docs, doc)
                        ELSE [docs EXCEPT ![form.edit] = [doc EXCEPT !.from = docs[form.edit].from,
                                                                     !.edited = TRUE]]
             /\ form' = [form EXCEPT !.at = "served",
                           !.saved = IF form.edit = 0 THEN Len(docs) + 1 ELSE form.edit]
  /\ UNCHANGED <<master, moves>>

(* The request, or its answer, is lost: the form stays, and may be sent again. *)
Fail ==
  /\ form # Closed
  /\ form.at \in {"sent", "served"}
  /\ form' = [form EXCEPT !.at = "open", !.error = "lost"]
  /\ UNCHANGED <<master, docs, moves>>

(* The user goes elsewhere.                                                   *)
Leave ==
  /\ form # Closed
  /\ form.at = "open"
  /\ form' = Closed
  /\ UNCHANGED <<master, docs, moves>>

(* The answer: a new cash sale is paid next, anything else is done.           *)
Answer ==
  /\ form # Closed
  /\ form.at = "served"
  /\ form' = IF form.cash /\ form.edit = 0 /\ form.ledger THEN [form EXCEPT !.at = "paying"] ELSE Closed
  /\ UNCHANGED <<master, docs, moves>>

(* Broken variant: an amount beyond the balance is accepted. *)
PayCash_Unchecked ==
  /\ form # Closed
  /\ form.at = "paying"
  /\ docs' = [docs EXCEPT ![form.saved].paid = @ + Shown(form)]
  /\ form' = Closed
  /\ UNCHANGED <<master, moves>>

(* recordPayment of the total the form shows, if it fits what is left; refused,
   the page goes on as if it had been paid. *)
PayCash ==
  /\ form # Closed
  /\ form.at = "paying"
  /\ LET amount == Shown(form)
         doc == docs[form.saved]
     IN docs' = IF amount > 0 /\ amount <= doc.bill.total - doc.paid
                THEN [docs EXCEPT ![form.saved].paid = @ + amount]
                ELSE docs
  /\ form' = Closed
  /\ UNCHANGED <<master, moves>>

(* ... and so it does if the payment is lost.                                  *)
LoseCash ==
  /\ form # Closed
  /\ form.at = "paying"
  /\ form' = Closed
  /\ UNCHANGED <<master, docs, moves>>

(* Broken variant: a conversion takes the rates items have now. *)
Convert_CurrentRates(d, short) ==
  /\ docs[d].kind = "estimate" /\ Len(docs) < MaxDocs
  /\ ~ Converted(d)
  /\ docs[d].bill.cgst + docs[d].bill.sgst + docs[d].bill.igst > 0
  /\ LET lines == [i \in DOMAIN docs[d].lines |-> Resolved(docs[d].lines[i], TRUE)]
     IN docs' = Append(docs, [Saved("invoice", lines, 0, docs[d].inter, short) EXCEPT !.from = d])
  /\ UNCHANGED <<master, form, moves>>

(* convertToInvoice: a taxed estimate, its lines at its own rates and without its
   charges. *)
Convert(d, short) ==
  /\ docs[d].kind = "estimate" /\ Len(docs) < MaxDocs
  /\ ~ Converted(d)
  /\ docs[d].bill.cgst + docs[d].bill.sgst + docs[d].bill.igst > 0
  /\ docs' = Append(docs, [Saved("invoice", docs[d].lines, 0, docs[d].inter, short) EXCEPT !.from = d])
  /\ UNCHANGED <<master, form, moves>>

(* Somebody gives an item another rate.                                       *)
ItemChanges(i, g) ==
  /\ g # master[i] /\ moves < MaxMoves
  /\ master' = [master EXCEPT ![i] = g]
  /\ moves' = moves + 1
  /\ UNCHANGED <<docs, form>>

Next ==
  \/ \E k \in Kinds : Open(k)
  \/ \E d \in DOMAIN docs : OpenEdit(d)
  \/ \E draft \in Drafts, taxed, cash \in BOOLEAN : Fill(draft, taxed, cash)
  \/ Submit \/ Fail \/ Leave \/ Answer \/ PayCash \/ LoseCash
  \/ \E short \in BOOLEAN : Serve(short)
  \/ \E d \in DOMAIN docs, short \in BOOLEAN : Convert(d, short)
  \/ \E i \in Items, g \in Rates : ItemChanges(i, g)

Spec == Init /\ [][Next]_vars

-----------------------------------------------------------------------------
TypeOK ==
  /\ master \in [Items -> Rates]
  /\ form = Closed \/ (form.at \in {"open", "sent", "served", "paying"} /\ form.saved \in 0..Len(docs))
  /\ \A d \in DOMAIN docs :
       /\ docs[d].kind \in Kinds /\ docs[d].paid \in Nat
       /\ docs[d].from \in 0..(d - 1)
       /\ DOMAIN docs[d].calc = DOMAIN docs[d].lines

(* Whatever the quantities, rates and discounts, and wherever the odd paise fall:
   a document's sums, charges and round-off are its total, the two halves of its
   tax differ by a paisa a line at most, the round-off is within half a rupee, and
   no invoice is refused because its voucher does not balance. *)
DocumentsAddUp ==
  /\ form # Closed => form.error # "unbalanced"
  /\ \A d \in DOMAIN docs :
       LET b == docs[d].bill
       IN /\ Balanced(SalesVoucher(b))
          /\ b.total % Rupee = 0
          /\ b.roundOff \in -49..50
          /\ b.sgst <= b.cgst + Len(docs[d].lines) /\ b.cgst <= b.sgst + Len(docs[d].lines)

(* The rupees that rounding each of n lines, instead of none, may move a total: a line
   is rounded three times, by 1.78 paise in all at a rate of 28 percent. *)
RupeesOff(n) == (n + 55) \div 56

(* The total saved is the one the form showed, to the rupee that rounding may move in
   up to 56 lines, provided the items still have the rates the form showed. *)
SavedAsShown ==
  \A d \in DOMAIN docs :
    docs[d].asShown =>
      LET off == RupeesOff(Len(docs[d].lines))
      IN docs[d].bill.total - docs[d].shown \in {Rupee * n : n \in (-off)..off}

(* "settle the full amount immediately": a cash sale whose payment came through
   is settled, but for what rounding may move, and never overpaid. *)
CashIsSettled ==
  \A d \in DOMAIN docs :
    docs[d].paid > 0 /\ docs[d].asShown =>
      docs[d].bill.total - docs[d].paid \in {Rupee * n : n \in 0..RupeesOff(Len(docs[d].lines))}

(* The invoice made of an estimate comes to what the estimate came to without its
   charges, at the rates it was given at. *)
ConversionKeepsRates ==
  \A d \in DOMAIN docs : docs[d].from # 0 /\ ~ docs[d].edited =>
    LET e == docs[docs[d].from].bill
    IN e.extra = 0 => docs[d].bill.total = e.total

-----------------------------------------------------------------------------
(* "Cash auto-records full payment on save": so it does for every cash sale whose
   payment got to the service, at the rates the form showed. *)
CashRecordsFullPayment ==
  \A d \in DOMAIN docs :
    docs[d].paid > 0 /\ docs[d].asShown => docs[d].paid = docs[d].bill.total
=============================================================================
