------------------------------ MODULE GstReturns ------------------------------
(***************************************************************************)
(* The GST returns of a period against the books they are drawn from: sales *)
(* invoices and credit notes, which are edited, cancelled and removed, the  *)
(* vouchers they post, and customers who register for GST later on.         *)
(***************************************************************************)
EXTENDS GstCalculator

CONSTANTS
  Parties,
  Away,       \* the parties of another state
  Invoices, Notes,
  Periods,    \* months
  Bills,      \* what a document may consist of: [lines, sums] as GstCalculator comes
              \* to them, for each bill and for both kinds of supply
  Threshold,  \* B2CL_THRESHOLD
  None

VARIABLES
  gstin,   \* the parties that have a GSTIN on record
  inv,     \* the invoices: party, period, lines and sums, whether issued
  note,    \* the credit notes, each with its invoice
  books    \* the vouchers of both: period, whether active, amounts by ledger

vars == <<gstin, inv, note, books>>

Ids == Invoices \cup Notes
Total(f) == SumFunctionOnSet(f, DOMAIN f)
Issued(d) == d # None /\ d.issued

Init ==
  /\ gstin \in SUBSET Parties
  /\ inv = [i \in Invoices |-> None]
  /\ note = [n \in Notes |-> None]
  /\ books = [d \in Ids |-> None]

Chosen == DOMAIN Bills

Document(p, t, bill, inter) ==
  [party |-> p, period |-> t, inter |-> inter, bill |-> bill, issued |-> TRUE, of |-> None]
LinesOf(d) == Bills[d.bill][d.inter].lines
SumsOf(d) == Bills[d.bill][d.inter].sums
VoucherOf(d) == SalesVoucher(SumsOf(d))

Posted(t, v) == [period |-> t, active |-> TRUE, amounts |-> v]

(* The voucher of a credit note is that of a sale, sides swapped.             *)
VoucherOfNote(d) == LET v == VoucherOf(d) IN [k \in DOMAIN v |-> - v[k]]

NotesOf(i) == {n \in Notes : note[n] # None /\ note[n].of = i}
Noted(i) == Total([n \in {n \in NotesOf(i) : note[n].issued} |-> SumsOf(note[n]).total])
Valid(d) == Something(VoucherOf(d))

Create(i, p, t, bill) ==
  LET d == Document(p, t, bill, p \in Away)
  IN /\ inv[i] = None /\ Valid(d)
     /\ inv' = [inv EXCEPT ![i] = d]
     /\ books' = [books EXCEPT ![i] = Posted(t, VoucherOf(d))]
     /\ UNCHANGED <<gstin, note>>

(* Broken variant: the voucher keeps the date it had. *)
Update_DateOfVoucherKept(i, p, t, bill) ==
  LET d == Document(p, t, bill, p \in Away)
  IN /\ Issued(inv[i]) /\ Noted(i) = 0 /\ Valid(d)
     /\ inv' = [inv EXCEPT ![i] = d]
     /\ books' = [books EXCEPT ![i].amounts = VoucherOf(d)]
     /\ UNCHANGED <<gstin, note>>

(* update restates the voucher with the date and amounts of the invoice.       *)
Update(i, p, t, bill) ==
  LET d == Document(p, t, bill, p \in Away)
  IN /\ Issued(inv[i]) /\ Noted(i) = 0 /\ Valid(d)
     /\ inv' = [inv EXCEPT ![i] = d]
     /\ books' = [books EXCEPT ![i] = [@ EXCEPT !.period = t, !.amounts = VoucherOf(d)]]
     /\ UNCHANGED <<gstin, note>>

Cancel(i) ==
  /\ Issued(inv[i]) /\ Noted(i) = 0
  /\ inv' = [inv EXCEPT ![i].issued = FALSE]
  /\ books' = [books EXCEPT ![i].active = FALSE]
  /\ UNCHANGED <<gstin, note>>

(* Broken variant: the notes stay behind. *)
Remove_NotesKept(i) ==
  /\ inv[i] # None
  /\ inv' = [inv EXCEPT ![i] = None]
  /\ books' = [books EXCEPT ![i] = None]
  /\ UNCHANGED <<gstin, note>>

(* remove deletes the invoice, its notes and the vouchers of them all.        *)
Remove(i) ==
  /\ inv[i] # None
  /\ inv' = [inv EXCEPT ![i] = None]
  /\ note' = [n \in Notes |-> IF n \in NotesOf(i) THEN None ELSE note[n]]
  /\ books' = [d \in Ids |-> IF d = i \/ d \in NotesOf(i) THEN None ELSE books[d]]
  /\ UNCHANGED gstin

(* A note is of the party of its invoice then, of any date, and capped by what
   the invoice has left. *)
CreateNote(n, i, t, bill) ==
  /\ note[n] = None /\ Issued(inv[i])
  /\ LET d == Document(inv[i].party, t, bill, inv[i].inter)
     IN /\ Valid(d) /\ SumsOf(d).total <= SumsOf(inv[i]).total - Noted(i)
        /\ note' = [note EXCEPT ![n] = [d EXCEPT !.of = i]]
        /\ books' = [books EXCEPT ![n] = Posted(t, VoucherOfNote(d))]
  /\ UNCHANGED <<gstin, inv>>

CancelNote(n) ==
  /\ Issued(note[n])
  /\ note' = [note EXCEPT ![n].issued = FALSE]
  /\ books' = [books EXCEPT ![n].active = FALSE]
  /\ UNCHANGED <<gstin, inv>>

(* updateParty gives a customer a GSTIN, or takes it away.                    *)
Register(p) ==
  /\ gstin' = IF p \in gstin THEN gstin \ {p} ELSE gstin \cup {p}
  /\ UNCHANGED <<inv, note, books>>

Next ==
  \/ \E i \in Invoices, p \in Parties, t \in Periods, bill \in Chosen :
       Create(i, p, t, bill) \/ Update(i, p, t, bill)
  \/ \E i \in Invoices : Cancel(i) \/ Remove(i)
  \/ \E n \in Notes, i \in Invoices, t \in Periods, bill \in Chosen : CreateNote(n, i, t, bill)
  \/ \E n \in Notes : CancelNote(n)
  \/ \E p \in Parties : Register(p)

Spec == Init /\ [][Next]_vars

-----------------------------------------------------------------------------
(* The returns.                                                             *)
Figures == {"taxable", "cgst", "sgst", "igst"}
IssuedIn(t) == {i \in Invoices : Issued(inv[i]) /\ inv[i].period = t}
NotesIn(t) == {n \in Notes : Issued(note[n]) /\ note[n].period = t}

(* Broken variant: the tax of credit notes is not taken off. *)
Outward_Gross(t, f) == Total([i \in IssuedIn(t) |-> SumsOf(inv[i])[f]])

(* gstr3b: outward supplies net of credit notes.                              *)
Outward(t, f) ==
  Total([i \in IssuedIn(t) |-> SumsOf(inv[i])[f]]) - Total([n \in NotesIn(t) |-> SumsOf(note[n])[f]])

InRate(lines, r, f) == Total([k \in {k \in DOMAIN lines : lines[k].gst = r} |-> lines[k][f]])

RatesOf(lines) == {lines[k].gst : k \in DOMAIN lines}

(* Large sales to unregistered customers of another state.                   *)
IsB2cl(i) == inv[i].party \notin gstin /\ inv[i].inter /\ SumsOf(inv[i]).total > Threshold

B2b(t) == {i \in IssuedIn(t) : inv[i].party \in gstin}
B2cl(t) == {i \in IssuedIn(t) : IsB2cl(i)}
Small(t) == {i \in IssuedIn(t) : inv[i].party \notin gstin /\ ~ IsB2cl(i)}
Cdnr(t) == {n \in NotesIn(t) : note[n].party \in gstin}

(* Broken variant: the notes of registered customers are netted as well. *)
SmallNotes_All(t) == NotesIn(t)

SmallNotes(t) == {n \in NotesIn(t) : note[n].party \notin gstin}

(* itms: the lines of a document by rate.                                     *)
Itms(d, f) == Total([r \in RatesOf(LinesOf(d)) |-> InRate(LinesOf(d), r, f)])

(* b2cs: one row for a place of supply, a rate and a kind of supply; the place of
   a note is the company's own state.  A row whose value is nothing is left out. *)
PlaceOf(p) == IF p \in Away THEN "away" ELSE "home"
KeysOf(d, place) ==
  {[place |-> place, rate |-> r, inter |-> d.inter] : r \in RatesOf(LinesOf(d))}
Keys(t) == UNION ({KeysOf(inv[i], PlaceOf(inv[i].party)) : i \in Small(t)}
                  \cup {KeysOf(note[n], "home") : n \in SmallNotes(t)})

Row(t, k, f) ==
  LET sold == {i \in Small(t) : PlaceOf(inv[i].party) = k.place /\ inv[i].inter = k.inter}
      returned == {n \in SmallNotes(t) : k.place = "home" /\ note[n].inter = k.inter}
  IN Total([i \in sold |-> InRate(LinesOf(inv[i]), k.rate, f)])
       - Total([n \in returned |-> InRate(LinesOf(note[n]), k.rate, f)])

B2cs(t) == {k \in Keys(t) : Row(t, k, "taxable") # 0}

(* build: what the sections of the file come to together.                    *)
Sections(t, f) ==
  Total([i \in B2b(t) \cup B2cl(t) |-> Itms(inv[i], f)])
  + Total([k \in B2cs(t) |-> Row(t, k, f)])
  - Total([n \in Cdnr(t) |-> Itms(note[n], f)])

(* Table 12: lines by HSN code and rate, invoices less credit notes; lines without
   a code are left out. *)
HsnKeysOf(lines) == {[hsn |-> lines[k].hsn, rate |-> lines[k].gst] : k \in DOMAIN lines}
HsnKeys(t) == UNION ({HsnKeysOf(LinesOf(inv[i])) : i \in IssuedIn(t)}
                     \cup {HsnKeysOf(LinesOf(note[n])) : n \in NotesIn(t)})
Coded(t) == {key \in HsnKeys(t) : key.hsn # None}
InHsn(lines, key, f) ==
  Total([k \in {k \in DOMAIN lines : lines[k].hsn = key.hsn /\ lines[k].gst = key.rate} |-> lines[k][f]])
HsnRow(t, key, f) ==
  Total([i \in IssuedIn(t) |-> InHsn(LinesOf(inv[i]), key, f)])
  - Total([n \in NotesIn(t) |-> InHsn(LinesOf(note[n]), key, f)])

(* gstr1, the report on the screen: invoices to the registered, the others by place
   of supply, invoices by HSN code, credit notes, and the totals of invoices. *)
ReportB2b(t, f) == Total([i \in B2b(t) |-> SumsOf(inv[i])[f]])
ReportB2c(t, place, f) ==
  LET sold == {i \in IssuedIn(t) : inv[i].party \notin gstin /\ PlaceOf(inv[i].party) = place}
  IN Total([i \in sold |-> SumsOf(inv[i])[f]])
CodedAs(lines, hsn, f) == Total([k \in {k \in DOMAIN lines : lines[k].hsn = hsn} |-> lines[k][f]])
ReportHsn(t, hsn, f) == Total([i \in IssuedIn(t) |-> CodedAs(LinesOf(inv[i]), hsn, f)])
ReportNotes(t, f) == Total([n \in NotesIn(t) |-> SumsOf(note[n])[f]])
ReportTotals(t, f) == Total([i \in IssuedIn(t) |-> SumsOf(inv[i])[f]])

-----------------------------------------------------------------------------
TypeOK ==
  /\ gstin \subseteq Parties
  /\ \A i \in Invoices : inv[i] = None \/ (inv[i].party \in Parties /\ inv[i].period \in Periods)
  /\ \A n \in Notes : note[n] = None \/ (inv[note[n].of] # None /\ note[n].period \in Periods)
  /\ \A d \in Ids : books[d] = None <=> (IF d \in Invoices THEN inv[d] = None ELSE note[d] = None)

Ledgers == [taxable |-> "sales", cgst |-> "cgst", sgst |-> "sgst", igst |-> "igst"]

(* What GSTR-3B declares for a month is what the sales and tax ledgers gained in
   it, through edits that move an invoice to another month, cancellations, and
   removals that take credit notes along. *)
ReturnTiesBooks ==
  \A t \in Periods, f \in Figures :
    Outward(t, f) =
      - Total([d \in {d \in Ids : books[d] # None /\ books[d].active /\ books[d].period = t} |->
                 books[d].amounts[Ledgers[f]]])

(* A line's tax is rounded by half a paisa, and its halves by a quarter more.  *)
LineCount(t) ==
  Total([i \in IssuedIn(t) |-> Len(LinesOf(inv[i]))]) + Total([n \in NotesIn(t) |-> Len(LinesOf(note[n]))])
OddPaise(t) == (3 * LineCount(t)) \div 4

(* Every sale and credit note of the month is in one section of GSTR-1, whichever
   customers have a GSTIN by then: the sections come to the taxable value of
   GSTR-3B, and to its tax but for the paise of rows that net to no value, which
   rounding accounts for. *)
SectionsTieReturn ==
  \A t \in Periods :
    /\ Sections(t, "taxable") = Outward(t, "taxable")
    /\ \A f \in Figures \ {"taxable"} :
         LET odd == Total([k \in Keys(t) \ B2cs(t) |-> Row(t, k, f)])
         IN Sections(t, f) + odd = Outward(t, f) /\ odd \in (- OddPaise(t))..OddPaise(t)

(* The tables of GSTR-1 that cut the month another way come to the same: by HSN
   code, but for lines that have none, and the report on the screen by customers, by
   places and by HSN code. *)
TablesTieReturn ==
  \A t \in Periods, f \in Figures :
    LET by(keys) == Total([key \in keys |-> HsnRow(t, key, f)])
        codes == {key.hsn : key \in HsnKeys(t)}
    IN /\ by(Coded(t)) = Outward(t, f) - by(HsnKeys(t) \ Coded(t))
       /\ ReportTotals(t, f) - ReportNotes(t, f) = Outward(t, f)
       /\ ReportTotals(t, f) =
            ReportB2b(t, f) + ReportB2c(t, "home", f) + ReportB2c(t, "away", f)
       /\ ReportTotals(t, f) = Total([hsn \in codes |-> ReportHsn(t, hsn, f)])
=============================================================================
