----------------------------- MODULE BooksProofs -----------------------------
(***************************************************************************)
(* That the sums agree, for any number of documents, ledgers and parties.  *)
(* First a customer's account: what each document stands for in the books  *)
(* is summed, and a step moves the ledger and one document's share alike.  *)
(* Then the components whose theorems are proved in modules of their own:  *)
(* each behaves here as it is specified there.  Last the GST returns: the  *)
(* vouchers of a month are its documents, and however the lines are cut    *)
(* into rows, the rows add up to them.                                     *)
(***************************************************************************)
EXTENDS Books, SumLemmas, TLAPS

InvoiceRow ==
  [kind : {"invoice"}, total : Amounts, charges : 0..1, paid : Nat, noted : Nat,
   status : {"ISSUED", "CANCELLED"}, booked : {TRUE}, invoice : {None}]
EstimateRow ==
  [kind : {"estimate"}, total : Amounts, charges : 0..1, paid : Nat, noted : {0},
   status : {"OPEN", "ACCEPTED", "DECLINED", "CANCELLED", "CONVERTED"}, booked : BOOLEAN,
   invoice : Docs \cup {None}]

Rows == InvoiceRow \cup EstimateRow \cup {Absent}

Typed ==
  /\ doc \in [Docs -> Rows]
  /\ onAccount \in Nat
  /\ ledger \in Int
  /\ link \in Types
  /\ tracked \in Types \cup {None}

(* Converted is an estimate that leads to an invoice, and that was not a bill
   itself. *)
Converted ==
  \A d \in Estimates :
    /\ doc[d].status = "CONVERTED" <=> doc[d].invoice # None
    /\ doc[d].invoice # None => ~ doc[d].booked /\ doc[doc[d].invoice].kind = "invoice"

(* What a row stands for in the ledger: its part of the books, less advances. *)
Billed(row) ==
  CASE row.kind = "invoice" /\ row.status = "ISSUED" -> row.total - row.paid - row.noted
    [] row.kind = "estimate" /\ row.booked /\ row.status # "CANCELLED" -> row.total
    [] OTHER -> 0
Share(row) == Billed(row) - (IF row.kind = "estimate" THEN row.paid ELSE 0)
Shares == [d \in Docs |-> Share(doc[d])]
Explained == ledger = Opening + SumFunctionOnSet(Shares, Docs) - onAccount

IInv == Typed /\ Converted /\ Explained

-----------------------------------------------------------------------------
(* The fields of a row, whichever kind it is of.                             *)
LEMMA RowFields ==
  ASSUME ConstantsOK, NEW row \in Rows
  PROVE  /\ row = Absent <=> row.kind = None
         /\ row.kind = "invoice" <=> row \in InvoiceRow
         /\ row.kind = "estimate" <=> row \in EstimateRow
         /\ row.kind \in {"invoice", "estimate", None}
         /\ row.kind # None => row.total \in Nat /\ row.paid \in Nat /\ row.noted \in Nat
<1>1. None \notin {"invoice", "estimate"} /\ MaxTotal \in Nat
  BY DEF ConstantsOK, Types
<1>2. CASE row \in InvoiceRow
  <2>1. row.kind = "invoice" /\ row.total \in Amounts /\ row.paid \in Nat /\ row.noted \in Nat
    BY <1>2 DEF InvoiceRow
  <2>2. row.total \in Nat
    BY <1>1, <2>1 DEF Amounts
  <2>3. row \notin EstimateRow
    BY <2>1 DEF EstimateRow
  <2>4. row # Absent
    BY <1>1, <2>1 DEF Absent
  <2>. QED  BY <1>1, <1>2, <2>1, <2>2, <2>3, <2>4
<1>3. CASE row \in EstimateRow
  <2>1. row.kind = "estimate" /\ row.total \in Amounts /\ row.paid \in Nat /\ row.noted \in Nat
    BY <1>3 DEF EstimateRow
  <2>2. row.total \in Nat
    BY <1>1, <2>1 DEF Amounts
  <2>3. row \notin InvoiceRow
    BY <2>1 DEF InvoiceRow
  <2>4. row # Absent
    BY <1>1, <2>1 DEF Absent
  <2>. QED  BY <1>1, <1>3, <2>1, <2>2, <2>3, <2>4
<1>4. CASE row = Absent
  BY <1>1, <1>4 DEF InvoiceRow, EstimateRow, Absent
<1>. QED  BY <1>2, <1>3, <1>4 DEF Rows

(* Every share is a number, and a document that is not there has none.       *)
LEMMA ShareInt ==
  ASSUME ConstantsOK, NEW row \in Rows
  PROVE  Billed(row) \in Int /\ Share(row) \in Int /\ Share(Absent) = 0
<1>1. /\ row.kind \in {"invoice", "estimate", None}
      /\ row.kind # None => row.total \in Nat /\ row.paid \in Nat /\ row.noted \in Nat
      /\ None \notin {"invoice", "estimate"}
  BY RowFields DEF ConstantsOK, Types
<1>2. Billed(row) \in Int
  BY <1>1 DEF Billed
<1>. QED  BY <1>1, <1>2 DEF Share, Billed, Absent

(* A new row.                                                                *)
LEMMA NewRow ==
  ASSUME ConstantsOK, NEW t \in Amounts, NEW c \in 0..1, NEW b \in BOOLEAN
  PROVE  /\ Document("invoice", t, c, TRUE) \in InvoiceRow
         /\ Document("estimate", t, c, b) \in EstimateRow
BY DEF Document, InvoiceRow, EstimateRow

(* The books and the advances together are the shares.                       *)
LEMMA SharesAddUp ==
  ASSUME ConstantsOK, Typed
  PROVE  /\ SumFunctionOnSet(Shares, Docs)
              = SumFunctionOnSet([d \in Docs |-> InBooks(d)], Docs) - Advances
         /\ SumFunctionOnSet(Shares, Docs) \in Int
<1>1. PICK f : f = [d \in Docs |-> InBooks(d)]
  OBVIOUS
<1>2. PICK g : g = [d \in Docs |-> IF d \in Estimates THEN doc[d].paid ELSE 0]
  OBVIOUS
<1>3. PICK p : p = [d \in Estimates |-> doc[d].paid]
  OBVIOUS
<1>4. IsFiniteSet(Docs) /\ Estimates \in SUBSET Docs
  BY DEF ConstantsOK, Estimates
<1>5. \A d \in Estimates : p[d] \in Int
  BY <1>3, <1>4, RowFields DEF Typed, Estimates, ConstantsOK, Types
<1>6. \A d \in Docs : g[d] = IF d \in Estimates THEN p[d] ELSE 0
  BY <1>2, <1>3
<1>7. SumFunctionOnSet(p, Estimates) = SumFunctionOnSet(g, Docs)
  BY <1>4, <1>5, <1>6, SumFiltered
<1>8. \A d \in Docs : f[d] \in Int /\ g[d] \in Int /\ Shares[d] = f[d] - g[d]
  BY <1>1, <1>2, <1>3, <1>5, <1>6, ShareInt DEF Shares, Share, Billed, InBooks, Estimates, Typed
<1>9. SumFunctionOnSet(Shares, Docs) = SumFunctionOnSet(f, Docs) - SumFunctionOnSet(g, Docs)
  BY <1>4, <1>8, SumMinus
<1>10. SumFunctionOnSet(Shares, Docs) \in Int
  BY <1>4, <1>8, SumInt
<1>. QED  BY <1>1, <1>3, <1>7, <1>9, <1>10 DEF Advances

(* A step that moves the ledger as it moves the share of one document.       *)
OthersKeep(d) == \A e \in Docs \ {d} : Share(doc'[e]) = Share(doc[e])

(* So do both sides of the equation.                                         *)
LEMMA OneShare ==
  ASSUME ConstantsOK, Typed, Explained, doc' \in [Docs -> Rows], NEW d \in Docs,
         OthersKeep(d), NEW row, row = doc'[d], onAccount' \in Int, ledger' \in Int,
         ledger' + onAccount' = ledger + onAccount + Share(row) - Share(doc[d])
  PROVE  Explained'
<1>1. PICK f : f = Shares
  OBVIOUS
<1>2. PICK g : g = Shares'
  OBVIOUS
<1>3. \A e \in Docs : f[e] = Share(doc[e]) /\ g[e] = Share(doc'[e]) /\ f[e] \in Int /\ g[e] \in Int
  BY <1>1, <1>2, ShareInt DEF Shares, Typed
<1>4. /\ IsFiniteSet(Docs) /\ \A e \in Docs : f[e] \in Int
      /\ g[d] \in Int /\ \A e \in Docs \ {d} : g[e] = f[e]
  BY <1>3 DEF ConstantsOK, OthersKeep
<1>5. SumFunctionOnSet(g, Docs) = SumFunctionOnSet(f, Docs) + g[d] - f[d]
  BY <1>4, SumChange
<1>6. SumFunctionOnSet(f, Docs) \in Int
  BY <1>1, SharesAddUp
<1>. QED  BY <1>1, <1>2, <1>3, <1>5, <1>6 DEF Explained, Typed, ConstantsOK

(* A step that writes one row, and does not make an invoice of what was one, or
   the other way round. *)
LEMMA OneRow ==
  ASSUME ConstantsOK, IInv, NEW d \in Docs, NEW row \in Rows, doc' = [doc EXCEPT ![d] = row],
         doc[d].kind = "invoice" => row.kind = "invoice",
         row.kind = "estimate" =>
           /\ row.status = "CONVERTED" <=> row.invoice # None
           /\ row.invoice # None => /\ doc[d].kind = "estimate"
                                   /\ row.invoice = doc[d].invoice /\ row.booked = doc[d].booked,
         onAccount' \in Nat, ledger' \in Int, link' \in Types, tracked' \in Types \cup {None},
         ledger' + onAccount' = ledger + onAccount + Share(row) - Share(doc[d])
  PROVE  IInv'
<1>. USE DEF IInv
<1>1. doc' \in [Docs -> Rows] /\ doc'[d] = row /\ \A e \in Docs \ {d} : doc'[e] = doc[e]
  BY DEF Typed
<1>2. Typed'
  BY <1>1 DEF Typed
<1>3. \A e \in Docs : doc[e].kind = "invoice" => doc'[e].kind = "invoice"
  BY <1>1
<1>4. \A e \in Estimates : doc[e] \in EstimateRow /\ e \in Docs /\ doc[e].invoice \in Docs \cup {None}
  BY RowFields DEF Typed, Estimates, EstimateRow
<1>5. Converted'
  <2>. SUFFICES ASSUME NEW e \in Estimates'
                PROVE  /\ doc'[e].status = "CONVERTED" <=> doc'[e].invoice # None
                       /\ doc'[e].invoice # None =>
                            ~ doc'[e].booked /\ doc'[doc'[e].invoice].kind = "invoice"
    BY DEF Converted
  <2>1. e \in Docs /\ doc'[e].kind = "estimate"
    BY DEF Estimates
  <2>2. CASE e = d
    BY <1>1, <1>3, <1>4, <2>1, <2>2 DEF Converted, Estimates
  <2>3. CASE e # d
    BY <1>1, <1>3, <1>4, <2>1, <2>3 DEF Converted, Estimates
  <2>. QED  BY <2>2, <2>3
<1>6. Explained'
  BY <1>1, OneShare DEF Typed, OthersKeep
<1>. QED  BY <1>2, <1>5, <1>6

(* An issued invoice, and its fields.                                        *)
LEMMA InvoiceFields ==
  ASSUME ConstantsOK, NEW row \in InvoiceRow
  PROVE  /\ row \in Rows /\ row.kind = "invoice"
         /\ row.total \in Nat /\ row.paid \in Nat /\ row.noted \in Nat
         /\ Share(row) = IF row.status = "ISSUED" THEN row.total - row.paid - row.noted ELSE 0
<1>1. row.kind = "invoice" /\ row.total \in Amounts /\ row.paid \in Nat /\ row.noted \in Nat
  BY DEF InvoiceRow
<1>2. row.total \in Nat
  BY <1>1 DEF Amounts, ConstantsOK
<1>. QED  BY <1>1, <1>2 DEF Share, Billed, Rows

(* An invoice in the table.                                                  *)
LEMMA Issued ==
  ASSUME ConstantsOK, IInv, NEW d \in Docs, NEW statuses, IsA(d, "invoice", statuses)
  PROVE  doc[d] \in InvoiceRow /\ doc[d].status \in statuses /\ Amounts \subseteq Nat
<1>1. doc[d] \in Rows
  BY DEF IInv, Typed
<1>. QED  BY <1>1, RowFields DEF IsA, Amounts, ConstantsOK

(* A step that writes the row of an invoice.                                 *)
LEMMA InvoiceWritten ==
  ASSUME ConstantsOK, IInv, NEW d \in Docs, NEW row \in InvoiceRow, doc' = [doc EXCEPT ![d] = row],
         doc[d] \in InvoiceRow \cup {Absent}, UNCHANGED <<onAccount, link, tracked>>,
         ledger' = ledger + Share(row) - Share(doc[d])
  PROVE  IInv'
<1>1. row \in Rows /\ doc[d] \in Rows /\ row.kind = "invoice"
  BY DEF Rows, InvoiceRow
<1>2. Share(row) \in Int /\ Share(doc[d]) \in Int
  BY <1>1, ShareInt
<1>3. onAccount \in Nat /\ ledger \in Int /\ link \in Types /\ tracked \in Types \cup {None}
  BY DEF IInv, Typed
<1>4. ledger' \in Int /\ ledger' + onAccount' = ledger + onAccount + Share(row) - Share(doc[d])
  BY <1>2, <1>3
<1>. QED  BY <1>1, <1>3, <1>4, OneRow

(* One lemma for each thing done to an invoice: a payment, ...               *)
LEMMA PayInvoiceStep ==
  ASSUME ConstantsOK, IInv, NEW d \in Docs, NEW a \in Amounts, PayInvoice(d, a)
  PROVE  IInv'
<1>1. doc[d] \in InvoiceRow /\ doc[d].status = "ISSUED" /\ Amounts \subseteq Nat /\ ledger \in Int
  BY Issued DEF PayInvoice, IInv, Typed
<1>2. PICK old : old = doc[d]
  OBVIOUS
<1>3. /\ old.total \in Nat /\ old.paid \in Nat /\ old.noted \in Nat /\ a \in Nat 
      /\ Share(old) = old.total - old.paid - old.noted
  BY <1>1, <1>2, InvoiceFields
<1>4. old.paid + a \in Nat
  BY <1>2, <1>3 DEF PayInvoice
<1>5. PICK row : row = [old EXCEPT !.paid = old.paid + a]
  OBVIOUS
<1>6. /\ row \in InvoiceRow
      /\ row.total = old.total /\ row.paid = old.paid + a /\ row.noted = old.noted /\ row.status = "ISSUED"
  BY <1>1, <1>2, <1>4, <1>5 DEF InvoiceRow
<1>7. doc' = [doc EXCEPT ![d] = row] /\ ledger' = ledger + (-a)
  BY <1>1, <1>2, <1>3, <1>5 DEF PayInvoice
<1>8. Share(row) - Share(old) = (-a) /\ Share(row) \in Int
  BY <1>3, <1>4, <1>6, InvoiceFields
<1>9. ledger' = ledger + Share(row) - Share(old)
  BY <1>1, <1>3, <1>7, <1>8
<1>. QED  BY <1>1, <1>2, <1>6, <1>7, <1>9, InvoiceWritten DEF PayInvoice

(* A credit note.                                                            *)
LEMMA CreditInvoiceStep ==
  ASSUME ConstantsOK, IInv, NEW d \in Docs, NEW a \in Amounts, CreditInvoice(d, a)
  PROVE  IInv'
<1>1. doc[d] \in InvoiceRow /\ doc[d].status = "ISSUED" /\ Amounts \subseteq Nat /\ ledger \in Int
  BY Issued DEF CreditInvoice, IInv, Typed
<1>2. PICK old : old = doc[d]
  OBVIOUS
<1>3. /\ old.total \in Nat /\ old.paid \in Nat /\ old.noted \in Nat /\ a \in Nat 
      /\ Share(old) = old.total - old.paid - old.noted
  BY <1>1, <1>2, InvoiceFields
<1>4. old.noted + a \in Nat
  BY <1>2, <1>3 DEF CreditInvoice
<1>5. PICK row : row = [old EXCEPT !.noted = old.noted + a]
  OBVIOUS
<1>6. /\ row \in InvoiceRow
      /\ row.total = old.total /\ row.paid = old.paid /\ row.noted = old.noted + a /\ row.status = "ISSUED"
  BY <1>1, <1>2, <1>4, <1>5 DEF InvoiceRow
<1>7. doc' = [doc EXCEPT ![d] = row] /\ ledger' = ledger + (-a)
  BY <1>1, <1>2, <1>3, <1>5 DEF CreditInvoice
<1>8. Share(row) - Share(old) = (-a) /\ Share(row) \in Int
  BY <1>3, <1>4, <1>6, InvoiceFields
<1>9. ledger' = ledger + Share(row) - Share(old)
  BY <1>1, <1>3, <1>7, <1>8
<1>. QED  BY <1>1, <1>2, <1>6, <1>7, <1>9, InvoiceWritten DEF CreditInvoice

(* A credit note is cancelled.                                               *)
LEMMA CancelNoteStep ==
  ASSUME ConstantsOK, IInv, NEW d \in Docs, NEW a \in Amounts, CancelNote(d, a)
  PROVE  IInv'
<1>1. doc[d] \in InvoiceRow /\ doc[d].status = "ISSUED" /\ Amounts \subseteq Nat /\ ledger \in Int
  BY Issued DEF CancelNote, IInv, Typed
<1>2. PICK old : old = doc[d]
  OBVIOUS
<1>3. /\ old.total \in Nat /\ old.paid \in Nat /\ old.noted \in Nat /\ a \in Nat 
      /\ Share(old) = old.total - old.paid - old.noted
  BY <1>1, <1>2, InvoiceFields
<1>4. old.noted - a \in Nat
  BY <1>2, <1>3 DEF CancelNote
<1>5. PICK row : row = [old EXCEPT !.noted = old.noted - a]
  OBVIOUS
<1>6. /\ row \in InvoiceRow
      /\ row.total = old.total /\ row.paid = old.paid /\ row.noted = old.noted - a /\ row.status = "ISSUED"
  BY <1>1, <1>2, <1>4, <1>5 DEF InvoiceRow
<1>7. doc' = [doc EXCEPT ![d] = row] /\ ledger' = ledger + a
  BY <1>1, <1>2, <1>3, <1>5 DEF CancelNote
<1>8. Share(row) - Share(old) = a /\ Share(row) \in Int
  BY <1>3, <1>4, <1>6, InvoiceFields
<1>9. ledger' = ledger + Share(row) - Share(old)
  BY <1>1, <1>3, <1>7, <1>8
<1>. QED  BY <1>1, <1>2, <1>6, <1>7, <1>9, InvoiceWritten DEF CancelNote

(* An edit of an invoice nothing is settled of.                              *)
LEMMA EditInvoiceStep ==
  ASSUME ConstantsOK, IInv, NEW d \in Docs, NEW a \in Amounts, EditInvoice(d, a)
  PROVE  IInv'
<1>1. doc[d] \in InvoiceRow /\ doc[d].status = "ISSUED" /\ Amounts \subseteq Nat /\ ledger \in Int
  BY Issued DEF EditInvoice, IInv, Typed
<1>2. PICK old : old = doc[d]
  OBVIOUS
<1>3. /\ old.total \in Nat /\ old.paid \in Nat /\ old.noted \in Nat /\ a \in Nat 
      /\ Share(old) = old.total - old.paid - old.noted
  BY <1>1, <1>2, InvoiceFields
<1>4. old.paid = 0 /\ old.noted = 0 /\ a \in Amounts /\ 0 \in 0..1
  BY <1>2, <1>3 DEF EditInvoice, Unsettled
<1>5. PICK row : row = [old EXCEPT !.total = a, !.charges = 0]
  OBVIOUS
<1>6. /\ row \in InvoiceRow
      /\ row.total = a /\ row.paid = old.paid /\ row.noted = old.noted /\ row.status = "ISSUED"
  BY <1>1, <1>2, <1>4, <1>5 DEF InvoiceRow
<1>7. doc' = [doc EXCEPT ![d] = row] /\ ledger' = ledger + (a - old.total)
  BY <1>1, <1>2, <1>3, <1>5 DEF EditInvoice
<1>8. Share(row) - Share(old) = (a - old.total) /\ Share(row) \in Int
  BY <1>3, <1>4, <1>6, InvoiceFields
<1>9. ledger' = ledger + Share(row) - Share(old)
  BY <1>1, <1>3, <1>7, <1>8
<1>. QED  BY <1>1, <1>2, <1>6, <1>7, <1>9, InvoiceWritten DEF EditInvoice

(* Its cancellation.                                                         *)
LEMMA CancelInvoiceStep ==
  ASSUME ConstantsOK, IInv, NEW d \in Docs, CancelInvoice(d)
  PROVE  IInv'
<1>1. doc[d] \in InvoiceRow /\ doc[d].status = "ISSUED" /\ Amounts \subseteq Nat /\ ledger \in Int
  BY Issued DEF CancelInvoice, IInv, Typed
<1>2. PICK old : old = doc[d]
  OBVIOUS
<1>3. /\ old.total \in Nat /\ old.paid \in Nat /\ old.noted \in Nat 
      /\ Share(old) = old.total - old.paid - old.noted
  BY <1>1, <1>2, InvoiceFields
<1>4. old.paid = 0 /\ old.noted = 0
  BY <1>2, <1>3 DEF CancelInvoice, Unsettled
<1>5. PICK row : row = [old EXCEPT !.status = "CANCELLED"]
  OBVIOUS
<1>6. /\ row \in InvoiceRow
      /\ row.total = old.total /\ row.paid = old.paid /\ row.noted = old.noted /\ row.status = "CANCELLED"
  BY <1>1, <1>2, <1>4, <1>5 DEF InvoiceRow
<1>7. doc' = [doc EXCEPT ![d] = row] /\ ledger' = ledger + (-old.total)
  BY <1>1, <1>2, <1>3, <1>5 DEF CancelInvoice
<1>8. Share(row) - Share(old) = (-old.total) /\ Share(row) \in Int
  BY <1>3, <1>4, <1>6, InvoiceFields
<1>9. ledger' = ledger + Share(row) - Share(old)
  BY <1>1, <1>3, <1>7, <1>8
<1>. QED  BY <1>1, <1>2, <1>6, <1>7, <1>9, InvoiceWritten DEF CancelInvoice

(* An estimate and its fields.                                                *)
LEMMA EstimateFields ==
  ASSUME ConstantsOK, NEW row \in EstimateRow
  PROVE  /\ row \in Rows /\ row.kind = "estimate"
         /\ row.total \in Nat /\ row.paid \in Nat /\ row.noted = 0 /\ row.booked \in BOOLEAN
         /\ row.invoice \in Docs \cup {None}
         /\ Share(row) = (IF row.booked /\ row.status # "CANCELLED" THEN row.total ELSE 0) - row.paid
<1>1. /\ row.kind = "estimate" /\ row.total \in Amounts /\ row.paid \in Nat /\ row.noted = 0
      /\ row.booked \in BOOLEAN /\ row.invoice \in Docs \cup {None}
  BY DEF EstimateRow
<1>2. row.total \in Nat
  BY <1>1 DEF Amounts, ConstantsOK
<1>3. Billed(row) = IF row.booked /\ row.status # "CANCELLED" THEN row.total ELSE 0
  BY <1>1 DEF Billed
<1>. QED  BY <1>1, <1>2, <1>3 DEF Share, Rows

(* An estimate in the table.                                                 *)
LEMMA Stored ==
  ASSUME ConstantsOK, IInv, NEW d \in Docs, doc[d].kind = "estimate"
  PROVE  /\ doc[d] \in EstimateRow /\ d \in Estimates
         /\ doc[d].status = "CONVERTED" <=> doc[d].invoice # None
         /\ doc[d].invoice # None => ~ doc[d].booked /\ doc[doc[d].invoice].kind = "invoice"
         /\ Amounts \subseteq Nat
<1>1. doc[d] \in Rows
  BY DEF IInv, Typed
<1>. QED  BY <1>1, RowFields DEF Amounts, ConstantsOK, IInv, Converted, Estimates

(* A step that writes the row of an estimate, and does not convert it.       *)
LEMMA EstimateWritten ==
  ASSUME ConstantsOK, IInv, NEW d \in Docs, NEW old, old = doc[d], old.kind = "estimate",
         NEW row \in EstimateRow, doc' = [doc EXCEPT ![d] = row],
         row.invoice = old.invoice, row.booked = old.booked,
         row.status = "CONVERTED" <=> old.status = "CONVERTED",
         onAccount' \in Nat, UNCHANGED <<link, tracked>>,
         ledger' + onAccount' = ledger + onAccount + Share(row) - Share(old), ledger' \in Int
  PROVE  IInv'
<1>1. row \in Rows /\ row.kind = "estimate" /\ old \in EstimateRow
  BY EstimateFields, Stored
<1>2. old.status = "CONVERTED" <=> old.invoice # None
  BY Stored
<1>3. link \in Types /\ tracked \in Types \cup {None}
  BY DEF IInv, Typed
<1>. QED  BY <1>1, <1>2, <1>3, OneRow

(* An edit of an estimate that was not booked: nothing is posted.            *)
LEMMA EditEstimateStep ==
  ASSUME ConstantsOK, IInv, NEW d \in Docs, NEW a \in Amounts, EditEstimate(d, a)
  PROVE  IInv'
<1>1. PICK old : old = doc[d]
  OBVIOUS
<1>2. /\ old \in EstimateRow /\ Amounts \subseteq Nat /\ ledger \in Int /\ onAccount \in Nat
  BY <1>1, Stored DEF EditEstimate, IsA, IInv, Typed
<1>3. /\ old.total \in Nat /\ old.paid \in Nat /\ old.kind = "estimate" /\ old.booked \in BOOLEAN
      /\ Share(old) = (IF old.booked /\ old.status # "CANCELLED" THEN old.total ELSE 0) - old.paid
  BY <1>2, EstimateFields
<1>4. a \in Amounts /\ 0 \in 0..1 /\ ~ old.booked
  BY <1>1, <1>2, <1>3 DEF EditEstimate, IsA
<1>5. PICK row : row = [old EXCEPT !.total = a, !.charges = 0]
  OBVIOUS
<1>6. row \in EstimateRow /\ row.invoice = old.invoice /\ row.booked = old.booked
  BY <1>2, <1>4, <1>5 DEF EstimateRow
<1>7. row.total = a /\ row.paid = old.paid /\ row.status = old.status
  BY <1>2, <1>4, <1>5 DEF EstimateRow
<1>8. doc' = [doc EXCEPT ![d] = row]
  BY <1>1, <1>5 DEF EditEstimate
<1>9. ledger' = ledger + (0)
  BY <1>1, <1>2, <1>3, <1>4 DEF EditEstimate
<1>10. Share(row) - Share(old) = 0 /\ Share(row) \in Int
  BY <1>2, <1>3, <1>4, <1>6, <1>7, EstimateFields
<1>11. ledger' + onAccount = ledger + onAccount + Share(row) - Share(old) /\ ledger' \in Int
  BY <1>2, <1>3, <1>4, <1>9, <1>10
<1>12. /\ UNCHANGED <<onAccount, link, tracked>>
       /\ row.status = "CONVERTED" <=> old.status = "CONVERTED"
  BY <1>4, <1>7 DEF EditEstimate
<1>13. onAccount' \in Nat /\ ledger' + onAccount' = ledger + onAccount + Share(row) - Share(old)
  BY <1>2, <1>11, <1>12
<1>. QED  BY <1>1, <1>3, <1>6, <1>8, <1>11, <1>12, <1>13, EstimateWritten

(* A change of status: what was booked stays booked.                         *)
LEMMA SetStatusStep ==
  ASSUME ConstantsOK, IInv, NEW d \in Docs, NEW s \in {"OPEN", "ACCEPTED", "DECLINED"}, SetStatus(d, s)
  PROVE  IInv'
<1>1. PICK old : old = doc[d]
  OBVIOUS
<1>2. /\ old \in EstimateRow /\ Amounts \subseteq Nat /\ ledger \in Int /\ onAccount \in Nat
  BY <1>1, Stored DEF SetStatus, IsA, IInv, Typed
<1>3. /\ old.total \in Nat /\ old.paid \in Nat /\ old.kind = "estimate" /\ old.booked \in BOOLEAN
      /\ Share(old) = (IF old.booked /\ old.status # "CANCELLED" THEN old.total ELSE 0) - old.paid
  BY <1>2, EstimateFields
<1>4. old.status \in {"OPEN", "ACCEPTED", "DECLINED"}
  BY <1>1, <1>2, <1>3 DEF SetStatus, IsA
<1>5. PICK row : row = [old EXCEPT !.status = s]
  OBVIOUS
<1>6. row \in EstimateRow /\ row.invoice = old.invoice /\ row.booked = old.booked
  BY <1>2, <1>4, <1>5 DEF EstimateRow
<1>7. row.total = old.total /\ row.paid = old.paid /\ row.status = s
  BY <1>2, <1>4, <1>5 DEF EstimateRow
<1>8. doc' = [doc EXCEPT ![d] = row]
  BY <1>1, <1>5 DEF SetStatus
<1>9. ledger' = ledger + (0)
  BY <1>1, <1>2, <1>3, <1>4 DEF SetStatus
<1>10. Share(row) - Share(old) = 0 /\ Share(row) \in Int
  BY <1>2, <1>3, <1>4, <1>6, <1>7, EstimateFields
<1>11. ledger' + onAccount = ledger + onAccount + Share(row) - Share(old) /\ ledger' \in Int
  BY <1>2, <1>3, <1>4, <1>9, <1>10
<1>12. /\ UNCHANGED <<onAccount, link, tracked>>
       /\ row.status = "CONVERTED" <=> old.status = "CONVERTED"
  BY <1>4, <1>7 DEF SetStatus
<1>13. onAccount' \in Nat /\ ledger' + onAccount' = ledger + onAccount + Share(row) - Share(old)
  BY <1>2, <1>11, <1>12
<1>. QED  BY <1>1, <1>3, <1>6, <1>8, <1>11, <1>12, <1>13, EstimateWritten

(* A cancellation takes a booked one out of the books.                       *)
LEMMA CancelEstimateStep ==
  ASSUME ConstantsOK, IInv, NEW d \in Docs, CancelEstimate(d)
  PROVE  IInv'
<1>1. PICK old : old = doc[d]
  OBVIOUS
<1>2. /\ old \in EstimateRow /\ Amounts \subseteq Nat /\ ledger \in Int /\ onAccount \in Nat
  BY <1>1, Stored DEF CancelEstimate, IsA, IInv, Typed
<1>3. /\ old.total \in Nat /\ old.paid \in Nat /\ old.kind = "estimate" /\ old.booked \in BOOLEAN
      /\ Share(old) = (IF old.booked /\ old.status # "CANCELLED" THEN old.total ELSE 0) - old.paid
  BY <1>2, EstimateFields
<1>4. old.status \in {"OPEN", "ACCEPTED", "DECLINED"}
  BY <1>1, <1>2, <1>3 DEF CancelEstimate, IsA
<1>5. PICK row : row = [old EXCEPT !.status = "CANCELLED"]
  OBVIOUS
<1>6. row \in EstimateRow /\ row.invoice = old.invoice /\ row.booked = old.booked
  BY <1>2, <1>4, <1>5 DEF EstimateRow
<1>7. row.total = old.total /\ row.paid = old.paid /\ row.status = "CANCELLED"
  BY <1>2, <1>4, <1>5 DEF EstimateRow
<1>8. doc' = [doc EXCEPT ![d] = row]
  BY <1>1, <1>5 DEF CancelEstimate
<1>9. ledger' = ledger + (IF old.booked THEN -old.total ELSE 0)
  BY <1>1, <1>2, <1>3, <1>4 DEF CancelEstimate
<1>10. Share(row) - Share(old) = (IF old.booked THEN -old.total ELSE 0) /\ Share(row) \in Int
  BY <1>2, <1>3, <1>4, <1>6, <1>7, EstimateFields
<1>11. ledger' + onAccount = ledger + onAccount + Share(row) - Share(old) /\ ledger' \in Int
  BY <1>2, <1>3, <1>4, <1>9, <1>10
<1>12. /\ UNCHANGED <<onAccount, link, tracked>>
       /\ row.status = "CONVERTED" <=> old.status = "CONVERTED"
  BY <1>4, <1>7 DEF CancelEstimate
<1>13. onAccount' \in Nat /\ ledger' + onAccount' = ledger + onAccount + Share(row) - Share(old)
  BY <1>2, <1>11, <1>12
<1>. QED  BY <1>1, <1>3, <1>6, <1>8, <1>11, <1>12, <1>13, EstimateWritten

(* Money received ...                                                        *)
LEMMA AdvanceStep ==
  ASSUME ConstantsOK, IInv, NEW d \in Docs, NEW a \in Amounts, Advance(d, a)
  PROVE  IInv'
<1>1. PICK old : old = doc[d]
  OBVIOUS
<1>2. /\ old \in EstimateRow /\ Amounts \subseteq Nat /\ ledger \in Int /\ onAccount \in Nat
  BY <1>1, Stored DEF Advance, IsA, IInv, Typed
<1>3. /\ old.total \in Nat /\ old.paid \in Nat /\ old.kind = "estimate" /\ old.booked \in BOOLEAN
      /\ Share(old) = (IF old.booked /\ old.status # "CANCELLED" THEN old.total ELSE 0) - old.paid
  BY <1>2, EstimateFields
<1>4. old.paid + a \in Nat /\ a \in Nat
  BY <1>1, <1>2, <1>3 DEF Advance, IsA
<1>5. PICK row : row = [old EXCEPT !.paid = old.paid + a]
  OBVIOUS
<1>6. row \in EstimateRow /\ row.invoice = old.invoice /\ row.booked = old.booked
  BY <1>2, <1>4, <1>5 DEF EstimateRow
<1>7. row.total = old.total /\ row.paid = old.paid + a /\ row.status = old.status
  BY <1>2, <1>4, <1>5 DEF EstimateRow
<1>8. doc' = [doc EXCEPT ![d] = row]
  BY <1>1, <1>5 DEF Advance
<1>9. ledger' = ledger + (-a)
  BY <1>1, <1>2, <1>3, <1>4 DEF Advance
<1>10. Share(row) - Share(old) = (-a) /\ Share(row) \in Int
  BY <1>2, <1>3, <1>4, <1>6, <1>7, EstimateFields
<1>11. ledger' + onAccount = ledger + onAccount + Share(row) - Share(old) /\ ledger' \in Int
  BY <1>2, <1>3, <1>4, <1>9, <1>10
<1>12. /\ UNCHANGED <<onAccount, link, tracked>>
       /\ row.status = "CONVERTED" <=> old.status = "CONVERTED"
  BY <1>4, <1>7 DEF Advance
<1>13. onAccount' \in Nat /\ ledger' + onAccount' = ledger + onAccount + Share(row) - Share(old)
  BY <1>2, <1>11, <1>12
<1>. QED  BY <1>1, <1>3, <1>6, <1>8, <1>11, <1>12, <1>13, EstimateWritten

(* ... and given back.                                                       *)
LEMMA DeleteAdvanceStep ==
  ASSUME ConstantsOK, IInv, NEW d \in Docs, NEW a \in Amounts, DeleteAdvance(d, a)
  PROVE  IInv'
<1>1. PICK old : old = doc[d]
  OBVIOUS
<1>2. /\ old \in EstimateRow /\ Amounts \subseteq Nat /\ ledger \in Int /\ onAccount \in Nat
  BY <1>1, Stored DEF DeleteAdvance, IsA, IInv, Typed
<1>3. /\ old.total \in Nat /\ old.paid \in Nat /\ old.kind = "estimate" /\ old.booked \in BOOLEAN
      /\ Share(old) = (IF old.booked /\ old.status # "CANCELLED" THEN old.total ELSE 0) - old.paid
  BY <1>2, EstimateFields
<1>4. old.paid - a \in Nat /\ a \in Nat
  BY <1>1, <1>2, <1>3 DEF DeleteAdvance, IsA
<1>5. PICK row : row = [old EXCEPT !.paid = old.paid - a]
  OBVIOUS
<1>6. row \in EstimateRow /\ row.invoice = old.invoice /\ row.booked = old.booked
  BY <1>2, <1>4, <1>5 DEF EstimateRow
<1>7. row.total = old.total /\ row.paid = old.paid - a /\ row.status = old.status
  BY <1>2, <1>4, <1>5 DEF EstimateRow
<1>8. doc' = [doc EXCEPT ![d] = row]
  BY <1>1, <1>5 DEF DeleteAdvance
<1>9. ledger' = ledger + (a)
  BY <1>1, <1>2, <1>3, <1>4 DEF DeleteAdvance
<1>10. Share(row) - Share(old) = a /\ Share(row) \in Int
  BY <1>2, <1>3, <1>4, <1>6, <1>7, EstimateFields
<1>11. ledger' + onAccount = ledger + onAccount + Share(row) - Share(old) /\ ledger' \in Int
  BY <1>2, <1>3, <1>4, <1>9, <1>10
<1>12. /\ UNCHANGED <<onAccount, link, tracked>>
       /\ row.status = "CONVERTED" <=> old.status = "CONVERTED"
  BY <1>4, <1>7 DEF DeleteAdvance
<1>13. onAccount' \in Nat /\ ledger' + onAccount' = ledger + onAccount + Share(row) - Share(old)
  BY <1>2, <1>11, <1>12
<1>. QED  BY <1>1, <1>3, <1>6, <1>8, <1>11, <1>12, <1>13, EstimateWritten

(* A document that is not there has no part in the sum.                      *)
LEMMA Absence ==
  ASSUME ConstantsOK
  PROVE  /\ Absent \in Rows /\ Absent.kind = None /\ None \notin {"invoice", "estimate"}
         /\ Share(Absent) = 0 /\ Amounts \subseteq Nat
BY DEF Rows, Absent, ConstantsOK, Types, Share, Billed, Amounts

(* A new invoice.                                                            *)
LEMMA CreateInvoiceStep ==
  ASSUME ConstantsOK, IInv, NEW d \in Docs, NEW t \in Amounts, NEW c \in 0..1, CreateInvoice(d, t, c)
  PROVE  IInv'
<1>1. PICK row : row = Document("invoice", t, c, TRUE)
  OBVIOUS
<1>2. /\ row \in InvoiceRow /\ row.total = t /\ row.paid = 0 /\ row.noted = 0
      /\ row.status = "ISSUED" /\ t \in Nat /\ ledger \in Int
  BY <1>1, NewRow, Absence DEF Document, IInv, Typed
<1>3. Share(row) = t
  BY <1>2, InvoiceFields
<1>4. /\ doc[d] = Absent /\ doc' = [doc EXCEPT ![d] = row]
      /\ ledger' = ledger + t /\ UNCHANGED <<onAccount, link, tracked>>
  BY <1>1 DEF CreateInvoice
<1>5. ledger' = ledger + Share(row) - Share(doc[d])
  BY <1>2, <1>3, <1>4, Absence
<1>. QED  BY <1>2, <1>4, <1>5, InvoiceWritten

(* A new estimate, a bill if the company's link says so.                     *)
LEMMA CreateEstimateStep ==
  ASSUME ConstantsOK, IInv, NEW d \in Docs, NEW t \in Amounts, NEW c \in 0..1, CreateEstimate(d, t, c)
  PROVE  IInv'
<1>1. PICK b \in BOOLEAN : b = (link = "estimate")
  OBVIOUS
<1>2. PICK row : row = Document("estimate", t, c, b)
  OBVIOUS
<1>3. /\ row \in EstimateRow /\ row.total = t /\ row.paid = 0 /\ row.booked = b
      /\ row.status = "OPEN" /\ row.invoice = None /\ t \in Nat
  BY <1>2, NewRow, Absence DEF Document
<1>4. /\ Share(row) = IF b THEN t ELSE 0
      /\ row \in Rows /\ row.kind = "estimate"
  BY <1>3, EstimateFields
<1>5. /\ ledger \in Int /\ onAccount \in Nat /\ link \in Types /\ tracked \in Types \cup {None}
      /\ UNCHANGED <<onAccount, link, tracked>> /\ doc[d] = Absent
      /\ doc' = [doc EXCEPT ![d] = row] /\ ledger' = ledger + (IF b THEN t ELSE 0)
  <2>1. /\ ledger \in Int /\ onAccount \in Nat /\ link \in Types /\ tracked \in Types \cup {None}
    BY DEF IInv, Typed
  <2>2. UNCHANGED <<onAccount, link, tracked>> /\ doc[d] = Absent
    BY DEF CreateEstimate
  <2>3. doc' = [doc EXCEPT ![d] = Document("estimate", t, c, b)]
    BY <1>1, Zenon DEF CreateEstimate
  <2>4. ledger' = IF b THEN ledger + t ELSE ledger
    BY <1>1, Zenon DEF CreateEstimate
  <2>. QED  BY <1>2, <1>3, <2>1, <2>2, <2>3, <2>4
<1>6. ledger' \in Int /\ ledger' + onAccount' = ledger + onAccount + Share(row) - Share(doc[d])
  BY <1>3, <1>4, <1>5, Absence
<1>. QED  BY <1>3, <1>4, <1>5, <1>6, Absence, OneRow

(* An estimate goes; its advances stay, as receipts on account.              *)
LEMMA RemoveEstimateStep ==
  ASSUME ConstantsOK, IInv, NEW d \in Docs, RemoveEstimate(d)
  PROVE  IInv'
<1>1. PICK old : old = doc[d]
  OBVIOUS
<1>2. old \in EstimateRow /\ old.kind = "estimate"
  BY <1>1, Stored DEF RemoveEstimate
<1>3. PICK x \in Nat : x = IF old.booked /\ old.status # "CANCELLED" THEN old.total ELSE 0
  BY <1>2, EstimateFields
<1>4. old.paid \in Nat /\ Share(old) = x - old.paid
  BY <1>2, <1>3, EstimateFields
<1>5. InBooks(d) = x
  BY <1>1, <1>2, <1>3 DEF InBooks
<1>6. /\ ledger \in Int /\ onAccount \in Nat /\ link \in Types /\ tracked \in Types \cup {None}
      /\ UNCHANGED <<link, tracked>> /\ doc' = [doc EXCEPT ![d] = Absent]
      /\ onAccount' = onAccount + old.paid /\ ledger' = ledger - x
  BY <1>1, <1>5 DEF IInv, Typed, RemoveEstimate
<1>7. /\ ledger' \in Int /\ onAccount' \in Nat
      /\ ledger' + onAccount' = ledger + onAccount + Share(Absent) - Share(old)
  BY <1>3, <1>4, <1>6, Absence
<1>. QED  BY <1>1, <1>2, <1>6, <1>7, Absence, OneRow

(* The estimate that an invoice came from is none of the books, and keeps its
   share when the invoice goes. *)
LEMMA RemoveInvoiceStep ==
  ASSUME ConstantsOK, IInv, NEW d \in Docs, RemoveInvoice(d)
  PROVE  IInv'
<1>. DEFINE Back(e) == [doc[e] EXCEPT !.invoice = None, !.status = "ACCEPTED"]
            Freed(e) == doc[e].kind = "estimate" /\ doc[e].invoice = d
<1>1. PICK old : old = doc[d]
  OBVIOUS
<1>2. /\ old \in InvoiceRow /\ old.kind = "invoice" /\ old.status \in {"ISSUED", "CANCELLED"}
  BY <1>1, Issued DEF RemoveInvoice, IsA
<1>3. InBooks(d) = Share(old) /\ Share(old) \in Int
  BY <1>1, <1>2, InvoiceFields, ShareInt DEF InBooks, Share, Billed
<1>4. /\ doc' \in [Docs -> {doc'[e] : e \in Docs}] /\ doc'[d] = Absent
      /\ \A e \in Docs \ {d} : doc'[e] = IF Freed(e) THEN Back(e) ELSE doc[e]
  BY DEF RemoveInvoice
<1>5. \A e \in Docs : Freed(e) =>
        /\ Back(e) \in EstimateRow /\ Back(e).status = "ACCEPTED" /\ Back(e).invoice = None
        /\ Share(Back(e)) = Share(doc[e])
  <2>. SUFFICES ASSUME NEW e \in Docs, Freed(e)
                PROVE  /\ Back(e) \in EstimateRow /\ Back(e).status = "ACCEPTED" /\ Back(e).invoice = None
                       /\ Share(Back(e)) = Share(doc[e])
    OBVIOUS
  <2>1. PICK r : r = doc[e]
    OBVIOUS
  <2>2. r \in EstimateRow /\ ~ r.booked
    BY <2>1, Stored DEF ConstantsOK
  <2>3. PICK b : b = [r EXCEPT !.invoice = None, !.status = "ACCEPTED"]
    OBVIOUS
  <2>4. b \in EstimateRow /\ b.status = "ACCEPTED" /\ b.invoice = None /\ b.paid = r.paid /\ b.booked = r.booked
    BY <2>2, <2>3 DEF EstimateRow
  <2>5. Share(b) = Share(r)
    BY <2>2, <2>4, EstimateFields
  <2>. QED  BY <2>1, <2>3, <2>4, <2>5
<1>. HIDE DEF Back
<1>6. \A e \in Docs : doc[e] \in Rows
  BY DEF IInv, Typed
<1>7. \A e \in Docs : doc'[e] \in Rows
  BY <1>4, <1>5, <1>6, Absence, EstimateFields
<1>8. doc' \in [Docs -> Rows]
  BY <1>4, <1>7
<1>9. OthersKeep(d)
  BY <1>4, <1>5 DEF OthersKeep
<1>10. /\ ledger \in Int /\ onAccount \in Nat /\ link \in Types /\ tracked \in Types \cup {None}
       /\ UNCHANGED <<onAccount, link, tracked>> /\ ledger' = ledger - Share(old)
  BY <1>3 DEF IInv, Typed, RemoveInvoice
<1>11. /\ ledger' \in Int /\ onAccount' \in Int
       /\ ledger' + onAccount' = ledger + onAccount + Share(Absent) - Share(doc[d])
  BY <1>1, <1>3, <1>10, Absence
<1>12. Typed'
  BY <1>8, <1>10, <1>11 DEF Typed
<1>13. Explained'
  BY <1>4, <1>8, <1>9, <1>11, OneShare DEF IInv
<1>14. Converted'
  <2>. SUFFICES ASSUME NEW e \in Docs, doc'[e].kind = "estimate"
                PROVE  /\ doc'[e].status = "CONVERTED" <=> doc'[e].invoice # None
                       /\ doc'[e].invoice # None =>
                            ~ doc'[e].booked /\ doc'[doc'[e].invoice].kind = "invoice"
    BY DEF Converted, Estimates
  <2>1. e # d
    BY <1>4, Absence
  <2>2. CASE Freed(e)
    BY <1>4, <1>5, <2>1, <2>2
  <2>3. CASE ~ Freed(e)
    <3>1. doc'[e] = doc[e] /\ doc[e].kind = "estimate" /\ doc[e].invoice # d
      BY <1>4, <2>1, <2>3
    <3>2. doc[e].invoice \in Docs \cup {None}
      BY <3>1, Stored, EstimateFields
    <3>3. CASE doc[e].invoice = None
      BY <3>1, <3>3, Stored
    <3>4. CASE doc[e].invoice # None
      <4>1. PICK i \in Docs \ {d} : i = doc[e].invoice
        BY <3>1, <3>2, <3>4
      <4>2. doc[i].kind = "invoice"
        BY <3>1, <3>4, <4>1, Stored
      <4>3. doc'[i] = doc[i]
        BY <1>4, <4>1, <4>2
      <4>. QED  BY <3>1, <3>4, <4>1, <4>2, <4>3, Stored
    <3>. QED  BY <3>3, <3>4
  <2>. QED  BY <2>2, <2>3
<1>. QED  BY <1>12, <1>13, <1>14 DEF IInv

(* A conversion books the invoice, and the estimate was none of the books.    *)
LEMMA ConvertStep ==
  ASSUME ConstantsOK, IInv, NEW d \in Docs, NEW i \in Docs, Convert(d, i)
  PROVE  IInv'
<1>1. PICK old : old = doc[d]
  OBVIOUS
<1>2. /\ old \in EstimateRow /\ old.kind = "estimate" /\ ~ old.booked /\ old.invoice = None
      /\ old.total > old.charges /\ doc[i] = Absent /\ i # d
  BY <1>1, Stored, Absence DEF Convert, IsA
<1>3. PICK t : t = old.total - old.charges
  OBVIOUS
<1>4. t \in Amounts /\ t \in Nat
  <2>1. old.total \in Amounts /\ old.charges \in 0..1
    BY <1>2 DEF EstimateRow
  <2>. QED  BY <1>2, <1>3, <2>1 DEF Amounts, ConstantsOK
<1>5. PICK new : new = Document("invoice", t, 0, TRUE)
  OBVIOUS
<1>6. /\ new \in InvoiceRow /\ new.kind = "invoice" /\ new.total = t /\ new.paid = 0 /\ new.noted = 0
      /\ new.status = "ISSUED"
  <2>1. 0 \in 0..1
    OBVIOUS
  <2>. QED  BY <1>4, <1>5, <2>1, NewRow DEF Document
<1>7. Share(new) = t
  BY <1>4, <1>6, InvoiceFields
<1>8. PICK row : row = [old EXCEPT !.status = "CONVERTED", !.invoice = i]
  OBVIOUS
<1>9. /\ row \in EstimateRow /\ row.kind = "estimate" /\ row.status = "CONVERTED" /\ row.invoice = i
      /\ ~ row.booked /\ row.paid = old.paid
  BY <1>2, <1>8 DEF EstimateRow
<1>10. Share(row) = Share(old)
  BY <1>2, <1>9, EstimateFields
<1>11. doc \in [Docs -> Rows] /\ ledger \in Int /\ onAccount \in Nat
  BY DEF IInv, Typed
<1>12. doc' = [doc EXCEPT ![i] = new, ![d] = row]
  BY <1>1, <1>2, <1>3, <1>5, <1>8, <1>11 DEF Convert
<1>13. /\ doc' \in [Docs -> Rows] /\ doc'[i] = new /\ doc'[d] = row
       /\ \A e \in Docs \ {d, i} : doc'[e] = doc[e]
  BY <1>2, <1>6, <1>9, <1>11, <1>12 DEF Rows
<1>14. OthersKeep(i)
  BY <1>1, <1>10, <1>13 DEF OthersKeep
<1>15. UNCHANGED <<onAccount, link, tracked>> /\ ledger' = ledger + t
  BY <1>1, <1>3 DEF Convert
<1>16. /\ ledger' \in Int /\ onAccount' \in Int
       /\ ledger' + onAccount' = ledger + onAccount + Share(new) - Share(doc[i])
  BY <1>2, <1>4, <1>7, <1>11, <1>15, Absence
<1>17. Typed'
  BY <1>13, <1>15, <1>16 DEF IInv, Typed
<1>18. Explained'
  BY <1>13, <1>14, <1>16, OneShare DEF IInv
<1>19. Converted'
  <2>. SUFFICES ASSUME NEW e \in Docs, doc'[e].kind = "estimate"
                PROVE  /\ doc'[e].status = "CONVERTED" <=> doc'[e].invoice # None
                       /\ doc'[e].invoice # None =>
                            ~ doc'[e].booked /\ doc'[doc'[e].invoice].kind = "invoice"
    BY DEF Converted, Estimates
  <2>1. CASE e = d
    BY <1>6, <1>9, <1>13, <2>1 DEF ConstantsOK
  <2>2. CASE e # d
    <3>1. e # i /\ doc'[e] = doc[e] /\ doc[e].kind = "estimate"
      BY <1>6, <1>13, <2>2
    <3>2. doc[e].invoice \in Docs \cup {None}
      BY <3>1, Stored, EstimateFields
    <3>3. CASE doc[e].invoice # None
      <4>1. PICK j \in Docs : j = doc[e].invoice
        BY <3>2, <3>3
      <4>2. doc[j].kind = "invoice"
        BY <3>1, <3>3, <4>1, Stored
      <4>3. doc'[j] = doc[j]
        BY <1>1, <1>2, <1>13, <4>2, Absence
      <4>. QED  BY <3>1, <3>3, <4>1, <4>2, <4>3, Stored
    <3>. QED  BY <3>1, <3>3, Stored
  <2>. QED  BY <2>1, <2>2
<1>. QED  BY <1>17, <1>18, <1>19 DEF IInv

(* Steps that touch no document.                                             *)
LEMMA DocumentsStay ==
  ASSUME ConstantsOK, IInv, UNCHANGED doc, ledger' + onAccount' = ledger + onAccount,
         ledger' \in Int, onAccount' \in Nat, link' \in Types, tracked' \in Types \cup {None}
  PROVE  IInv'
<1>1. Typed' /\ Converted'
  BY DEF IInv, Typed, Converted, Estimates
<1>2. PICK s \in Int : s = SumFunctionOnSet(Shares, Docs)
  BY SharesAddUp DEF IInv
<1>3. Shares' = Shares
  BY DEF Shares
<1>4. ledger \in Int /\ onAccount \in Int /\ Opening \in Int /\ ledger = Opening + s - onAccount
  BY <1>2 DEF IInv, Typed, Explained, ConstantsOK
<1>5. ledger' = Opening + s - onAccount'
  <2>1. PICK k \in Int, l \in Int, m \in Int, n \in Int :
             k = ledger /\ l = ledger' /\ m = onAccount /\ n = onAccount'
    BY <1>4
  <2>2. l + n = k + m
    BY <2>1
  <2>3. k = Opening + s - m /\ Opening \in Int
    BY <1>4, <2>1
  <2>4. l = Opening + s - n
    BY <2>2, <2>3
  <2>. QED  BY <2>1, <2>4
<1>6. Explained'
  BY <1>2, <1>3, <1>5 DEF Explained
<1>. QED  BY <1>1, <1>6 DEF IInv

(* Every step keeps the invariant.                                           *)
LEMMA NextIInv == ConstantsOK /\ IInv /\ [Next]_vars => IInv'
<1>. SUFFICES ASSUME ConstantsOK, IInv, [Next]_vars  PROVE IInv'
  OBVIOUS
<1>1. CASE UNCHANGED vars
  BY <1>1, DocumentsStay DEF vars, IInv, Typed
<1>2. ASSUME NEW a \in Amounts, PayOnAccount(a) \/ DeleteOnAccount(a)  PROVE IInv'
  <2>1. a \in Nat /\ ledger \in Int /\ onAccount \in Nat /\ link \in Types /\ tracked \in Types \cup {None}
    BY Absence DEF IInv, Typed
  <2>. QED  BY <1>2, <2>1, DocumentsStay DEF PayOnAccount, DeleteOnAccount
<1>3. ASSUME NEW l \in Types, NEW t \in Types \cup {None}, Retrack(l, t)  PROVE IInv'
  BY <1>3, DocumentsStay DEF Retrack, IInv, Typed
<1>4. ASSUME NEW d \in Docs, NEW t \in Amounts, NEW c \in 0..1, CreateInvoice(d, t, c) \/ CreateEstimate(d, t, c)
      PROVE  IInv'
  BY <1>4, CreateInvoiceStep, CreateEstimateStep
<1>5. ASSUME NEW d \in Docs, NEW a \in Amounts,
             \/ PayInvoice(d, a) \/ CreditInvoice(d, a) \/ CancelNote(d, a) \/ EditInvoice(d, a)
      PROVE  IInv'
  BY <1>5, PayInvoiceStep, CreditInvoiceStep, CancelNoteStep, EditInvoiceStep
<1>6. ASSUME NEW d \in Docs, NEW a \in Amounts, EditEstimate(d, a) \/ Advance(d, a) \/ DeleteAdvance(d, a)
      PROVE  IInv'
  BY <1>6, EditEstimateStep, AdvanceStep, DeleteAdvanceStep
<1>7. ASSUME NEW d \in Docs, NEW s \in {"OPEN", "ACCEPTED", "DECLINED"}, SetStatus(d, s)  PROVE IInv'
  BY <1>7, SetStatusStep
<1>8. ASSUME NEW d \in Docs, NEW i \in Docs, Convert(d, i)  PROVE IInv'
  BY <1>8, ConvertStep
<1>9. ASSUME NEW d \in Docs, CancelInvoice(d) \/ RemoveInvoice(d) \/ CancelEstimate(d) \/ RemoveEstimate(d)
      PROVE  IInv'
  BY <1>9, CancelInvoiceStep, RemoveInvoiceStep, CancelEstimateStep, RemoveEstimateStep
<1>. QED  BY <1>1, <1>2, <1>3, <1>4, <1>5, <1>6, <1>7, <1>8, <1>9 DEF Next

(* Nothing is there, and the ledger is at its opening.                       *)
LEMMA InitIInv == ConstantsOK /\ Init => IInv
<1>. SUFFICES ASSUME ConstantsOK, Init  PROVE IInv
  OBVIOUS
<1>1. Typed /\ Converted
  BY Absence DEF Init, Typed, Converted, Estimates, Types, ConstantsOK
<1>2. \A d \in Docs : Shares[d] = 0
  BY Absence DEF Init, Shares
<1>3. SumFunctionOnSet(Shares, Docs) = 0
  BY <1>2, SumZero DEF ConstantsOK
<1>4. Explained
  BY <1>3 DEF Init, Explained, ConstantsOK
<1>. QED  BY <1>1, <1>4 DEF IInv

(* The invariant holds of every reachable state.                             *)
THEOREM SpecIInv == ASSUME ConstantsOK PROVE Spec => []IInv
BY InitIInv, NextIInv, PTL DEF Spec

-----------------------------------------------------------------------------
(* Rows are rows of their kind, and what an estimate was converted into is
   there. *)
THEOREM TypeCorrect == ASSUME ConstantsOK PROVE Spec => []TypeOK
<1>1. IInv => TypeOK
  <2>. SUFFICES ASSUME IInv  PROVE TypeOK
    OBVIOUS
  <2>1. ASSUME NEW d \in Docs, doc[d] \in InvoiceRow
        PROVE  /\ doc[d].kind \in Types /\ doc[d].total \in Amounts /\ doc[d].charges \in 0..1
               /\ doc[d].paid \in Nat /\ doc[d].noted \in Nat /\ doc[d].booked \in BOOLEAN
               /\ doc[d].kind = "invoice" /\ doc[d].status \in {"ISSUED", "CANCELLED"}
               /\ doc[d].invoice = None
    BY <2>1 DEF InvoiceRow, Types
  <2>2. ASSUME NEW d \in Docs, doc[d] \in EstimateRow
        PROVE  /\ doc[d].kind \in Types /\ doc[d].total \in Amounts /\ doc[d].charges \in 0..1
               /\ doc[d].paid \in Nat /\ doc[d].noted \in Nat /\ doc[d].booked \in BOOLEAN
               /\ doc[d].kind = "estimate"
               /\ doc[d].status \in {"OPEN", "ACCEPTED", "DECLINED", "CANCELLED", "CONVERTED"}
               /\ doc[d].invoice \in Docs \cup {None}
    BY <2>2 DEF EstimateRow, Types
  <2>3. ASSUME NEW d \in Docs, doc[d] \in EstimateRow, doc[d].invoice # None
        PROVE  IsA(doc[d].invoice, "invoice", {"ISSUED", "CANCELLED"})
    <3>1. PICK i \in Docs : i = doc[d].invoice /\ doc[i].kind = "invoice"
      BY <2>2, <2>3, Stored
    <3>2. doc[i] \in InvoiceRow
      BY <3>1, Issued DEF IsA
    <3>. QED  BY <2>1, <3>1, <3>2 DEF IsA
  <2>4. \A d \in Docs : doc[d] \in InvoiceRow \/ doc[d] \in EstimateRow \/ doc[d] = Absent
    BY DEF IInv, Typed, Rows
  <2>. QED  BY <2>1, <2>2, <2>3, <2>4 DEF IInv, Typed, TypeOK
<1>. QED  BY <1>1, SpecIInv, PTL

(* Through any course of documents, receipts, conversions, removals and switches
   the ledger of a customer is opening, issued invoices less what was paid and
   returned, and booked estimates, less advances and receipts on account. *)
THEOREM LedgerStaysExplained == ASSUME ConstantsOK PROVE Spec => []LedgerExplained
<1>1. IInv => LedgerExplained
  <2>. SUFFICES ASSUME IInv  PROVE LedgerExplained
    OBVIOUS
  <2>1. PICK b : b = SumFunctionOnSet([d \in Docs |-> InBooks(d)], Docs)
    OBVIOUS
  <2>2. PICK f : f = [d \in Docs |-> InBooks(d)]
    OBVIOUS
  <2>3. \A d \in Docs : f[d] \in Int
    <3>1. \A d \in Docs : doc[d] \in Rows /\ f[d] = Billed(doc[d])
      BY <2>2 DEF IInv, Typed, InBooks, Billed
    <3>. QED  BY <3>1, ShareInt
  <2>4. b \in Int
    BY <2>1, <2>2, <2>3, SumInt DEF ConstantsOK
  <2>5. PICK p : p = [d \in Estimates |-> doc[d].paid]
    OBVIOUS
  <2>6. IsFiniteSet(Estimates) /\ \A d \in Estimates : p[d] \in Int
    <3>1. \A d \in Estimates : d \in Docs /\ doc[d].kind = "estimate"
      BY DEF Estimates
    <3>2. \A d \in Estimates : doc[d].paid \in Int
      BY <3>1, Stored, EstimateFields
    <3>3. IsFiniteSet(Estimates)
      BY FS_Subset DEF ConstantsOK, Estimates
    <3>. QED  BY <2>5, <3>2, <3>3
  <2>7. Advances \in Int
    BY <2>5, <2>6, SumInt DEF Advances
  <2>8. SumFunctionOnSet(Shares, Docs) = b - Advances
    BY <2>1, SharesAddUp DEF IInv
  <2>9. ledger = Opening + (b - Advances) - onAccount /\ onAccount \in Int /\ Opening \in Int
    BY <2>8 DEF IInv, Explained, Typed, ConstantsOK
  <2>10. ledger = Opening + b - Advances - onAccount
    BY <2>4, <2>7, <2>9
  <2>. QED  BY <2>1, <2>10 DEF LedgerExplained
<1>. QED  BY <1>1, SpecIInv, PTL

-----------------------------------------------------------------------------
(* The documents that count as an obligation.                                *)
LEMMA LiveFacts ==
  ASSUME ConstantsOK, IInv
  PROVE  /\ DocType \in Types /\ IsFiniteSet(Live(DocType)) /\ Live(DocType) \subseteq Docs
         /\ \A d \in Live(DocType) :
              /\ doc[d].kind = DocType /\ doc[d] \in InvoiceRow \cup EstimateRow
              /\ doc[d].status \in {"ISSUED", "OPEN", "ACCEPTED"}
              /\ doc[d].total \in Nat /\ doc[d].paid \in Nat /\ doc[d].noted \in Nat
              /\ DocType = "estimate" => doc[d].noted = 0
              /\ Due(d) \in Int /\ Due(d) <= doc[d].total
<1>1. DocType \in Types
  BY DEF DocType, IInv, Typed
<1>2. Live(DocType) \subseteq Docs
  BY DEF Live
<1>3. IsFiniteSet(Live(DocType))
  BY <1>2, FS_Subset DEF ConstantsOK
<1>4. \A d \in Live(DocType) : /\ doc[d].kind = DocType /\ d \in Docs
                               /\ doc[d].status \in {"ISSUED", "OPEN", "ACCEPTED"}
  BY <1>1 DEF Live, IsA, Types
<1>5. ASSUME NEW d \in Live(DocType)
      PROVE  /\ doc[d] \in InvoiceRow \cup EstimateRow
             /\ doc[d].total \in Nat /\ doc[d].paid \in Nat /\ doc[d].noted \in Nat
             /\ DocType = "estimate" => doc[d].noted = 0
  <2>1. doc[d] \in Rows
    BY <1>4 DEF IInv, Typed
  <2>2. CASE doc[d].kind = "invoice"
    BY <1>4, <2>1, <2>2, RowFields, InvoiceFields
  <2>3. CASE doc[d].kind = "estimate"
    BY <1>4, <2>1, <2>3, RowFields, EstimateFields
  <2>. QED  BY <1>1, <1>4, <2>2, <2>3 DEF Types
<1>6. \A d \in Live(DocType) : Due(d) \in Int /\ Due(d) <= doc[d].total
  BY <1>5 DEF Due
<1>. QED  BY <1>1, <1>2, <1>3, <1>4, <1>5, <1>6

(* The list of parties adds up what is due of each document, or nothing.     *)
LEMMA ListedSum ==
  ASSUME ConstantsOK, IInv, NEW c, c = [d \in Live(DocType) |-> Clamped(Due(d))]
  PROVE  /\ Listed = SumFunctionOnSet(c, Live(DocType))
         /\ \A d \in Live(DocType) : c[d] \in Nat /\ c[d] >= Due(d) /\ c[d] <= doc[d].total
<1>1. \A d \in Live(DocType) : c[d] \in Nat /\ c[d] >= Due(d) /\ c[d] <= doc[d].total
  BY LiveFacts DEF Clamped
<1>2. CASE DocType = "invoice"
  BY <1>1, <1>2 DEF Listed, SumInvoices
<1>3. CASE DocType = "estimate"
  <2>1. PICK e : e = [d \in Live("estimate") |-> Clamped(doc[d].total - doc[d].paid)]
    OBVIOUS
  <2>2. \A d \in Live(DocType) : Due(d) = doc[d].total - doc[d].paid
    BY <1>3, LiveFacts DEF Due
  <2>3. \A d \in Live(DocType) : e[d] = c[d]
    BY <1>3, <2>1, <2>2
  <2>4. SumFunctionOnSet(e, Live(DocType)) = SumFunctionOnSet(c, Live(DocType))
    BY <2>3, LiveFacts, SumSame
  <2>. QED  BY <1>1, <1>3, <2>1, <2>4 DEF Listed, SumEstimates
<1>4. DocType \in {"invoice", "estimate"}
  BY LiveFacts DEF Types
<1>. QED  BY <1>2, <1>3, <1>4

(* The list of parties and the open documents behind it always agree, the
   statement never exceeds them and equals them unless a document is settled
   beyond its total, and the dashboard collects no more than it sold. *)
THEOREM DisplaysStayInStep == ASSUME ConstantsOK PROVE Spec => []DisplaysAgree
<1>1. IInv => DisplaysAgree
  <2>. SUFFICES ASSUME IInv  PROVE DisplaysAgree
    OBVIOUS
  <2>1. PICK U : U = Live(DocType)
    OBVIOUS
  <2>2. PICK c : c = [d \in U |-> Clamped(Due(d))]
    OBVIOUS
  <2>3. PICK f : f = [d \in U |-> Due(d)]
    OBVIOUS
  <2>4. /\ IsFiniteSet(U) /\ U \subseteq Docs
        /\ \A d \in U : /\ f[d] = Due(d) /\ f[d] \in Int /\ doc[d].total \in Nat
                        /\ c[d] \in Nat /\ c[d] \in Int /\ c[d] >= f[d] /\ c[d] <= doc[d].total
                        /\ c[d] = IF Due(d) > 0 THEN Due(d) ELSE 0
    BY <2>1, <2>2, <2>3, LiveFacts, ListedSum DEF Clamped
  <2>5. Listed = SumFunctionOnSet(c, U) /\ Statement = SumFunctionOnSet(f, U)
    BY <2>1, <2>2, <2>3, ListedSum DEF Statement, DueOf
  <2>6. Listed = Detail
    <3>1. PICK S \in SUBSET U : S = {d \in U : Due(d) > 0}
      OBVIOUS
    <3>2. PICK g : g = [d \in S |-> Due(d)]
      OBVIOUS
    <3>3. \A d \in U \ S : c[d] = 0
      BY <2>4, <3>1
    <3>4. SumFunctionOnSet(c, S) = SumFunctionOnSet(c, U)
      BY <2>4, <3>3, SumOfSubset
    <3>5. IsFiniteSet(S) /\ \A d \in S : c[d] = g[d]
      BY <2>4, <3>1, <3>2, FS_Subset
    <3>6. SumFunctionOnSet(c, S) = SumFunctionOnSet(g, S)
      BY <3>5, SumSame
    <3>. QED  BY <2>1, <2>5, <3>1, <3>2, <3>4, <3>6 DEF Detail, DueOf
  <2>7. Statement <= Listed
    <3>1. PICK h : h = [d \in U |-> c[d] - f[d]]
      OBVIOUS
    <3>2. \A d \in U : h[d] \in Nat /\ c[d] \in Int /\ f[d] \in Int /\ h[d] = c[d] - f[d]
      BY <2>4, <3>1
    <3>3. SumFunctionOnSet(h, U) = SumFunctionOnSet(c, U) - SumFunctionOnSet(f, U)
      BY <2>4, <3>2, SumMinus
    <3>4. SumFunctionOnSet(h, U) \in Nat
      BY <2>4, <3>2, SumNat
    <3>5. SumFunctionOnSet(c, U) \in Int /\ SumFunctionOnSet(f, U) \in Int
      BY <2>4, SumInt
    <3>. QED  BY <2>5, <3>3, <3>4, <3>5
  <2>8. ASSUME \A d \in U : Due(d) >= 0  PROVE Statement = Listed
    <3>1. \A d \in U : f[d] = c[d]
      BY <2>4, <2>8
    <3>. QED  BY <2>4, <2>5, <3>1, SumSame
  <2>9. ASSUME DocType = link  PROVE Receivables <= SalesFigure
    <3>1. U \in SUBSET Sold /\ Sold \subseteq Docs
      BY <2>1, <2>9, LiveFacts DEF Live, Sold, IsA, Types
    <3>2. IsFiniteSet(Sold)
      BY <3>1, FS_Subset DEF ConstantsOK
    <3>3. \A d \in Sold : doc[d].total \in Nat
      BY RowFields DEF Sold, IsA, IInv, Typed, ConstantsOK, Types
    <3>4. PICK t : t = [d \in Sold |-> doc[d].total]
      OBVIOUS
    <3>5. PICK g : g = [d \in Sold |-> IF d \in U THEN c[d] ELSE 0]
      OBVIOUS
    <3>6. SumFunctionOnSet(c, U) = SumFunctionOnSet(g, Sold)
      BY <2>4, <3>1, <3>2, <3>5, SumFiltered
    <3>7. PICK h : h = [d \in Sold |-> t[d] - g[d]]
      OBVIOUS
    <3>8. \A d \in Sold : h[d] \in Nat /\ t[d] \in Int /\ g[d] \in Int /\ h[d] = t[d] - g[d]
      BY <2>4, <3>3, <3>4, <3>5, <3>7
    <3>9. SumFunctionOnSet(h, Sold) = SumFunctionOnSet(t, Sold) - SumFunctionOnSet(g, Sold)
      BY <3>2, <3>8, SumMinus
    <3>10. SumFunctionOnSet(h, Sold) \in Nat
      BY <3>2, <3>8, SumNat
    <3>11. SumFunctionOnSet(t, Sold) \in Int /\ SumFunctionOnSet(g, Sold) \in Int
      BY <3>2, <3>8, SumInt
    <3>. QED  BY <2>5, <3>4, <3>6, <3>9, <3>10, <3>11 DEF Receivables, SalesFigure
  <2>. QED  BY <2>1, <2>6, <2>7, <2>8, <2>9 DEF DisplaysAgree
<1>. QED  BY <1>1, SpecIInv, PTL

(* A customer whose live documents are all of the tracked type, with nothing on
   account, owes by the statement exactly what the ledger says. *)
THEOREM StatementStaysLedger == ASSUME ConstantsOK PROVE Spec => []StatementIsLedger
<1>1. IInv => StatementIsLedger
  <2>. SUFFICES ASSUME IInv, OneTypeOnly  PROVE Statement = ledger
    BY DEF StatementIsLedger
  <2>1. PICK U : U = Live(DocType)
    OBVIOUS
  <2>2. PICK f : f = [d \in U |-> Due(d)]
    OBVIOUS
  <2>3. /\ IsFiniteSet(Docs) /\ U \in SUBSET Docs /\ \A d \in U : f[d] \in Int
    BY <2>1, <2>2, LiveFacts DEF ConstantsOK
  <2>4. ASSUME NEW d \in Docs  PROVE Shares[d] = IF d \in U THEN f[d] ELSE 0
    <3>1. PICK row \in Rows : row = doc[d]
      BY DEF IInv, Typed
    <3>2. CASE row = Absent
      <4>1. d \notin U
        BY <2>1, <3>1, <3>2, Absence, LiveFacts DEF Types
      <4>. QED  BY <3>1, <3>2, <4>1, Absence DEF Shares
    <3>3. CASE row \in InvoiceRow
      <4>1. CASE row.status = "CANCELLED" /\ row.paid = 0
        <5>1. d \notin U
          BY <2>1, <3>1, <4>1, LiveFacts
        <5>. QED  BY <3>1, <3>3, <4>1, <5>1, InvoiceFields DEF Shares
      <4>2. CASE d \in U
        <5>1. row.status = "ISSUED"
          BY <2>1, <3>1, <3>3, <4>2, InvoiceFields, LiveFacts DEF Live, IsA
        <5>. QED  BY <2>2, <3>1, <3>3, <4>2, <5>1, InvoiceFields DEF Shares, Due
      <4>3. row.status # "CONVERTED"
        BY <3>3 DEF InvoiceRow
      <4>. QED  BY <2>1, <3>1, <3>3, <4>1, <4>2, <4>3, InvoiceFields, Absence DEF OneTypeOnly
    <3>4. CASE row \in EstimateRow
      <4>1. CASE row.status = "CANCELLED" /\ row.paid = 0
        <5>1. d \notin U
          BY <2>1, <3>1, <4>1, LiveFacts
        <5>. QED  BY <3>1, <3>4, <4>1, <5>1, EstimateFields DEF Shares
      <4>2. CASE d \in U /\ row.booked
        <5>1. row.status # "CANCELLED"
          BY <2>1, <3>1, <4>2, LiveFacts
        <5>. QED  BY <2>2, <3>1, <3>4, <4>2, <5>1, EstimateFields DEF Shares, Due
      <4>3. CASE row.status = "CONVERTED" /\ row.paid = 0
        <5>1. d \notin U /\ ~ row.booked
          BY <2>1, <3>1, <3>4, <4>3, EstimateFields, LiveFacts, Stored
        <5>. QED  BY <3>1, <3>4, <4>3, <5>1, EstimateFields DEF Shares
      <4>. QED  BY <2>1, <3>1, <3>4, <4>1, <4>2, <4>3, EstimateFields, Absence DEF OneTypeOnly
    <3>. QED  BY <3>2, <3>3, <3>4 DEF Rows
  <2>5. SumFunctionOnSet(f, U) = SumFunctionOnSet(Shares, Docs)
    BY <2>3, <2>4, SumFiltered
  <2>6. SumFunctionOnSet(Shares, Docs) \in Int
    BY SharesAddUp DEF IInv
  <2>7. ledger = SumFunctionOnSet(Shares, Docs)
    BY <2>6 DEF IInv, Explained, OneTypeOnly
  <2>. QED  BY <2>1, <2>2, <2>5, <2>7 DEF Statement, DueOf
<1>. QED  BY <1>1, SpecIInv, PTL
-----------------------------------------------------------------------------
(* The component picked at the start is the only one that moves, so that what is
   proved of each holds here. *)
LEMMA OnePart == BooksSpec => [](part \in Parts)
<1>1. part \in Parts /\ [BooksNext]_booksVars => (part \in Parts)'
  BY DEF BooksNext, Rest, booksVars
<1>2. BooksInit => part \in Parts
  BY DEF BooksInit
<1>. QED  BY <1>1, <1>2, PTL DEF BooksSpec

(* Nothing moves but together.                                                *)
LEMMA AllStay ==
  UNCHANGED booksVars => UNCHANGED part /\ UNCHANGED saleVars /\ UNCHANGED billVars /\ UNCHANGED ledgerVars
                           /\ UNCHANGED vars /\ UNCHANGED gstVars
BY DEF booksVars

(* While the others rest, the sales side does what SalesInvoice lets it do. *)
LEMMA SalesBehave == BooksSpec => Sales!Spec
<1>1. BooksInit => Sales!Init
  BY DEF BooksInit
<1>2. [BooksNext]_booksVars => [Sales!Next]_(Sales!vars)
  <2>1. Sales!vars = saleVars
    BY DEF Sales!vars, saleVars
  <2>2. UNCHANGED booksVars => UNCHANGED saleVars
    BY AllStay
  <2>3. BooksNext => Sales!Next \/ UNCHANGED saleVars
    BY DEF BooksNext, Rest
  <2>4. (Sales!vars)' = saleVars'
    BY DEF Sales!vars, saleVars
  <2>. QED  BY <2>1, <2>2, <2>3, <2>4
<1>. QED  BY <1>1, <1>2, PTL DEF BooksSpec, Sales!Spec

(* The constants of the sales side meet the assumptions its theorems are proved
   from. *)
LEMMA SalesAssumed ==
  /\ Sales!OpsAssumption /\ Sales!BoundsAssumption /\ Sales!TypesAssumption /\ Sales!NoneAssumption
  /\ (OneAtATime => Sales!OneAtATime) /\ "cancelVoucher" \notin SaleOps /\ Sales!IsFiniteSet(Invoices)
<1>1. Sales!IsFiniteSet(Invoices)
  BY SidesAssumption DEF IsFiniteSet, Sales!IsFiniteSet
<1>2. Sales!OpsAssumption
  BY DEF SaleOps, Sales!AllOps
<1>3. Sales!BoundsAssumption /\ Sales!TypesAssumption /\ Sales!NoneAssumption
  BY SidesAssumption, LedgersAssumption DEF ConstantsOK
<1>4. (OneAtATime => Sales!OneAtATime) /\ "cancelVoucher" \notin SaleOps
  BY DEF OneAtATime, Sales!OneAtATime, SaleOps
<1>. QED  BY <1>1, <1>2, <1>3, <1>4

(* With requests served one at a time, and no bare voucher cancelled: between them,
   whatever is raised, paid, returned, edited, cancelled or removed, the ledger of a
   customer is what its invoices are worth, for any number of invoices, payments and
   notes.  Two at a time part them: MCSalesInvoice's NoOrphanVouchers and
   VoucherStatesInvoice. *)
THEOREM BooksStayTied == ASSUME OneAtATime PROVE BooksSpec => []BooksTie
<1>1. Sales!Spec => []Sales!BooksTie
  BY SalesAssumed, Sales!OneAtATimeTies
<1>2. Sales!BooksTie => BooksTie
  BY DEF BooksTie
<1>. QED  BY <1>1, <1>2, SalesBehave, PTL

(* With requests served one at a time invoices are settled as module Settlement
   specifies: every handler is one of its operations, or changes no account. *)
THEOREM BooksSettle == ASSUME OneAtATime PROVE BooksSpec => Settles
<1>1. Sales!Spec => Sales!Settles
  BY SalesAssumed, Sales!OneAtATimeSettles
<1>. QED  BY <1>1, SalesBehave DEF Settles

(* With requests served one at a time neither payments nor notes exceed what an
   invoice is for, and nothing is settled on one that is cancelled or removed; two
   notes at a time may, since their cap is not looked at again. *)
THEOREM BooksWithinTotal == ASSUME OneAtATime PROVE BooksSpec => []WithinTotal
<1>1. Sales!Spec => []Sales!WithinTotal
  BY SalesAssumed, Sales!OneAtATimeWithinTotal
<1>. QED  BY <1>1, SalesBehave, PTL DEF WithinTotal

(* With requests served one at a time a payment is taken only out of what payments
   and notes have left open. *)
THEOREM BooksPayOutOfBalance == ASSUME OneAtATime PROVE BooksSpec => PaidOutOfBalance
<1>1. Sales!Spec => Sales!PaidOutOfBalance
  BY SalesAssumed, Sales!OneAtATimePaysOutOfBalance
<1>. QED  BY <1>1, SalesBehave DEF PaidOutOfBalance

(* While the others rest, a customer's account does what PartyAccount lets it do. *)
LEMMA PartyBehaves == BooksSpec => Spec
<1>1. BooksInit => Init
  BY DEF BooksInit
<1>2. [BooksNext]_booksVars => [Next]_vars
  BY Zenon DEF BooksNext, Rest, booksVars
<1>. QED  BY <1>1, <1>2, PTL DEF BooksSpec, Spec

(* A step of Purchases is a step of the handlers it shares with sales, names of
   vouchers apart. *)
LEMMA BillsBehave == BooksSpec => Payables!Side!Spec
<1>1. BooksInit => Payables!Side!Init
  BY DEF BooksInit, Payables!Init
<1>2. Payables!Next => Payables!Side!Next
  BY Zenon DEF Payables!Next, Payables!Side!Next, Payables!Create, Payables!EditRead, Payables!PayRead,
     Payables!NoteRead, Payables!CancelRead, Payables!RemoveRead, Payables!PayCommit, Payables!NoteCommit,
     Payables!CancelCommit, Payables!EditDelete, Payables!EditCommit, Payables!RemoveDelete,
     Payables!RemoveCommit, Payables!NoteCancel, Payables!VoucherCancel, Payables!Abandon,
     Payables!Amounts, Payables!Side!Amounts
<1>3. [BooksNext]_booksVars => [Payables!Side!Next]_(Payables!Side!vars)
  <2>1. Payables!Side!vars = billVars
    BY DEF Payables!Side!vars, billVars
  <2>2. UNCHANGED booksVars => UNCHANGED billVars
    BY AllStay
  <2>3. BooksNext => Payables!Next \/ UNCHANGED billVars
    BY DEF BooksNext, Rest
  <2>4. (Payables!Side!vars)' = billVars'
    BY DEF Payables!Side!vars, billVars
  <2>. QED  BY <1>2, <2>1, <2>2, <2>3, <2>4
<1>. QED  BY <1>1, <1>3, PTL DEF BooksSpec, Payables!Side!Spec

(* The constants of the purchases side meet the assumptions of the handlers'
   theorems. *)
LEMMA BillsAssumed ==
  /\ Payables!Side!OpsAssumption /\ Payables!Side!BoundsAssumption
  /\ Payables!Side!TypesAssumption /\ Payables!Side!NoneAssumption
  /\ (OneAtATime => Payables!Side!OneAtATime) /\ Payables!Side!IsFiniteSet(Bills)
<1>1. Payables!Side!IsFiniteSet(Bills)
  BY SidesAssumption DEF IsFiniteSet, Payables!Side!IsFiniteSet
<1>2. Payables!Side!OpsAssumption
  BY DEF SaleOps, Payables!Side!AllOps
<1>3. Payables!Side!BoundsAssumption /\ Payables!Side!TypesAssumption /\ Payables!Side!NoneAssumption
  BY SidesAssumption, LedgersAssumption DEF ConstantsOK
<1>4. OneAtATime => Payables!Side!OneAtATime
  BY DEF OneAtATime, Payables!Side!OneAtATime
<1>. QED  BY <1>1, <1>2, <1>3, <1>4

(* The sums of the bills are those the theorems of the handlers are about.      *)
LEMMA BillSums == \A f, S : Payables!SumFunctionOnSet(f, S) = Payables!Side!SumFunctionOnSet(f, S)
BY Zenon DEF Payables!SumFunctionOnSet, Payables!FoldFunctionOnSet, Payables!MapThenFoldSet,
       Payables!Side!SumFunctionOnSet, Payables!Side!FoldFunctionOnSet, Payables!Side!MapThenFoldSet

(* A vendor's balances are the sums the handlers' theorems speak of. *)
LEMMA BillBalances ==
  ASSUME NEW v
  PROVE  /\ Payables!VendorBalance(v) = Payables!Side!Unreturned(v)
         /\ Payables!ListedBalance(v) = Payables!Side!Clipped(v)
         /\ Payables!SumFunctionOnSet([b \in Bills |-> Payables!Side!Noted(b)], Payables!IssuedBillsOf(v))
              = Payables!Side!Returned(v)
<1>1. Payables!IssuedBillsOf(v) = Payables!Side!IssuedTo(v)
  BY DEF Payables!IssuedBillsOf, Payables!Side!IssuedTo
<1>2. Payables!VendorBalance(v) = Payables!Side!Unreturned(v)
  BY <1>1, BillSums DEF Payables!VendorBalance, Payables!Side!Unreturned
<1>3. Payables!ListedBalance(v) = Payables!Side!Clipped(v)
  BY <1>1, BillSums DEF Payables!ListedBalance, Payables!Side!Clipped
<1>4. Payables!SumFunctionOnSet([b \in Bills |-> Payables!Side!Noted(b)], Payables!IssuedBillsOf(v))
        = Payables!Side!Returned(v)
  BY <1>1, BillSums DEF Payables!Side!Returned
<1>. QED  BY <1>2, <1>3, <1>4

(* Bills whose vouchers are all active are, for the handlers, invoices in the
   books. *)
LEMMA BillsInStep == Payables!InStep => Payables!Side!InBooks
<1>1. \A i \in Payables!Side!IssuedInvoices :
        bill[i].voucher \in {bill[b].voucher : b \in {b \in Bills : bill[b].status = "ISSUED"}}
  BY DEF Payables!Side!IssuedInvoices
<1>2. \A d \in Payables!Side!Counted :
        d.voucher \in Payables!Side!VoucherRefs(billPayments \cup {n \in debitNotes : n.status = "ISSUED"})
  BY DEF Payables!Side!Counted, Payables!Side!VoucherRefs
<1>. QED  BY <1>1, <1>2 DEF Payables!InStep, Payables!Side!InBooks

(* A vendor's ledger is the balance of its bills less what was returned, and a
   customer's is opening balance, documents, advances and receipts on account,
   however many of them there are, with requests on a bill served one at a time. *)
THEOREM LedgersStayExplained == ASSUME OneAtATime PROVE BooksSpec => []LedgersExplained
<1>1. Payables!Side!Spec => []Payables!Side!TiesInStep
  BY BillsAssumed, Payables!Side!OneAtATimeTiesInStep
<1>2. Payables!Side!TiesInStep => Payables!PayableTies
  BY BillsInStep, BillBalances DEF Payables!PayableTies, Payables!Side!TiesInStep
<1>3. Spec => []LedgerExplained /\ []StatementIsLedger
  BY LedgersAssumption, LedgerStaysExplained, StatementStaysLedger
<1>4. Payables!PayableTies /\ LedgerExplained /\ StatementIsLedger => LedgersExplained
  BY DEF LedgersExplained
<1>. QED  BY <1>1, <1>2, <1>3, <1>4, BillsBehave, PartyBehaves, PTL

(* The party list, the open documents and the statement show one balance: no bill
   that counts is clipped at nothing on the way into the list.  With requests on a
   bill served one at a time. *)
THEOREM BalancesStayAgreed == ASSUME OneAtATime PROVE BooksSpec => []BalancesAgree
<1>1. Payables!Side!Spec => []Payables!Side!ClipsNothing
  BY BillsAssumed, Payables!Side!OneAtATimeClipsNothing
<1>2. Payables!Side!ClipsNothing => Payables!ListTiesStatement
  BY BillBalances DEF Payables!ListTiesStatement, Payables!Side!ClipsNothing
<1>3. Spec => []DisplaysAgree
  BY LedgersAssumption, DisplaysStayInStep
<1>4. Payables!ListTiesStatement /\ DisplaysAgree => BalancesAgree
  BY DEF BalancesAgree
<1>. QED  BY <1>1, <1>2, <1>3, <1>4, BillsBehave, PartyBehaves, PTL

(* While reports are read, the ledgers behave as Ledgers specifies, ...         *)
LEMMA ReportsBehave == BooksSpec /\ part = "reports" => Reports!Spec /\ [](part = "reports")
<1>1. BooksInit => Reports!Init
  BY DEF BooksInit
<1>2. part = "reports" /\ [BooksNext]_booksVars => [Reports!Next]_(Reports!vars) /\ (part = "reports")'
  <2>1. Reports!vars = ledgerVars
    BY DEF Reports!vars, ledgerVars
  <2>2. UNCHANGED booksVars => UNCHANGED ledgerVars
    BY AllStay
  <2>3. part = "reports" /\ BooksNext => Reports!Next /\ (part = "reports")'
    BY DEF BooksNext, Rest
  <2>4. (Reports!vars)' = ledgerVars'
    BY DEF Reports!vars, ledgerVars
  <2>5. UNCHANGED booksVars => UNCHANGED part
    BY AllStay
  <2>6. part = "reports" /\ UNCHANGED part => (part = "reports")'
    OBVIOUS
  <2>. QED  BY <2>1, <2>2, <2>3, <2>4, <2>5, <2>6
<1>. QED  BY <1>1, <1>2, PTL DEF BooksSpec, Reports!Spec

(* ... and while parties are renamed.                                          *)
LEMMA RenamedBehave == BooksSpec /\ part = "names" => Renamed!Spec /\ [](part = "names")
<1>1. BooksInit => Renamed!Init
  BY DEF BooksInit, Reports!Init, Renamed!Init, Reports!SeedLedgers, Renamed!SeedLedgers,
         Reports!Ledger, Renamed!Ledger, Reports!Idle, Renamed!Idle
<1>2. part = "names" /\ [BooksNext]_booksVars => [Renamed!Next]_(Renamed!vars) /\ (part = "names")'
  <2>1. Renamed!vars = ledgerVars
    BY DEF Renamed!vars, ledgerVars
  <2>2. UNCHANGED booksVars => UNCHANGED ledgerVars
    BY AllStay
  <2>3. part = "names" /\ BooksNext => Renamed!Next /\ (part = "names")'
    BY DEF BooksNext, Rest
  <2>4. (Renamed!vars)' = ledgerVars'
    BY DEF Renamed!vars, ledgerVars
  <2>5. UNCHANGED booksVars => UNCHANGED part
    BY AllStay
  <2>6. part = "names" /\ UNCHANGED part => (part = "names")'
    OBVIOUS
  <2>. QED  BY <2>1, <2>2, <2>3, <2>4, <2>5, <2>6
<1>. QED  BY <1>1, <1>2, PTL DEF BooksSpec, Renamed!Spec

(* Whichever is not picked is not picked later.                                *)
LEMMA OthersStay ==
  /\ BooksSpec /\ ~ part = "reports" => [](~ part = "reports")
  /\ BooksSpec /\ ~ part = "names" => [](~ part = "names")
<1>1. ~ part = "reports" /\ [BooksNext]_booksVars => (~ part = "reports")'
  BY DEF BooksNext, Rest, booksVars
<1>2. ~ part = "names" /\ [BooksNext]_booksVars => (~ part = "names")'
  BY DEF BooksNext, Rest, booksVars
<1>. QED  BY <1>1, <1>2, PTL DEF BooksSpec

(* A trial balance and a balance sheet drawn while nothing is posted have two
   equal sides, whatever the ledgers, their openings and the vouchers so far. *)
THEOREM BooksReportsTie == BooksSpec => []ReportsTie
<1>1. Reports!Spec => []Reports!ReportsTie
  BY LedgersAssumption, Reports!ReportsStayTied
<1>2. Reports!ReportsTie \/ ~ part = "reports" => ReportsTie
  BY DEF ReportsTie
<1>. QED  BY <1>1, <1>2, ReportsBehave, OthersStay, PTL

(* A statement begins where the one before it ended, and profits of consecutive
   periods add up, while vouchers are posted, edited and cancelled, and parties
   renamed. *)
THEOREM BooksPeriodsChain == BooksSpec => []PeriodsChain
<1>1. Reports!Spec => []Reports!PeriodsChain
  BY LedgersAssumption, Reports!PeriodsStayChained
<1>2. Renamed!Spec => []Renamed!PeriodsChain
  BY LedgersAssumption, Renamed!PeriodsStayChained
<1>3. /\ Reports!PeriodsChain \/ ~ part = "reports"
      /\ Renamed!PeriodsChain \/ ~ part = "names"
      => PeriodsChain
  BY DEF PeriodsChain
<1>. QED  BY <1>1, <1>2, <1>3, ReportsBehave, RenamedBehave, OthersStay, PTL

(* A party and its ledger have one name, although a rename writes them one after
   the other. *)
THEOREM BooksLockstep == BooksSpec => []Lockstep
<1>1. Renamed!Spec => []Renamed!Lockstep
  BY LedgersAssumption, Renamed!NamesStayInLockstep
<1>2. Renamed!Lockstep \/ ~ part = "names" => Lockstep
  BY DEF Lockstep
<1>. QED  BY <1>1, <1>2, RenamedBehave, OthersStay, PTL

-----------------------------------------------------------------------------
(* The sums of the returns and of the calculator are the library's.           *)
LEMMA GstSums == \A f, S : Gst!SumFunctionOnSet(f, S) = SumFunctionOnSet(f, S)
BY Zenon DEF Gst!SumFunctionOnSet, Gst!FoldFunctionOnSet, Gst!MapThenFoldSet, SumFunctionOnSet, FoldFunctionOnSet,
     MapThenFoldSet

(* A total is a sum over all there is. *)
LEMMA GstTotals == \A f : Gst!Total(f) = SumFunctionOnSet(f, DOMAIN f)
BY GstSums, Zenon DEF Gst!Total

(* So are the sums of the calculator. *)
LEMMA CalculatorSums == \A f, S : Calculator!SumFunctionOnSet(f, S) = SumFunctionOnSet(f, S)
BY Zenon DEF Calculator!SumFunctionOnSet, Calculator!FoldFunctionOnSet, Calculator!MapThenFoldSet, SumFunctionOnSet,
     FoldFunctionOnSet, MapThenFoldSet

(* What is rounded to a hundredth is within half of it.                       *)
LEMMA Hundredth ==
  ASSUME NEW n \in Nat, NEW r, r = Calculator!Round(n, 100)
  PROVE  r \in Nat /\ -50 <= 100 * r - n /\ 100 * r - n <= 50
<1>1. r = (2 * n + 100) \div 200
  BY SMT DEF Calculator!Round
<1>. QED  BY <1>1, SMT

(* A tenth as well.                                                           *)
LEMMA Tenth ==
  ASSUME NEW n \in Nat
  PROVE  Calculator!Round(n, 10) \in Nat
<1>1. Calculator!Round(n, 10) = (2 * n + 10) \div 20
  BY SMT DEF Calculator!Round
<1>. QED  BY <1>1, SMT

(* Half of a tax is within half a paisa of it, and no half is nothing unless the
   other is. *)
LEMMA HalfTax ==
  ASSUME NEW tax \in Nat, NEW short \in BOOLEAN, NEW c, c = Calculator!CgstOf(tax, short)
  PROVE  /\ c \in Nat /\ tax - c \in Nat
         /\ -1 <= 2 * c - tax /\ 2 * c - tax <= 1
         /\ c = 0 => tax - c = 0
<1>1. CASE short /\ tax >= 29
  <2>1. c = tax \div 2
    BY <1>1, SMT DEF Calculator!CgstOf, Calculator!FirstDown
  <2>2. c \in Nat /\ 2 * c <= tax /\ tax <= 2 * c + 1
    BY <2>1, SMT
  <2>3. tax >= 29
    BY <1>1
  <2>. QED  BY <2>2, <2>3, SMT
<1>2. CASE ~ (short /\ tax >= 29)
  <2>1. c = (tax + 1) \div 2
    BY <1>2, SMT DEF Calculator!CgstOf, Calculator!FirstDown
  <2>. QED  BY <2>1, SMT
<1>. QED  BY <1>1, <1>2

(* How often a tax is half of the rate.                                       *)
Weight(f, inter) ==
  IF inter THEN (IF f = "igst" THEN 2 ELSE 0) ELSE (IF f = "igst" THEN 0 ELSE 1)
Taxes == {"cgst", "sgst", "igst"}

(* A line: each tax is within three quarters of a paisa of what the rate makes of
   the taxable value, or of half of it; in two hundredths. *)
LineRight(l, inter) ==
  /\ l.gst \in Nat /\ l.taxable \in Nat /\ l.cgst \in Nat /\ l.sgst \in Nat /\ l.igst \in Nat
  /\ l.cgst = 0 => l.sgst = 0
  /\ \A f \in Taxes : /\ -150 <= 200 * l[f] - (Weight(f, inter) * l.gst) * l.taxable
                       /\ 200 * l[f] - (Weight(f, inter) * l.gst) * l.taxable <= 150

(* What the calculator makes of an item is such a line, within the state or
   across its border. *)
LEMMA LineIsRight ==
  ASSUME NEW item \in Item, NEW inter \in BOOLEAN
  PROVE  LineRight(CodedLine(item, inter), inter)
<1>1. item.qty \in Nat /\ item.rate \in Nat /\ item.disc \in 0..100 /\ item.gst \in Nat /\ item.short \in BOOLEAN
  BY DEF Item
<1>2. PICK x \in Nat : x = item.qty * item.rate
  BY <1>1, SMT
<1>3. PICK g \in Nat : g = Calculator!Round(x, 10)
  BY Tenth, SMT
<1>4. PICK a \in Nat : a = g * item.disc /\ a <= 100 * g
  BY <1>1, SMT
<1>5. PICK d \in Nat : d = Calculator!Round(a, 100) /\ 100 * d - a <= 50
  BY Hundredth, SMT
<1>6. PICK t \in Nat : t = g - d
  BY <1>4, <1>5, SMT
<1>7. PICK b \in Nat : b = item.gst * t /\ b = t * item.gst
  BY <1>1, SMT
<1>8. PICK tax \in Nat : tax = Calculator!Round(b, 100) /\ -50 <= 100 * tax - b /\ 100 * tax - b <= 50
  <2>1. b \in Nat
    OBVIOUS
  <2>2. PICK r : r = Calculator!Round(b, 100)
    OBVIOUS
  <2>3. r \in Nat /\ -50 <= 100 * r - b /\ 100 * r - b <= 50
    BY <2>1, <2>2, Hundredth
  <2>. QED  BY <2>2, <2>3
<1>9. PICK c : c = Calculator!CgstOf(tax, item.short)
  OBVIOUS
<1>10. /\ c \in Nat /\ tax - c \in Nat
       /\ -1 <= 2 * c - tax /\ 2 * c - tax <= 1
       /\ c = 0 => tax - c = 0
  BY <1>1, <1>9, HalfTax
<1>11. PICK l : l = CodedLine(item, inter)
  OBVIOUS
<1>12. /\ l.gst = item.gst /\ l.taxable = t
       /\ l.cgst = IF inter THEN 0 ELSE c
       /\ l.sgst = IF inter THEN 0 ELSE tax - (IF inter THEN 0 ELSE c)
       /\ l.igst = IF inter THEN tax ELSE 0
  BY <1>2, <1>3, <1>4, <1>5, <1>6, <1>7, <1>8, <1>9, <1>11, SMT
  DEF CodedLine, Calculator!LineOf, Calculator!QtyUnit
<1>13. PICK e \in Nat : e = item.gst
  BY <1>1
<1>14. l.gst \in Nat /\ l.taxable \in Nat /\ l.cgst \in Nat /\ l.sgst \in Nat /\ l.igst \in Nat
       /\ (l.cgst = 0 => l.sgst = 0)
  BY <1>1, <1>10, <1>12, SMT
<1>15. ASSUME NEW f \in Taxes
       PROVE  /\ -150 <= 200 * l[f] - (Weight(f, inter) * l.gst) * l.taxable
              /\ 200 * l[f] - (Weight(f, inter) * l.gst) * l.taxable <= 150
  <2>1. PICK w \in 0..2 : w = Weight(f, inter)
    BY DEF Weight
  <2>2. (w * e) * t = w * b
    <3>1. e * t = b
      BY <1>7, <1>13
    <3>2. (0 * e) * t = 0 /\ (1 * e) * t = e * t /\ (2 * e) * t = 2 * (e * t)
      BY SMT
    <3>3. w = 0 \/ w = 1 \/ w = 2
      BY SMT
    <3>. QED  BY <3>1, <3>2, <3>3, SMT
  <2>3. (Weight(f, inter) * l.gst) * l.taxable = w * b
    BY <1>12, <1>13, <2>1, <2>2
  <2>4. PICK v \in Nat : v = l[f]
    BY <1>14 DEF Taxes
  <2>5. -150 <= 200 * v - w * b /\ 200 * v - w * b <= 150
    <3>1. CASE inter
      <4>1. (v = tax /\ w = 2) \/ (v = 0 /\ w = 0)
        BY <1>12, <2>1, <2>4, <3>1 DEF Weight, Taxes
      <4>. QED  BY <1>8, <4>1, SMT
    <3>2. CASE ~ inter
      <4>1. (v = c /\ w = 1) \/ (v = tax - c /\ w = 1) \/ (v = 0 /\ w = 0)
        BY <1>10, <1>12, <2>1, <2>4, <3>2 DEF Weight, Taxes
      <4>. QED  BY <1>8, <1>10, <4>1, SMT
    <3>. QED  BY <3>1, <3>2
  <2>. QED  BY <2>3, <2>4, <2>5
<1>. QED  BY <1>11, <1>14, <1>15, Zenon DEF LineRight

(* A document: its lines are, and its sums are theirs.                         *)
DocumentRight(lines, sums, inter) ==
  /\ DOMAIN lines = 1..Len(lines) /\ Len(lines) \in Nat
  /\ \A k \in DOMAIN lines : LineRight(lines[k], inter)
  /\ \A f \in Gst!Figures : sums[f] = SumFunctionOnSet([k \in DOMAIN lines |-> lines[k][f]], DOMAIN lines)
  /\ sums.extra \in Nat /\ sums.total \in Int /\ sums.roundOff \in Int
  /\ sums.taxable \in Nat /\ sums.cgst \in Nat /\ sums.sgst \in Nat /\ sums.igst \in Nat
  /\ sums.cgst = 0 => sums.sgst = 0

(* So a document has such lines, and sums that are theirs. *)
LEMMA DocumentsRight ==
  ASSUME NEW n \in DOMAIN Drafts, NEW inter \in BOOLEAN
  PROVE  DocumentRight(Documents[n][inter].lines, Documents[n][inter].sums, inter)
<1>0. PICK lines, sums : lines = Documents[n][inter].lines /\ sums = Documents[n][inter].sums
  OBVIOUS
<1>1. PICK draft : draft = Drafts[n]
  OBVIOUS
<1>2. draft \in [items : Seq(Item), extra : Nat]
  <2>1. PICK D : D = [items : Seq(Item), extra : Nat]
    OBVIOUS
  <2>2. Drafts \in Seq(D)
    BY <2>1, GstAssumption
  <2>3. Drafts[n] \in D
    BY <2>2, SMT
  <2>. QED  BY <1>1, <2>1, <2>3
<1>3. lines = LinesOf(draft, inter) /\ sums = Calculator!Calculated(lines, draft.extra)
  BY <1>0, <1>1, Zenon DEF Documents
<1>4. /\ DOMAIN lines = DOMAIN draft.items
      /\ \A k \in DOMAIN lines : lines[k] = CodedLine(draft.items[k], inter)
  BY <1>3 DEF LinesOf
<1>5. draft.items \in Seq(Item)
  BY <1>2
<1>6. lines \in Seq({CodedLine(item, inter) : item \in Item})
  BY <1>4, <1>5, <1>3 DEF LinesOf
<1>7. DOMAIN lines = 1..Len(lines) /\ Len(lines) \in Nat
  BY <1>6
<1>8. \A k \in DOMAIN lines : draft.items[k] \in Item
  BY <1>4, <1>5
<1>9. \A k \in DOMAIN lines : LineRight(lines[k], inter)
  BY <1>4, <1>8, LineIsRight
<1>10. PICK taxable \in Nat, cgst \in Nat, sgst \in Nat, igst \in Nat :
          /\ taxable = SumFunctionOnSet([k \in DOMAIN lines |-> lines[k].taxable], DOMAIN lines)
          /\ cgst = SumFunctionOnSet([k \in DOMAIN lines |-> lines[k].cgst], DOMAIN lines)
          /\ sgst = SumFunctionOnSet([k \in DOMAIN lines |-> lines[k].sgst], DOMAIN lines)
          /\ igst = SumFunctionOnSet([k \in DOMAIN lines |-> lines[k].igst], DOMAIN lines)
  <2>1. \A k \in DOMAIN lines : lines[k].taxable \in Nat /\ lines[k].cgst \in Nat /\ lines[k].sgst \in Nat /\ lines[k].igst \in Nat
    BY <1>9 DEF LineRight
  <2>2. IsFiniteSet(DOMAIN lines)
    BY <1>7, FS_Interval
  <2>3. ASSUME NEW g, \A k \in DOMAIN lines : g[k] \in Nat  PROVE SumFunctionOnSet(g, DOMAIN lines) \in Nat
    BY <2>2, <2>3, SumNat
  <2>. QED  BY <2>1, <2>3
<1>11. PICK exact \in Nat : exact = taxable + cgst + sgst + igst + draft.extra
  BY <1>2
<1>12. PICK rupees \in Nat : rupees = Calculator!Round(exact, 100)
  BY Hundredth
<1>13. /\ sums.taxable = taxable /\ sums.cgst = cgst /\ sums.sgst = sgst /\ sums.igst = igst /\ sums.extra = draft.extra
       /\ sums.total = 100 * rupees /\ sums.roundOff = 100 * rupees - exact
  BY <1>3, <1>10, <1>11, <1>12, CalculatorSums, SMT DEF Calculator!Calculated, Calculator!SumOver, Calculator!Rupee
<1>14. \A f \in Gst!Figures : sums[f] = SumFunctionOnSet([k \in DOMAIN lines |-> lines[k][f]], DOMAIN lines)
  <2>1. \A f \in Gst!Figures : f = "taxable" \/ f = "cgst" \/ f = "sgst" \/ f = "igst"
    BY DEF Gst!Figures
  <2>. QED  BY <1>10, <1>13, <2>1
<1>15. ASSUME cgst = 0  PROVE sgst = 0
  <2>1. PICK c : c = [k \in DOMAIN lines |-> lines[k].cgst]
    OBVIOUS
  <2>2. PICK g : g = [k \in DOMAIN lines |-> lines[k].sgst]
    OBVIOUS
  <2>3. \A k \in DOMAIN lines : c[k] = lines[k].cgst /\ g[k] = lines[k].sgst /\ c[k] \in Nat /\ (c[k] = 0 => g[k] = 0)
    BY <1>9, <2>1, <2>2 DEF LineRight
  <2>4. PICK U : U = DOMAIN lines
    OBVIOUS
  <2>5. \A k \in DOMAIN lines : c[k] <= SumFunctionOnSet(c, DOMAIN lines)
    <3>1. IsFiniteSet(U)
      BY <1>7, <2>4, FS_Interval
    <3>2. \A k \in U : c[k] \in Nat
      BY <2>3, <2>4
    <3>3. \A k \in U : c[k] <= SumFunctionOnSet(c, U)
      BY <3>1, <3>2, SumNat
    <3>. QED  BY <2>4, <3>3
  <2>6. ASSUME NEW k \in DOMAIN lines  PROVE g[k] = 0
    <3>1. SumFunctionOnSet(c, DOMAIN lines) = 0
      BY <1>10, <1>15, <2>1
    <3>2. c[k] \in Nat /\ c[k] <= 0 /\ (c[k] = 0 => g[k] = 0)
      BY <2>3, <2>5, <3>1
    <3>. QED  BY <3>2
  <2>7. SumFunctionOnSet(g, DOMAIN lines) = 0
    <3>1. IsFiniteSet(U)
      BY <1>7, <2>4, FS_Interval
    <3>2. \A k \in U : g[k] = 0
      BY <2>4, <2>6
    <3>3. SumFunctionOnSet(g, U) = 0
      BY <3>1, <3>2, SumZero
    <3>. QED  BY <2>4, <3>3
  <2>. QED  BY <1>10, <2>2, <2>7
<1>16. /\ sums.extra \in Nat /\ sums.total \in Int /\ sums.roundOff \in Int
       /\ sums.taxable \in Nat /\ sums.cgst \in Nat /\ sums.sgst \in Nat /\ sums.igst \in Nat
       /\ sums.cgst = 0 => sums.sgst = 0
  BY <1>2, <1>13, <1>15
<1>. QED  BY <1>0, <1>7, <1>9, <1>14, <1>16, Zenon DEF DocumentRight

(* ... and of every document on record, its voucher posts the figures it declares,
   with the signs of the side. *)
PostedOf(d) == [period |-> d.period, active |-> d.issued, amounts |-> Gst!VoucherOf(d)]
PostedOfNote(d) == [period |-> d.period, active |-> d.issued, amounts |-> Gst!VoucherOfNote(d)]

(* A document on record has right lines, figures that are their sums, and a
   voucher that carries the figures to the ledgers: on the credit side for an
   invoice, on the debit side for a note. *)
LEMMA RowsRight ==
  ASSUME NEW d \in GstRows
  PROVE  /\ DOMAIN Gst!LinesOf(d) = 1..Len(Gst!LinesOf(d)) /\ Len(Gst!LinesOf(d)) \in Nat
         /\ \A k \in DOMAIN Gst!LinesOf(d) : LineRight(Gst!LinesOf(d)[k], d.inter)
         /\ \A f \in Gst!Figures :
              /\ Gst!SumsOf(d)[f] \in Nat
              /\ Gst!SumsOf(d)[f] = SumFunctionOnSet([k \in DOMAIN Gst!LinesOf(d) |-> Gst!LinesOf(d)[k][f]], DOMAIN Gst!LinesOf(d))
              /\ PostedOf(d).amounts[Gst!Ledgers[f]] = - Gst!SumsOf(d)[f]
              /\ PostedOfNote(d).amounts[Gst!Ledgers[f]] = Gst!SumsOf(d)[f]
         /\ PostedOf(d) \in GstVouchers /\ PostedOfNote(d) \in GstVouchers
<1>1. d.bill \in DOMAIN Drafts /\ d.inter \in BOOLEAN /\ d.period \in Periods /\ d.issued \in BOOLEAN
  BY DEF GstRows
<1>2. PICK lines : lines = Gst!LinesOf(d)
  OBVIOUS
<1>3. PICK sums : sums = Gst!SumsOf(d)
  OBVIOUS
<1>4. lines = Documents[d.bill][d.inter].lines /\ sums = Documents[d.bill][d.inter].sums
  BY <1>2, <1>3 DEF Gst!LinesOf, Gst!SumsOf
<1>5. /\ DOMAIN lines = 1..Len(lines) /\ Len(lines) \in Nat
      /\ \A k \in DOMAIN lines : LineRight(lines[k], d.inter)
      /\ \A f \in Gst!Figures : sums[f] = SumFunctionOnSet([k \in DOMAIN lines |-> lines[k][f]], DOMAIN lines)
      /\ sums.extra \in Nat /\ sums.total \in Int /\ sums.roundOff \in Int
      /\ sums.taxable \in Nat /\ sums.cgst \in Nat /\ sums.sgst \in Nat /\ sums.igst \in Nat
      /\ sums.cgst = 0 => sums.sgst = 0
  <2>1. DocumentRight(lines, sums, d.inter)
    BY <1>1, <1>4, DocumentsRight, Zenon
  <2>. QED  BY <2>1, Zenon DEF DocumentRight
<1>6. PICK v : v = Gst!VoucherOf(d)
  OBVIOUS
<1>7. PICK w : w = Gst!VoucherOfNote(d)
  OBVIOUS
<1>8. v = Gst!SalesVoucher(sums)
  BY <1>3, <1>6 DEF Gst!VoucherOf
<1>9. v = [party |-> sums.total, sales |-> - sums.taxable, cgst |-> - sums.cgst, sgst |-> - sums.sgst,
           igst |-> - sums.igst, freight |-> - sums.extra, rounding |-> - sums.roundOff]
  <2>1. (IF sums.cgst > 0 THEN - sums.cgst ELSE 0) = - sums.cgst
    BY <1>5
  <2>2. (IF sums.cgst > 0 THEN - sums.sgst ELSE 0) = - sums.sgst
    BY <1>5
  <2>3. (IF sums.igst > 0 THEN - sums.igst ELSE 0) = - sums.igst
    BY <1>5
  <2>. QED  BY <1>8, <2>1, <2>2, <2>3, Zenon DEF Gst!SalesVoucher
<1>. DEFINE K == {"party", "sales", "cgst", "sgst", "igst", "freight", "rounding"}
<1>10. v \in [K -> Int]
  <2>1. DOMAIN v = K
    BY <1>9
  <2>2. ASSUME NEW k \in K  PROVE v[k] \in Int
    <3>1. v.party \in Int /\ v.sales \in Int /\ v.cgst \in Int /\ v.sgst \in Int /\ v.igst \in Int
          /\ v.freight \in Int /\ v.rounding \in Int
      <4>1. /\ v.party = sums.total /\ v.sales = - sums.taxable /\ v.cgst = - sums.cgst /\ v.sgst = - sums.sgst
            /\ v.igst = - sums.igst /\ v.freight = - sums.extra /\ v.rounding = - sums.roundOff
        BY <1>9
      <4>2. /\ sums.extra \in Nat /\ sums.total \in Int /\ sums.roundOff \in Int
            /\ sums.taxable \in Nat /\ sums.cgst \in Nat /\ sums.sgst \in Nat /\ sums.igst \in Nat
        BY <1>5
      <4>. QED  BY <4>1, <4>2
    <3>2. \/ k = "party" \/ k = "sales" \/ k = "cgst" \/ k = "sgst" \/ k = "igst" \/ k = "freight"
          \/ k = "rounding"
      OBVIOUS
    <3>. QED  BY <3>1, <3>2, Zenon
  <2>3. v = [k \in DOMAIN v |-> v[k]]
    BY <1>9
  <2>. QED  BY <2>1, <2>2, <2>3
<1>11. w = [k \in DOMAIN v |-> - v[k]]
  BY <1>6, <1>7 DEF Gst!VoucherOfNote
<1>12. w \in [K -> Int]
  BY <1>10, <1>11
<1>13. PostedOf(d) \in GstVouchers /\ PostedOfNote(d) \in GstVouchers
  BY <1>1, <1>6, <1>7, <1>10, <1>12 DEF PostedOf, PostedOfNote, GstVouchers
<1>14. ASSUME NEW f \in Gst!Figures
       PROVE  sums[f] \in Nat /\ v[Gst!Ledgers[f]] = - sums[f] /\ w[Gst!Ledgers[f]] = sums[f]
  <2>1. f = "taxable" \/ f = "cgst" \/ f = "sgst" \/ f = "igst"
    BY DEF Gst!Figures
  <2>2. sums[f] \in Nat
    BY <1>5, <2>1
  <2>3. Gst!Ledgers[f] \in K /\ v[Gst!Ledgers[f]] = - sums[f]
    BY <1>9, <2>1 DEF Gst!Ledgers
  <2>4. w[Gst!Ledgers[f]] = - v[Gst!Ledgers[f]]
    BY <1>10, <1>11, <2>3
  <2>. QED  BY <2>2, <2>3, <2>4
<1>15. PostedOf(d).amounts = v /\ PostedOfNote(d).amounts = w
  BY <1>6, <1>7 DEF PostedOf, PostedOfNote
<1>. QED  BY <1>2, <1>3, <1>5, <1>13, <1>14, <1>15

(* The invoices and notes on record, each note of an invoice that is there, ... *)
GstRecords ==
  /\ gstin \subseteq Customers
  /\ inv \in [GstInvoices -> GstRows \cup {None}]
  /\ note \in [GstNotes -> GstRows \cup {None}]
  /\ \A n \in GstNotes : note[n] # None => note[n].of \in GstInvoices /\ inv[note[n].of] # None

(* ... and the voucher of each: of its month, active as long as it is issued. *)
GstPosted ==
  /\ gstBooks \in [GstInvoices \cup GstNotes -> GstVouchers \cup {None}]
  /\ \A i \in GstInvoices : gstBooks[i] = IF inv[i] = None THEN None ELSE PostedOf(inv[i])
  /\ \A n \in GstNotes : gstBooks[n] = IF note[n] = None THEN None ELSE PostedOfNote(note[n])

GstInv == GstRecords /\ GstPosted

(* A row is not None, and neither is a voucher.                               *)
LEMMA NoneApart ==
  /\ None \notin GstInvoices /\ None \notin GstRows /\ None \notin GstVouchers
  /\ IsFiniteSet(GstInvoices) /\ IsFiniteSet(GstNotes) /\ \A i \in GstInvoices : i \notin GstNotes
<1>1. None \notin GstInvoices \cup GstRows \cup GstVouchers
  BY GstAssumption, Zenon
<1>2. IsFiniteSet(GstInvoices) /\ IsFiniteSet(GstNotes) /\ GstInvoices \cap GstNotes = {}
  BY GstAssumption, Zenon
<1>. QED  BY <1>1, <1>2

(* Records with one field changed, or two.                                    *)
IsVoucher(v, t, a, m) == v = [period |-> t, active |-> a, amounts |-> m]

(* A voucher whose activity changes, or whose period and amounts do. *)
LEMMA Restated ==
  ASSUME NEW v, NEW t, NEW a, NEW m, IsVoucher(v, t, a, m), NEW s, NEW n
  PROVE  IsVoucher([v EXCEPT !.active = s], t, s, m) /\ IsVoucher([v EXCEPT !.period = s, !.amounts = n], s, a, n)
<1>0. v = [period |-> t, active |-> a, amounts |-> m]
  BY DEF IsVoucher
<1>. SUFFICES /\ [v EXCEPT !.active = s] = [period |-> t, active |-> s, amounts |-> m]
         /\ [v EXCEPT !.period = s, !.amounts = n] = [period |-> s, active |-> a, amounts |-> n]
  BY DEF IsVoucher
<1>1. PICK w : w = [v EXCEPT !.period = s, !.amounts = n]
  OBVIOUS
<1>2. DOMAIN v = {"period", "active", "amounts"} /\ v["active"] = a
  BY <1>0
<1>3. w = [k \in DOMAIN v |-> IF k = "amounts" THEN n ELSE IF k = "period" THEN s ELSE v[k]]
  BY <1>1, <1>2
<1>4. w = [period |-> s, active |-> a, amounts |-> n]
  BY <1>2, <1>3
<1>5. [v EXCEPT !.active = s] = [period |-> t, active |-> s, amounts |-> m]
  BY <1>0
<1>. QED  BY <1>1, <1>4, <1>5, Zenon

(* A document that becomes the note of an invoice. *)
LEMMA OfInvoice ==
  ASSUME NEW d, NEW p, NEW t, NEW e, NEW b, NEW u, NEW o, NEW i,
         d = [party |-> p, period |-> t, inter |-> e, bill |-> b, issued |-> u, of |-> o]
  PROVE  [d EXCEPT !.of = i] = [party |-> p, period |-> t, inter |-> e, bill |-> b, issued |-> u, of |-> i]
OBVIOUS

(* What the modal sends is a row.                                             *)
IsRow(d, t) ==
  /\ d \in GstRows /\ d.period = t /\ d.issued = TRUE
  /\ \A i \in GstInvoices : [d EXCEPT !.of = i] \in GstRows

(* A new document is of the records, and so is a note of an invoice. *)
LEMMA DocumentRow ==
  ASSUME NEW p \in Customers, NEW t \in Periods, NEW b \in Gst!Chosen, NEW e \in BOOLEAN
  PROVE  IsRow(Gst!Document(p, t, b, e), t)
<1>0. PICK d : d = Gst!Document(p, t, b, e)
  OBVIOUS
<1>1. b \in DOMAIN Drafts
  BY DEF Gst!Chosen, Documents
<1>2. d = [party |-> p, period |-> t, inter |-> e, bill |-> b, issued |-> TRUE, of |-> None]
  BY <1>0 DEF Gst!Document
<1>3. d \in GstRows /\ d.period = t /\ d.issued = TRUE
  BY <1>1, <1>2 DEF GstRows
<1>4. ASSUME NEW i \in GstInvoices  PROVE [d EXCEPT !.of = i] \in GstRows
  <2>1. PICK yes \in BOOLEAN : yes = TRUE
    OBVIOUS
  <2>2. d = [party |-> p, period |-> t, inter |-> e, bill |-> b, issued |-> yes, of |-> None]
    BY <1>2, <2>1
  <2>3. [d EXCEPT !.of = i] = [party |-> p, period |-> t, inter |-> e, bill |-> b, issued |-> yes, of |-> i]
    BY <2>2, OfInvoice
  <2>. QED  BY <1>1, <2>3 DEF GstRows
<1>. QED  BY <1>0, <1>3, <1>4, Zenon DEF IsRow

(* The voucher is of the figures only.                                        *)
LEMMA VoucherOfBill ==
  ASSUME NEW c \in GstRows, NEW d \in GstRows, c.bill = d.bill, c.inter = d.inter
  PROVE  Gst!VoucherOf(c) = Gst!VoucherOf(d) /\ Gst!VoucherOfNote(c) = Gst!VoucherOfNote(d)
<1>1. Gst!VoucherOf(c) = Gst!VoucherOf(d)
  BY DEF Gst!VoucherOf, Gst!SumsOf
<1>. QED  BY <1>1 DEF Gst!VoucherOfNote

(* One invoice is stated, with its voucher.                                   *)
LEMMA InvoiceStated ==
  ASSUME GstInv, gstin' = gstin, note' = note, NEW i \in GstInvoices, NEW x \in GstRows,
         inv' = [inv EXCEPT ![i] = x], gstBooks' = [gstBooks EXCEPT ![i] = PostedOf(x)]
  PROVE  GstInv'
<1>1. PostedOf(x) \in GstVouchers
  BY RowsRight
<1>2. x # None
  BY NoneApart
<1>3. inv' \in [GstInvoices -> GstRows \cup {None}] /\ \A j \in GstInvoices : inv'[j] = IF j = i THEN x ELSE inv[j]
  BY DEF GstInv, GstRecords
<1>4. /\ gstBooks' \in [GstInvoices \cup GstNotes -> GstVouchers \cup {None}]
      /\ \A d \in GstInvoices \cup GstNotes : gstBooks'[d] = IF d = i THEN PostedOf(x) ELSE gstBooks[d]
  BY <1>1 DEF GstInv, GstPosted
<1>5. GstRecords'
  BY <1>2, <1>3 DEF GstInv, GstRecords
<1>6. \A j \in GstInvoices : gstBooks'[j] = IF inv'[j] = None THEN None ELSE PostedOf(inv'[j])
  BY <1>2, <1>3, <1>4 DEF GstInv, GstPosted
<1>7. \A n \in GstNotes : gstBooks'[n] = IF note'[n] = None THEN None ELSE PostedOfNote(note'[n])
  BY <1>4, NoneApart DEF GstInv, GstPosted
<1>. QED  BY <1>4, <1>5, <1>6, <1>7 DEF GstInv, GstPosted

(* One note is stated, with its voucher.                                      *)
LEMMA NoteStated ==
  ASSUME GstInv, gstin' = gstin, inv' = inv, NEW n \in GstNotes, NEW x \in GstRows,
         x.of \in GstInvoices, inv[x.of] # None,
         note' = [note EXCEPT ![n] = x], gstBooks' = [gstBooks EXCEPT ![n] = PostedOfNote(x)]
  PROVE  GstInv'
<1>1. PostedOfNote(x) \in GstVouchers
  BY RowsRight
<1>2. x # None
  BY NoneApart
<1>3. note' \in [GstNotes -> GstRows \cup {None}] /\ \A j \in GstNotes : note'[j] = IF j = n THEN x ELSE note[j]
  BY DEF GstInv, GstRecords
<1>4. /\ gstBooks' \in [GstInvoices \cup GstNotes -> GstVouchers \cup {None}]
      /\ \A d \in GstInvoices \cup GstNotes : gstBooks'[d] = IF d = n THEN PostedOfNote(x) ELSE gstBooks[d]
  BY <1>1 DEF GstInv, GstPosted
<1>5. GstRecords'
  BY <1>2, <1>3 DEF GstInv, GstRecords
<1>6. \A j \in GstNotes : gstBooks'[j] = IF note'[j] = None THEN None ELSE PostedOfNote(note'[j])
  BY <1>2, <1>3, <1>4 DEF GstInv, GstPosted
<1>7. \A i \in GstInvoices : gstBooks'[i] = IF inv'[i] = None THEN None ELSE PostedOf(inv'[i])
  BY <1>4, NoneApart DEF GstInv, GstPosted
<1>. QED  BY <1>4, <1>5, <1>6, <1>7 DEF GstInv, GstPosted

(* The steps of an invoice, ...                                               *)
LEMMA GstCreateStep ==
  ASSUME GstInv, NEW i \in GstInvoices, NEW p \in Customers, NEW t \in Periods, NEW b \in Gst!Chosen,
         Gst!Create(i, p, t, b) \/ Gst!Update(i, p, t, b)
  PROVE  GstInv'
<1>0. PICK e \in BOOLEAN : e <=> (p \in Away)
  OBVIOUS
<1>1. e = (p \in Away)
  BY <1>0, Z3
<1>2. PICK d : d = Gst!Document(p, t, b, e)
  OBVIOUS
<1>3. d \in GstRows /\ d.period = t /\ d.issued = TRUE
  <2>1. IsRow(d, t)
    BY <1>2, DocumentRow, Zenon
  <2>. QED  BY <2>1, Zenon DEF IsRow
<1>4. PostedOf(d) = [period |-> t, active |-> TRUE, amounts |-> Gst!VoucherOf(d)]
  BY <1>3 DEF PostedOf
<1>5. CASE Gst!Create(i, p, t, b)
  <2>1. /\ inv' = [inv EXCEPT ![i] = d] /\ gstBooks' = [gstBooks EXCEPT ![i] = Gst!Posted(t, Gst!VoucherOf(d))]
        /\ gstin' = gstin /\ note' = note
    BY <1>1, <1>2, <1>5, Zenon DEF Gst!Create
  <2>2. gstBooks' = [gstBooks EXCEPT ![i] = PostedOf(d)]
    BY <1>4, <2>1 DEF Gst!Posted
  <2>. QED  BY <1>3, <2>1, <2>2, InvoiceStated
<1>6. CASE Gst!Update(i, p, t, b)
  <2>1. /\ inv' = [inv EXCEPT ![i] = d] /\ inv[i] # None /\ inv[i].issued
        /\ gstBooks' = [gstBooks EXCEPT ![i] = [gstBooks[i] EXCEPT !.period = t, !.amounts = Gst!VoucherOf(d)]]
        /\ gstin' = gstin /\ note' = note
    BY <1>1, <1>2, <1>6, Zenon DEF Gst!Update, Gst!Issued
  <2>2. gstBooks[i] = PostedOf(inv[i])
    BY <2>1 DEF GstInv, GstPosted
  <2>3. inv[i].issued = TRUE
    BY <2>1 DEF GstInv, GstRecords, GstRows
  <2>4. [gstBooks[i] EXCEPT !.period = t, !.amounts = Gst!VoucherOf(d)] = PostedOf(d)
    <3>1. PICK v : v = Gst!VoucherOf(d)
      OBVIOUS
    <3>2. PICK w : w = Gst!VoucherOf(inv[i])
      OBVIOUS
    <3>3. PICK r, a, u : r = inv[i].period /\ a = inv[i].issued /\ u = gstBooks[i]
      OBVIOUS
    <3>4. IsVoucher(u, r, a, w)
      BY <2>2, <3>2, <3>3, Zenon DEF PostedOf, IsVoucher
    <3>5. IsVoucher([u EXCEPT !.period = t, !.amounts = v], t, a, v)
      BY <3>4, Restated, Zenon
    <3>6. IsVoucher(PostedOf(d), t, a, v)
      BY <1>4, <2>3, <3>1, <3>3, Zenon DEF IsVoucher
    <3>. QED  BY <3>1, <3>3, <3>5, <3>6, Zenon DEF IsVoucher
  <2>5. gstBooks' = [gstBooks EXCEPT ![i] = PostedOf(d)]
    BY <2>1, <2>4
  <2>. QED  BY <1>3, <2>1, <2>5, InvoiceStated
<1>. QED  BY <1>5, <1>6

(* Cancelled, the invoice and its voucher stop counting together. *)
LEMMA GstCancelStep ==
  ASSUME GstInv, NEW i \in GstInvoices, Gst!Cancel(i)
  PROVE  GstInv'
<1>1. PICK x : x = [inv[i] EXCEPT !.issued = FALSE]
  OBVIOUS
<1>2. /\ inv' = [inv EXCEPT ![i].issued = FALSE] /\ inv[i] # None
      /\ gstBooks' = [gstBooks EXCEPT ![i].active = FALSE]
      /\ gstin' = gstin /\ note' = note
  BY DEF Gst!Cancel, Gst!Issued
<1>3. inv[i] \in GstRows
  BY <1>2 DEF GstInv, GstRecords
<1>4. x \in GstRows /\ x.issued = FALSE /\ x.period = inv[i].period /\ x.bill = inv[i].bill /\ x.inter = inv[i].inter
  BY <1>1, <1>3 DEF GstRows
<1>5. Gst!VoucherOf(x) = Gst!VoucherOf(inv[i])
  BY <1>3, <1>4, VoucherOfBill
<1>6. gstBooks[i] = PostedOf(inv[i])
  BY <1>2 DEF GstInv, GstPosted
<1>7. [gstBooks[i] EXCEPT !.active = FALSE] = PostedOf(x)
  <2>1. PICK v : v = Gst!VoucherOf(inv[i])
    OBVIOUS
  <2>2. PICK r : r = inv[i]
    OBVIOUS
  <2>3. PICK no, u, a, t : no = FALSE /\ u = gstBooks[i] /\ a = r.issued /\ t = r.period
    OBVIOUS
  <2>4. IsVoucher(u, t, a, v)
    BY <1>6, <2>1, <2>2, <2>3, Zenon DEF PostedOf, IsVoucher
  <2>5. IsVoucher(PostedOf(x), t, no, v)
    BY <1>4, <1>5, <2>1, <2>2, <2>3, Zenon DEF PostedOf, IsVoucher
  <2>6. IsVoucher([u EXCEPT !.active = no], t, no, v)
    BY <2>4, Restated, Zenon
  <2>. QED  BY <2>3, <2>5, <2>6, Zenon DEF IsVoucher
<1>8. gstBooks' = [gstBooks EXCEPT ![i] = PostedOf(x)] /\ inv' = [inv EXCEPT ![i] = x]
  BY <1>1, <1>2, <1>7
<1>. QED  BY <1>2, <1>4, <1>8, InvoiceStated

(* Removed, the invoice takes along its notes and the vouchers of them all. *)
LEMMA GstRemoveStep ==
  ASSUME GstInv, NEW i \in GstInvoices, Gst!Remove(i)
  PROVE  GstInv'
<1>1. PICK gone : gone = Gst!NotesOf(i)
  OBVIOUS
<1>2. /\ inv' = [inv EXCEPT ![i] = None]
      /\ note' = [n \in GstNotes |-> IF n \in gone THEN None ELSE note[n]]
      /\ gstBooks' = [d \in GstInvoices \cup GstNotes |-> IF d = i \/ d \in gone THEN None ELSE gstBooks[d]]
      /\ gstin' = gstin
  BY <1>1, Zenon DEF Gst!Remove, Gst!Ids
<1>3. gone \subseteq GstNotes /\ \A n \in GstNotes \ gone : note[n] # None => note[n].of # i
  BY <1>1 DEF Gst!NotesOf
<1>4. \A j \in GstInvoices : inv'[j] = IF j = i THEN None ELSE inv[j]
  BY <1>2 DEF GstInv, GstRecords
<1>5. \A n \in GstNotes : note'[n] = IF n \in gone THEN None ELSE note[n]
  BY <1>2
<1>6. GstRecords'
  <2>1. inv' \in [GstInvoices -> GstRows \cup {None}] /\ note' \in [GstNotes -> GstRows \cup {None}]
    BY <1>2 DEF GstInv, GstRecords
  <2>2. \A n \in GstNotes : note'[n] # None => note'[n].of \in GstInvoices /\ inv'[note'[n].of] # None
    BY <1>3, <1>4, <1>5 DEF GstInv, GstRecords
  <2>. QED  BY <1>2, <2>1, <2>2 DEF GstInv, GstRecords
<1>7. gstBooks' \in [GstInvoices \cup GstNotes -> GstVouchers \cup {None}]
  BY <1>2 DEF GstInv, GstPosted
<1>8. \A j \in GstInvoices : gstBooks'[j] = IF inv'[j] = None THEN None ELSE PostedOf(inv'[j])
  <2>1. \A j \in GstInvoices : gstBooks'[j] = IF j = i THEN None ELSE gstBooks[j]
    BY <1>2, <1>3, NoneApart
  <2>. QED  BY <1>4, <2>1 DEF GstInv, GstPosted
<1>9. \A n \in GstNotes : gstBooks'[n] = IF note'[n] = None THEN None ELSE PostedOfNote(note'[n])
  <2>1. \A n \in GstNotes : gstBooks'[n] = IF n \in gone THEN None ELSE gstBooks[n]
    BY <1>2, NoneApart
  <2>. QED  BY <1>5, <2>1 DEF GstInv, GstPosted
<1>. QED  BY <1>6, <1>7, <1>8, <1>9 DEF GstInv, GstPosted

(* ... of a note, ...                                                         *)
LEMMA GstNoteStep ==
  ASSUME GstInv, NEW n \in GstNotes, NEW i \in GstInvoices, NEW t \in Periods, NEW b \in Gst!Chosen,
         Gst!CreateNote(n, i, t, b)
  PROVE  GstInv'
<1>1. PICK p, e : p = inv[i].party /\ e = inv[i].inter
  OBVIOUS
<1>2. PICK d : d = Gst!Document(p, t, b, e)
  OBVIOUS
<1>3. PICK x : x = [d EXCEPT !.of = i]
  OBVIOUS
<1>4. /\ note' = [note EXCEPT ![n] = x] /\ gstBooks' = [gstBooks EXCEPT ![n] = Gst!Posted(t, Gst!VoucherOfNote(d))]
      /\ gstin' = gstin /\ inv' = inv /\ inv[i] # None
  BY <1>1, <1>2, <1>3, Zenon DEF Gst!CreateNote, Gst!Issued
<1>5. p \in Customers /\ e \in BOOLEAN
  BY <1>1, <1>4 DEF GstInv, GstRecords, GstRows
<1>6. d \in GstRows /\ d.period = t /\ d.issued = TRUE /\ x \in GstRows
  <2>1. IsRow(d, t)
    BY <1>2, <1>5, DocumentRow, Zenon
  <2>. QED  BY <1>3, <2>1, Zenon DEF IsRow
<1>7. x.of = i /\ x.period = t /\ x.issued = TRUE /\ x.bill = d.bill /\ x.inter = d.inter
  BY <1>3, <1>6 DEF GstRows
<1>8. Gst!VoucherOfNote(x) = Gst!VoucherOfNote(d)
  BY <1>6, <1>7, VoucherOfBill
<1>9. gstBooks' = [gstBooks EXCEPT ![n] = PostedOfNote(x)]
  BY <1>4, <1>7, <1>8 DEF PostedOfNote, Gst!Posted
<1>. QED  BY <1>4, <1>6, <1>7, <1>9, NoteStated

(* A note is cancelled with its voucher. *)
LEMMA GstCancelNoteStep ==
  ASSUME GstInv, NEW n \in GstNotes, Gst!CancelNote(n)
  PROVE  GstInv'
<1>1. PICK x : x = [note[n] EXCEPT !.issued = FALSE]
  OBVIOUS
<1>2. /\ note' = [note EXCEPT ![n].issued = FALSE] /\ note[n] # None
      /\ gstBooks' = [gstBooks EXCEPT ![n].active = FALSE]
      /\ gstin' = gstin /\ inv' = inv
  BY DEF Gst!CancelNote, Gst!Issued
<1>3. note[n] \in GstRows /\ note[n].of \in GstInvoices /\ inv[note[n].of] # None
  BY <1>2 DEF GstInv, GstRecords
<1>4. /\ x \in GstRows /\ x.issued = FALSE /\ x.period = note[n].period /\ x.bill = note[n].bill
      /\ x.inter = note[n].inter /\ x.of = note[n].of
  BY <1>1, <1>3 DEF GstRows
<1>5. Gst!VoucherOfNote(x) = Gst!VoucherOfNote(note[n])
  BY <1>3, <1>4, VoucherOfBill
<1>6. gstBooks[n] = PostedOfNote(note[n])
  BY <1>2 DEF GstInv, GstPosted
<1>7. [gstBooks[n] EXCEPT !.active = FALSE] = PostedOfNote(x)
  <2>1. PICK v : v = Gst!VoucherOfNote(note[n])
    OBVIOUS
  <2>2. PICK r : r = note[n]
    OBVIOUS
  <2>3. PICK no, u, a, t : no = FALSE /\ u = gstBooks[n] /\ a = r.issued /\ t = r.period
    OBVIOUS
  <2>4. IsVoucher(u, t, a, v)
    BY <1>6, <2>1, <2>2, <2>3, Zenon DEF PostedOfNote, IsVoucher
  <2>5. IsVoucher(PostedOfNote(x), t, no, v)
    BY <1>4, <1>5, <2>1, <2>2, <2>3, Zenon DEF PostedOfNote, IsVoucher
  <2>6. IsVoucher([u EXCEPT !.active = no], t, no, v)
    BY <2>4, Restated, Zenon
  <2>. QED  BY <2>3, <2>5, <2>6, Zenon DEF IsVoucher
<1>8. gstBooks' = [gstBooks EXCEPT ![n] = PostedOfNote(x)] /\ note' = [note EXCEPT ![n] = x]
  BY <1>1, <1>2, <1>7
<1>9. x.of \in GstInvoices /\ inv[x.of] # None
  BY <1>3, <1>4
<1>. QED  BY <1>2, <1>4, <1>8, <1>9, NoteStated

(* ... and all of them.                                                       *)
LEMMA GstStep == GstInv /\ [Gst!Next]_(Gst!vars) => GstInv'
<1>. SUFFICES ASSUME GstInv, [Gst!Next]_(Gst!vars)  PROVE GstInv'
  OBVIOUS
<1>1. CASE UNCHANGED Gst!vars
  BY <1>1 DEF Gst!vars, GstInv, GstRecords, GstPosted
<1>2. ASSUME NEW p \in Customers, Gst!Register(p)  PROVE GstInv'
  BY <1>2 DEF Gst!Register, GstInv, GstRecords, GstPosted
<1>. QED  BY <1>1, <1>2, GstCreateStep, GstCancelStep, GstRemoveStep, GstNoteStep, GstCancelNoteStep, Zenon DEF Gst!Next

(* Nothing is on record at first.                                             *)
LEMMA GstStart == Gst!Init => GstInv
BY DEF Gst!Init, Gst!Ids, GstInv, GstRecords, GstPosted

(* The returns' part of the books behaves as GstReturns specifies when it is picked,
   and keeps its invariant in any case. *)
LEMMA GstAlways == BooksSpec => []GstInv
<1>1. BooksInit => GstInv
  BY GstStart DEF BooksInit
<1>2. GstInv /\ [BooksNext]_booksVars => GstInv'
  <2>1. UNCHANGED gstVars => UNCHANGED Gst!vars
    BY DEF gstVars, Gst!vars
  <2>2. UNCHANGED booksVars => UNCHANGED gstVars
    BY AllStay
  <2>3. BooksNext => Gst!Next \/ UNCHANGED gstVars
    BY DEF BooksNext, Rest
  <2>. QED  BY <2>1, <2>2, <2>3, GstStep
<1>. QED  BY <1>1, <1>2, PTL DEF BooksSpec

(* The types of the records.                                                  *)
LEMMA GstTypes == GstInv => Gst!TypeOK
<1>. SUFFICES ASSUME GstInv  PROVE Gst!TypeOK
  OBVIOUS
<1>1. \A i \in GstInvoices : inv[i] = None \/ inv[i] \in GstRows
  BY DEF GstInv, GstRecords
<1>2. \A n \in GstNotes : note[n] = None \/ note[n] \in GstRows
  BY DEF GstInv, GstRecords
<1>3. \A d \in GstRows : d.party \in Customers /\ d.period \in Periods
  BY DEF GstRows
<1>4. \A d \in GstRows : PostedOf(d) # None /\ PostedOfNote(d) # None
  BY RowsRight, NoneApart
<1>5. \A d \in GstInvoices \cup GstNotes :
        gstBooks[d] = None <=> (IF d \in GstInvoices THEN inv[d] = None ELSE note[d] = None)
  BY <1>1, <1>2, <1>4, NoneApart DEF GstInv, GstPosted
<1>6. gstin \subseteq Customers /\ \A n \in GstNotes : note[n] # None => inv[note[n].of] # None
  BY DEF GstInv, GstRecords
<1>. QED  BY <1>1, <1>2, <1>3, <1>5, <1>6 DEF Gst!TypeOK, Gst!Ids

(* The records of the component that was picked have the types the code gives them,
   and are consistent with each other where types depend on it: notes of invoices,
   vouchers of documents, requests on what they read. *)
THEOREM BooksTypeCorrect == BooksSpec => []BooksTypeOK
<1>1. Sales!Spec => []Sales!TypeOK
  BY SalesAssumed, Sales!TypeCorrect
<1>2. Payables!Side!Spec => []Payables!Side!TypeOK
  BY BillsAssumed, Payables!Side!TypeCorrect
<1>3. Reports!Spec => []Reports!TypeOK
  BY LedgersAssumption, Reports!TypeCorrect
<1>4. Renamed!Spec => []Renamed!TypeOK
  BY LedgersAssumption, Renamed!TypeCorrect
<1>5. Spec => []TypeOK
  BY LedgersAssumption, TypeCorrect
<1>6. /\ part \in Parts /\ Sales!TypeOK /\ Payables!Side!TypeOK /\ TypeOK /\ GstInv
      /\ Reports!TypeOK \/ ~ part = "reports"
      /\ Renamed!TypeOK \/ ~ part = "names"
      => BooksTypeOK
  BY GstTypes DEF BooksTypeOK
<1>. QED  BY <1>1, <1>2, <1>3, <1>4, <1>5, <1>6, OnePart, SalesBehave, BillsBehave, PartyBehaves, ReportsBehave,
             RenamedBehave, OthersStay, GstAlways, PTL

-----------------------------------------------------------------------------
(* What counts for a month.                                                   *)
LEMMA IssuedFacts ==
  ASSUME GstInv, NEW t
  PROVE  /\ Gst!IssuedIn(t) \in SUBSET GstInvoices /\ IsFiniteSet(Gst!IssuedIn(t))
         /\ \A i \in Gst!IssuedIn(t) : inv[i] \in GstRows /\ inv[i].issued /\ inv[i].period = t
         /\ Gst!NotesIn(t) \in SUBSET GstNotes /\ IsFiniteSet(Gst!NotesIn(t))
         /\ \A n \in Gst!NotesIn(t) : note[n] \in GstRows /\ note[n].issued /\ note[n].period = t
<1>1. Gst!IssuedIn(t) \in SUBSET GstInvoices /\ Gst!NotesIn(t) \in SUBSET GstNotes
  BY DEF Gst!IssuedIn, Gst!NotesIn
<1>2. IsFiniteSet(Gst!IssuedIn(t)) /\ IsFiniteSet(Gst!NotesIn(t))
  BY <1>1, NoneApart, FS_Subset
<1>3. \A i \in Gst!IssuedIn(t) : inv[i] \in GstRows /\ inv[i].issued /\ inv[i].period = t
  BY DEF Gst!IssuedIn, Gst!Issued, GstInv, GstRecords
<1>4. \A n \in Gst!NotesIn(t) : note[n] \in GstRows /\ note[n].issued /\ note[n].period = t
  BY DEF Gst!NotesIn, Gst!Issued, GstInv, GstRecords
<1>. QED  BY <1>1, <1>2, <1>3, <1>4

(* The vouchers of a month are those of the documents of the month.           *)
LEMMA VouchersOfMonth ==
  ASSUME GstInv, NEW t, NEW A, A = {d \in Gst!Ids : gstBooks[d] # None /\ gstBooks[d].active /\ gstBooks[d].period = t}
  PROVE  A = Gst!IssuedIn(t) \cup Gst!NotesIn(t)
<1>1. ASSUME NEW i \in GstInvoices  PROVE i \in A <=> i \in Gst!IssuedIn(t)
  <2>1. gstBooks[i] = IF inv[i] = None THEN None ELSE PostedOf(inv[i])
    BY DEF GstInv, GstPosted
  <2>2. i \in A <=> gstBooks[i] # None /\ gstBooks[i].active /\ gstBooks[i].period = t
    BY DEF Gst!Ids
  <2>3. i \in Gst!IssuedIn(t) <=> inv[i] # None /\ inv[i].issued /\ inv[i].period = t
    BY DEF Gst!IssuedIn, Gst!Issued
  <2>4. inv[i] # None => inv[i] \in GstRows /\ PostedOf(inv[i]) # None
    BY RowsRight, NoneApart DEF GstInv, GstRecords
  <2>5. PostedOf(inv[i]).active = inv[i].issued /\ PostedOf(inv[i]).period = inv[i].period
    BY Zenon DEF PostedOf
  <2>. QED  BY <2>1, <2>2, <2>3, <2>4, <2>5, Zenon
<1>2. ASSUME NEW n \in GstNotes  PROVE n \in A <=> n \in Gst!NotesIn(t)
  <2>1. gstBooks[n] = IF note[n] = None THEN None ELSE PostedOfNote(note[n])
    BY DEF GstInv, GstPosted
  <2>2. n \in A <=> gstBooks[n] # None /\ gstBooks[n].active /\ gstBooks[n].period = t
    BY DEF Gst!Ids
  <2>3. n \in Gst!NotesIn(t) <=> note[n] # None /\ note[n].issued /\ note[n].period = t
    BY DEF Gst!NotesIn, Gst!Issued
  <2>4. note[n] # None => note[n] \in GstRows /\ PostedOfNote(note[n]) # None
    BY RowsRight, NoneApart DEF GstInv, GstRecords
  <2>5. PostedOfNote(note[n]).active = note[n].issued /\ PostedOfNote(note[n]).period = note[n].period
    BY Zenon DEF PostedOfNote
  <2>. QED  BY <2>1, <2>2, <2>3, <2>4, <2>5, Zenon
<1>3. A \subseteq GstInvoices \cup GstNotes
  BY DEF Gst!Ids
<1>4. Gst!IssuedIn(t) \subseteq GstInvoices /\ Gst!NotesIn(t) \subseteq GstNotes /\ \A i \in GstInvoices : i \notin GstNotes
  BY IssuedFacts, NoneApart
<1>. QED  BY <1>1, <1>2, <1>3, <1>4

(* A figure of some documents.                                                *)
Declared(S, D, f) == SumFunctionOnSet([d \in S |-> Gst!SumsOf(D[d])[f]], S)

(* Such a figure is a number of paise. *)
LEMMA DeclaredFacts ==
  ASSUME NEW S, IsFiniteSet(S), NEW D, \A d \in S : D[d] \in GstRows, NEW f \in Gst!Figures
  PROVE  Declared(S, D, f) \in Nat
<1>1. PICK g : g = [d \in S |-> Gst!SumsOf(D[d])[f]]
  OBVIOUS
<1>2. \A d \in S : g[d] \in Nat
  BY <1>1, RowsRight
<1>3. SumFunctionOnSet(g, S) \in Nat
  BY <1>2, SumNat
<1>. QED  BY <1>1, <1>3 DEF Declared

(* What is declared: invoices less credit notes.                               *)
LEMMA OutwardIs ==
  ASSUME NEW t, NEW f
  PROVE  Gst!Outward(t, f) = Declared(Gst!IssuedIn(t), inv, f) - Declared(Gst!NotesIn(t), note, f)
<1>1. PICK g : g = [i \in Gst!IssuedIn(t) |-> Gst!SumsOf(inv[i])[f]]
  OBVIOUS
<1>2. PICK h : h = [n \in Gst!NotesIn(t) |-> Gst!SumsOf(note[n])[f]]
  OBVIOUS
<1>3. Gst!Outward(t, f) = Gst!Total(g) - Gst!Total(h)
  BY <1>1, <1>2, Zenon DEF Gst!Outward
<1>4. DOMAIN g = Gst!IssuedIn(t) /\ DOMAIN h = Gst!NotesIn(t)
  BY <1>1, <1>2
<1>5. Gst!Total(g) = SumFunctionOnSet(g, Gst!IssuedIn(t)) /\ Gst!Total(h) = SumFunctionOnSet(h, Gst!NotesIn(t))
  BY <1>4, GstTotals, Zenon
<1>. QED  BY <1>1, <1>2, <1>3, <1>5, Zenon DEF Declared

(* Through edits to other months, cancellations, and removals that take notes along,
   a month's return is what the ledgers gained in it. *)
LEMMA ReturnIsBooks ==
  ASSUME GstInv
  PROVE  Gst!ReturnTiesBooks
<1>. SUFFICES ASSUME NEW t \in Periods, NEW f \in Gst!Figures,
                     NEW A, A = {d \in Gst!Ids : gstBooks[d] # None /\ gstBooks[d].active /\ gstBooks[d].period = t}
     PROVE  Gst!Outward(t, f) = - Gst!Total([d \in A |-> gstBooks[d].amounts[Gst!Ledgers[f]]])
  BY Zenon DEF Gst!ReturnTiesBooks
<1>1. PICK I, N : I = Gst!IssuedIn(t) /\ N = Gst!NotesIn(t)
  OBVIOUS
<1>2. PICK g : g = [d \in A |-> gstBooks[d].amounts[Gst!Ledgers[f]]]
  OBVIOUS
<1>3. PICK x : x = [i \in I |-> Gst!SumsOf(inv[i])[f]]
  OBVIOUS
<1>4. PICK y : y = [n \in N |-> Gst!SumsOf(note[n])[f]]
  OBVIOUS
<1>5. /\ I \in SUBSET GstInvoices /\ IsFiniteSet(I) /\ \A i \in I : inv[i] \in GstRows
      /\ N \in SUBSET GstNotes /\ IsFiniteSet(N) /\ \A n \in N : note[n] \in GstRows
  BY <1>1, IssuedFacts
<1>6. A = I \cup N
  BY <1>1, VouchersOfMonth
<1>7. \A i \in I : x[i] \in Int /\ g[i] = (-1) * x[i]
  <2>. SUFFICES ASSUME NEW i \in I  PROVE x[i] \in Int /\ g[i] = (-1) * x[i]
    OBVIOUS
  <2>1. inv[i] \in GstRows /\ inv[i] # None
    BY <1>5, NoneApart
  <2>2. gstBooks[i] = PostedOf(inv[i])
    BY <1>5, <2>1 DEF GstInv, GstPosted
  <2>3. /\ Gst!SumsOf(inv[i])[f] \in Nat
        /\ PostedOf(inv[i]).amounts[Gst!Ledgers[f]] = - Gst!SumsOf(inv[i])[f]
    BY <2>1, RowsRight
  <2>4. g[i] = PostedOf(inv[i]).amounts[Gst!Ledgers[f]] /\ x[i] = Gst!SumsOf(inv[i])[f]
    BY <1>2, <1>3, <1>6, <2>2
  <2>. QED  BY <2>3, <2>4
<1>8. \A n \in N : y[n] \in Int /\ g[n] = y[n]
  <2>. SUFFICES ASSUME NEW n \in N  PROVE y[n] \in Int /\ g[n] = y[n]
    OBVIOUS
  <2>1. note[n] \in GstRows /\ note[n] # None
    BY <1>5, NoneApart
  <2>2. gstBooks[n] = PostedOfNote(note[n])
    BY <1>5, <2>1 DEF GstInv, GstPosted
  <2>3. /\ Gst!SumsOf(note[n])[f] \in Nat
        /\ PostedOfNote(note[n]).amounts[Gst!Ledgers[f]] = Gst!SumsOf(note[n])[f]
    BY <2>1, RowsRight
  <2>4. g[n] = PostedOfNote(note[n]).amounts[Gst!Ledgers[f]] /\ y[n] = Gst!SumsOf(note[n])[f]
    BY <1>2, <1>4, <1>6, <2>2
  <2>. QED  BY <2>3, <2>4
<1>9. I \cap N = {}
  BY <1>5, NoneApart
<1>10. \A d \in I \cup N : g[d] \in Int
  BY <1>7, <1>8
<1>11. SumFunctionOnSet(g, I \cup N) = SumFunctionOnSet(g, I) + SumFunctionOnSet(g, N)
  BY <1>5, <1>9, <1>10, SumUnion
<1>12. SumFunctionOnSet(g, I) = (-1) * SumFunctionOnSet(x, I)
  <2>1. IsFiniteSet(I) /\ -1 \in Int
    BY <1>5
  <2>. QED  BY <1>7, <2>1, SumTimes
<1>13. SumFunctionOnSet(g, N) = SumFunctionOnSet(y, N)
  BY <1>5, <1>8, SumSame
<1>14. SumFunctionOnSet(x, I) \in Int /\ SumFunctionOnSet(y, N) \in Int
  <2>1. SumFunctionOnSet(x, I) \in Int
    BY <1>5, <1>7, SumInt
  <2>2. SumFunctionOnSet(y, N) \in Int
    BY <1>5, <1>8, SumInt
  <2>. QED  BY <2>1, <2>2
<1>15. Gst!Total(g) = SumFunctionOnSet(g, I \cup N)
  <2>1. DOMAIN g = I \cup N
    BY <1>2, <1>6
  <2>. QED  BY <2>1, GstTotals, Zenon
<1>16. Gst!Outward(t, f) = SumFunctionOnSet(x, I) - SumFunctionOnSet(y, N)
  BY <1>1, <1>3, <1>4, OutwardIs, Zenon DEF Declared
<1>17. Gst!Outward(t, f) = - Gst!Total(g)
  BY <1>11, <1>12, <1>13, <1>14, <1>15, <1>16
<1>. QED  BY <1>2, <1>17, Zenon

-----------------------------------------------------------------------------
(* Documents on record, and their lines with a figure of each.                *)
Recorded(S, D) == IsFiniteSet(S) /\ \A d \in S : D[d] \in GstRows
LinesIn(S, D) == [d \in S |-> DOMAIN Gst!LinesOf(D[d])]
Values(S, D, f) == [d \in S |-> [k \in DOMAIN Gst!LinesOf(D[d]) |-> Gst!LinesOf(D[d])[k][f]]]

(* The lines of a document on record are finitely many, and their figures add up
   to its own. *)
LEMMA LinesFacts ==
  ASSUME NEW S, NEW D, Recorded(S, D), NEW d \in S
  PROVE  /\ LinesIn(S, D)[d] = DOMAIN Gst!LinesOf(D[d])
         /\ IsFiniteSet(DOMAIN Gst!LinesOf(D[d])) /\ Cardinality(DOMAIN Gst!LinesOf(D[d])) = Len(Gst!LinesOf(D[d]))
         /\ Len(Gst!LinesOf(D[d])) \in Nat
         /\ \A f \in Gst!Figures :
              /\ \A k \in DOMAIN Gst!LinesOf(D[d]) :
                   Values(S, D, f)[d][k] = Gst!LinesOf(D[d])[k][f] /\ Values(S, D, f)[d][k] \in Nat
              /\ SumFunctionOnSet(Values(S, D, f)[d], DOMAIN Gst!LinesOf(D[d])) = Gst!SumsOf(D[d])[f]
<1>1. PICK r \in GstRows : r = D[d]
  BY DEF Recorded
<1>2. PICK lines : lines = Gst!LinesOf(r)
  OBVIOUS
<1>3. /\ DOMAIN lines = 1..Len(lines) /\ Len(lines) \in Nat
      /\ \A k \in DOMAIN lines : LineRight(lines[k], r.inter)
  BY <1>2, RowsRight
<1>4. IsFiniteSet(DOMAIN lines) /\ Cardinality(DOMAIN lines) = Len(lines)
  <2>1. PICK n \in Nat : n = Len(lines)
    BY <1>3
  <2>2. IsFiniteSet(1..n) /\ Cardinality(1..n) = n
    BY FS_Interval
  <2>. QED  BY <1>3, <2>1, <2>2
<1>5. LinesIn(S, D)[d] = DOMAIN lines
  BY <1>1, <1>2 DEF LinesIn
<1>6. ASSUME NEW f \in Gst!Figures
      PROVE  /\ \A k \in DOMAIN lines : Values(S, D, f)[d][k] = lines[k][f] /\ Values(S, D, f)[d][k] \in Nat
             /\ SumFunctionOnSet(Values(S, D, f)[d], DOMAIN lines) = Gst!SumsOf(r)[f]
  <2>1. Values(S, D, f)[d] = [k \in DOMAIN lines |-> lines[k][f]]
    BY <1>1, <1>2 DEF Values
  <2>2. ASSUME NEW k \in DOMAIN lines  PROVE lines[k][f] \in Nat
    <3>1. f = "taxable" \/ f = "cgst" \/ f = "sgst" \/ f = "igst"
      BY DEF Gst!Figures
    <3>2. lines[k].taxable \in Nat /\ lines[k].cgst \in Nat /\ lines[k].sgst \in Nat /\ lines[k].igst \in Nat
      BY <1>3 DEF LineRight
    <3>. QED  BY <3>1, <3>2
  <2>3. Gst!SumsOf(r)[f] = SumFunctionOnSet([k \in DOMAIN lines |-> lines[k][f]], DOMAIN lines)
    BY <1>2, RowsRight
  <2>. QED  BY <2>1, <2>2, <2>3
<1>. QED  BY <1>1, <1>2, <1>3, <1>4, <1>5, <1>6

(* Every line has a key of V, under which its figures are added up.           *)
Keyed(S, D, key, V) == \A d \in S : \A k \in DOMAIN Gst!LinesOf(D[d]) : key[d][k] \in V

(* Lines of documents on record are values under keys, as the sums of rows need
   them. *)
LEMMA RecordedLined ==
  ASSUME NEW S, NEW D, Recorded(S, D), NEW V, NEW key, Keyed(S, D, key, V), NEW f \in Gst!Figures
  PROVE  Lined(S, LinesIn(S, D), V, Values(S, D, f), key)
<1>. SUFFICES ASSUME NEW d \in S
     PROVE  /\ IsFiniteSet(LinesIn(S, D)[d])
            /\ \A k \in LinesIn(S, D)[d] : Values(S, D, f)[d][k] \in Int /\ key[d][k] \in V
  BY DEF Lined
<1>1. /\ LinesIn(S, D)[d] = DOMAIN Gst!LinesOf(D[d]) /\ IsFiniteSet(DOMAIN Gst!LinesOf(D[d]))
      /\ \A k \in DOMAIN Gst!LinesOf(D[d]) : Values(S, D, f)[d][k] \in Nat
  BY LinesFacts
<1>. QED  BY <1>1 DEF Keyed

(* However the lines are keyed, the rows add up to what the documents declare.  *)
LEMMA TableAddsUp ==
  ASSUME NEW S, NEW D, Recorded(S, D), NEW V, IsFiniteSet(V), NEW key, Keyed(S, D, key, V),
         NEW f \in Gst!Figures,
         NEW rows, \A v \in V : rows[v] = RowOf(S, LinesIn(S, D), Values(S, D, f), key, v)
  PROVE  SumFunctionOnSet(rows, V) = Declared(S, D, f) /\ \A v \in V : rows[v] \in Int
<1>1. PICK L : L = LinesIn(S, D)
  OBVIOUS
<1>2. PICK val : val = Values(S, D, f)
  OBVIOUS
<1>3. PICK total : total = [d \in S |-> Gst!SumsOf(D[d])[f]]
  OBVIOUS
<1>4. IsFiniteSet(S) /\ Lined(S, L, V, val, key)
  BY <1>1, <1>2, RecordedLined DEF Recorded
<1>5. \A d \in S : total[d] = SumFunctionOnSet(val[d], L[d])
  BY <1>1, <1>2, <1>3, LinesFacts
<1>6. \A v \in V : rows[v] = RowOf(S, L, val, key, v)
  BY <1>1, <1>2
<1>7. SumFunctionOnSet(rows, V) = SumFunctionOnSet(total, S) /\ \A v \in V : rows[v] \in Int
  BY <1>4, <1>5, <1>6, SumOfRows
<1>. QED  BY <1>3, <1>7 DEF Declared

(* The lines of a group in one document.                                      *)
LEMMA GroupIs ==
  ASSUME NEW S, NEW D, Recorded(S, D), NEW d \in S, NEW f \in Gst!Figures,
         NEW G, G \subseteq DOMAIN Gst!LinesOf(D[d])
  PROVE  /\ Gst!Total([k \in G |-> Gst!LinesOf(D[d])[k][f]]) = SumFunctionOnSet(Values(S, D, f)[d], G)
         /\ SumFunctionOnSet(Values(S, D, f)[d], G) \in Nat
<1>1. PICK g : g = [k \in G |-> Gst!LinesOf(D[d])[k][f]]
  OBVIOUS
<1>2. PICK h : h = Values(S, D, f)[d]
  OBVIOUS
<1>3. IsFiniteSet(DOMAIN Gst!LinesOf(D[d])) /\ \A k \in G : h[k] = g[k] /\ h[k] \in Nat
  BY <1>1, <1>2, LinesFacts
<1>4. IsFiniteSet(G)
  BY <1>3, FS_Subset
<1>5. Gst!Total(g) = SumFunctionOnSet(g, G)
  BY <1>1, GstTotals
<1>6. SumFunctionOnSet(g, G) = SumFunctionOnSet(h, G)
  BY <1>3, <1>4, SumSame
<1>7. SumFunctionOnSet(h, G) \in Nat
  BY <1>3, <1>4, SumNat
<1>. QED  BY <1>1, <1>2, <1>5, <1>6, <1>7

(* The rates of a document are finitely many, and its items by rate come to its
   figures. *)
LEMMA RatesFinite ==
  ASSUME NEW S, NEW D, Recorded(S, D), NEW d \in S
  PROVE  IsFiniteSet(Gst!RatesOf(Gst!LinesOf(D[d])))
<1>1. PICK lines : lines = Gst!LinesOf(D[d])
  OBVIOUS
<1>2. PICK g : g = [k \in DOMAIN lines |-> lines[k].gst]
  OBVIOUS
<1>3. IsFiniteSet(DOMAIN lines)
  BY <1>1, LinesFacts
<1>4. IsFiniteSet({g[k] : k \in DOMAIN lines})
  BY <1>3, FiniteValues
<1>5. {g[k] : k \in DOMAIN lines} = Gst!RatesOf(lines)
  BY <1>2 DEF Gst!RatesOf
<1>. QED  BY <1>1, <1>4, <1>5

(* A document's items by rate come to the document. *)
LEMMA ItmsAre ==
  ASSUME NEW S, NEW D, Recorded(S, D), NEW d \in S, NEW f \in Gst!Figures
  PROVE  Gst!Itms(D[d], f) = Gst!SumsOf(D[d])[f]
<1>1. PICK lines : lines = Gst!LinesOf(D[d])
  OBVIOUS
<1>2. PICK U, V : U = DOMAIN lines /\ V = Gst!RatesOf(lines)
  OBVIOUS
<1>3. PICK h : h = Values(S, D, f)[d]
  OBVIOUS
<1>4. PICK key : key = [k \in U |-> lines[k].gst]
  OBVIOUS
<1>5. PICK group : group = [r \in V |-> {k \in U : lines[k].gst = r}]
  OBVIOUS
<1>6. PICK g : g = [r \in V |-> Gst!InRate(lines, r, f)]
  OBVIOUS
<1>7. IsFiniteSet(U) /\ IsFiniteSet(V) /\ \A k \in U : h[k] \in Int
  <2>1. IsFiniteSet(U) /\ \A k \in U : h[k] \in Nat
    BY <1>1, <1>2, <1>3, LinesFacts
  <2>2. IsFiniteSet(V)
    BY <1>1, <1>2, RatesFinite
  <2>. QED  BY <2>1, <2>2
<1>8. Grouping(group, key, U, V)
  BY <1>2, <1>4, <1>5 DEF Grouping, Gst!RatesOf
<1>9. ASSUME NEW r \in V  PROVE g[r] = SumFunctionOnSet(h, group[r])
  <2>1. PICK G : G = {k \in DOMAIN lines : lines[k].gst = r}
    OBVIOUS
  <2>2. g[r] = Gst!Total([k \in G |-> lines[k][f]])
    BY <1>6, <2>1, Zenon DEF Gst!InRate
  <2>3. Gst!Total([k \in G |-> lines[k][f]]) = SumFunctionOnSet(h, G)
    BY <1>1, <1>3, <2>1, GroupIs
  <2>4. group[r] = G
    BY <1>2, <1>5, <2>1
  <2>. QED  BY <2>2, <2>3, <2>4
<1>10. SumFunctionOnSet(g, V) = SumFunctionOnSet(h, U)
  BY <1>7, <1>8, <1>9, SumGrouped
<1>11. SumFunctionOnSet(h, U) = Gst!SumsOf(D[d])[f]
  BY <1>1, <1>2, <1>3, LinesFacts
<1>12. Gst!Itms(D[d], f) = Gst!Total(g)
  BY <1>1, <1>2, <1>6, Zenon DEF Gst!Itms
<1>13. Gst!Total(g) = SumFunctionOnSet(g, V)
  BY <1>6, GstTotals
<1>. QED  BY <1>10, <1>11, <1>12, <1>13

(* So a section made of items comes to what its documents declare. *)
LEMMA ItmsDeclared ==
  ASSUME NEW S, NEW D, Recorded(S, D), NEW f \in Gst!Figures
  PROVE  Gst!Total([d \in S |-> Gst!Itms(D[d], f)]) = Declared(S, D, f)
<1>1. [d \in S |-> Gst!Itms(D[d], f)] = [d \in S |-> Gst!SumsOf(D[d])[f]]
  BY ItmsAre
<1>2. PICK g : g = [d \in S |-> Gst!SumsOf(D[d])[f]]
  OBVIOUS
<1>3. Gst!Total(g) = SumFunctionOnSet(g, S)
  BY <1>2, GstTotals
<1>. QED  BY <1>1, <1>2, <1>3 DEF Declared

-----------------------------------------------------------------------------
(* A row of b2cs: the lines of a rate, of documents of a place and kind of supply. *)
Key(a, r, e) == [place |-> a, rate |-> r, inter |-> e]
PlaceKeys(S, D, place) ==
  [d \in S |-> [k \in DOMAIN Gst!LinesOf(D[d]) |-> Key(place[d], Gst!LinesOf(D[d])[k].gst, D[d].inter)]]

(* Two rows are one when place, rate and kind of supply are. *)
LEMMA KeysSame ==
  ASSUME NEW a, NEW r, NEW e, NEW b, NEW q, NEW g
  PROVE  Key(a, r, e) = Key(b, q, g) <=> a = b /\ r = q /\ e = g
BY DEF Key

(* The lines of a document in a row: those of the rate, if it is of the place and
   kind, and none otherwise. *)
LEMMA GroupOfRow ==
  ASSUME NEW S, NEW D, NEW place, NEW d \in S, NEW a, NEW r, NEW e, NEW G,
         G = {k \in DOMAIN Gst!LinesOf(D[d]) : PlaceKeys(S, D, place)[d][k] = Key(a, r, e)}
  PROVE  G = IF place[d] = a /\ D[d].inter = e THEN {k \in DOMAIN Gst!LinesOf(D[d]) : Gst!LinesOf(D[d])[k].gst = r} ELSE {}
<1>1. PICK lines : lines = Gst!LinesOf(D[d])
  OBVIOUS
<1>2. \A k \in DOMAIN lines : PlaceKeys(S, D, place)[d][k] = Key(place[d], lines[k].gst, D[d].inter)
  BY <1>1, Zenon DEF PlaceKeys
<1>3. ASSUME NEW k \in DOMAIN lines
      PROVE  k \in G <=> place[d] = a /\ lines[k].gst = r /\ D[d].inter = e
  <2>1. k \in G <=> Key(place[d], lines[k].gst, D[d].inter) = Key(a, r, e)
    BY <1>1, <1>2
  <2>2. PICK b, q, g : b = place[d] /\ q = lines[k].gst /\ g = D[d].inter
    OBVIOUS
  <2>3. Key(b, q, g) = Key(a, r, e) <=> b = a /\ q = r /\ g = e
    BY KeysSame
  <2>. QED  BY <2>1, <2>2, <2>3
<1>4. G \subseteq DOMAIN lines
  BY <1>1
<1>. QED  BY <1>1, <1>3, <1>4

(* What a section has of a place, rate and kind is the sum of a row. *)
LEMMA CellIsRow ==
  ASSUME NEW S, NEW D, Recorded(S, D), NEW place, NEW a, NEW r, NEW e, NEW f \in Gst!Figures,
         NEW sold, sold = {d \in S : place[d] = a /\ D[d].inter = e}
  PROVE  Gst!Total([d \in sold |-> Gst!InRate(Gst!LinesOf(D[d]), r, f)])
           = RowOf(S, LinesIn(S, D), Values(S, D, f), PlaceKeys(S, D, place), Key(a, r, e))
<1>1. PICK L, val, key : L = LinesIn(S, D) /\ val = Values(S, D, f) /\ key = PlaceKeys(S, D, place)
  OBVIOUS
<1>2. PICK v : v = Key(a, r, e)
  OBVIOUS
<1>3. PICK h : h = [d \in S |-> SumFunctionOnSet(val[d], {k \in L[d] : key[d][k] = v})]
  OBVIOUS
<1>4. PICK g : g = [d \in sold |-> Gst!InRate(Gst!LinesOf(D[d]), r, f)]
  OBVIOUS
<1>5. IsFiniteSet(S) /\ sold \in SUBSET S
  BY DEF Recorded
<1>6. ASSUME NEW d \in S
      PROVE  h[d] = (IF d \in sold THEN g[d] ELSE 0) /\ (d \in sold => g[d] \in Int)
  <2>1. PICK G : G = {k \in DOMAIN Gst!LinesOf(D[d]) : PlaceKeys(S, D, place)[d][k] = Key(a, r, e)}
    OBVIOUS
  <2>2. L[d] = DOMAIN Gst!LinesOf(D[d])
    BY <1>1, LinesFacts
  <2>3. h[d] = SumFunctionOnSet(val[d], G)
    BY <1>1, <1>2, <1>3, <2>1, <2>2
  <2>4. CASE d \in sold
    <3>1. G = {k \in DOMAIN Gst!LinesOf(D[d]) : Gst!LinesOf(D[d])[k].gst = r}
      BY <2>1, <2>4, GroupOfRow
    <3>2. g[d] = Gst!Total([k \in G |-> Gst!LinesOf(D[d])[k][f]])
      BY <1>4, <2>4, <3>1, Zenon DEF Gst!InRate
    <3>3. Gst!Total([k \in G |-> Gst!LinesOf(D[d])[k][f]]) = SumFunctionOnSet(val[d], G) /\ SumFunctionOnSet(val[d], G) \in Nat
      BY <1>1, <2>1, GroupIs
    <3>. QED  BY <2>3, <2>4, <3>2, <3>3
  <2>5. CASE d \notin sold
    <3>1. G = {}
      BY <2>1, <2>5, GroupOfRow
    <3>. QED  BY <2>3, <2>5, <3>1, SumEmpty
  <2>. QED  BY <2>4, <2>5
<1>7. SumFunctionOnSet(g, sold) = SumFunctionOnSet(h, S)
  BY <1>5, <1>6, SumFiltered
<1>8. Gst!Total(g) = SumFunctionOnSet(g, sold)
  BY <1>4, GstTotals
<1>9. RowOf(S, L, val, key, v) = SumFunctionOnSet(h, S)
  BY <1>3 DEF RowOf
<1>. QED  BY <1>1, <1>2, <1>4, <1>7, <1>8, <1>9

(* By how much a line's tax is off, in two hundredths of a paisa.             *)
Errors(S, D, f) ==
  [d \in S |-> [k \in DOMAIN Gst!LinesOf(D[d]) |->
     200 * Gst!LinesOf(D[d])[k][f] - (Weight(f, D[d].inter) * Gst!LinesOf(D[d])[k].gst) * Gst!LinesOf(D[d])[k].taxable]]

(* A line is off by three quarters of a paisa at most: half for the tax, a
   quarter for its halves. *)
LEMMA ErrorsBounded ==
  ASSUME NEW S, NEW D, Recorded(S, D), NEW V, NEW key, Keyed(S, D, key, V), NEW f \in Taxes
  PROVE  /\ Lined(S, LinesIn(S, D), V, Errors(S, D, f), key)
         /\ \A d \in S : \A k \in LinesIn(S, D)[d] : -150 <= Errors(S, D, f)[d][k] /\ Errors(S, D, f)[d][k] <= 150
<1>. SUFFICES ASSUME NEW d \in S
     PROVE  /\ IsFiniteSet(LinesIn(S, D)[d])
            /\ \A k \in LinesIn(S, D)[d] : /\ Errors(S, D, f)[d][k] \in Int /\ key[d][k] \in V
                                         /\ -150 <= Errors(S, D, f)[d][k] /\ Errors(S, D, f)[d][k] <= 150
  BY DEF Lined
<1>1. LinesIn(S, D)[d] = DOMAIN Gst!LinesOf(D[d]) /\ IsFiniteSet(DOMAIN Gst!LinesOf(D[d]))
  BY LinesFacts
<1>2. ASSUME NEW k \in DOMAIN Gst!LinesOf(D[d])
      PROVE  Errors(S, D, f)[d][k] \in Int /\ -150 <= Errors(S, D, f)[d][k] /\ Errors(S, D, f)[d][k] <= 150
  <2>1. PICK l : l = Gst!LinesOf(D[d])[k]
    OBVIOUS
  <2>2. LineRight(l, D[d].inter)
    BY <2>1, RowsRight DEF Recorded
  <2>3. l.gst \in Nat /\ l.taxable \in Nat /\ l[f] \in Nat
    BY <2>2 DEF LineRight, Taxes
  <2>4. Weight(f, D[d].inter) \in Nat
    BY DEF Weight
  <2>5. PICK x : x = 200 * l[f] - (Weight(f, D[d].inter) * l.gst) * l.taxable
    OBVIOUS
  <2>6. x \in Int
    BY <2>3, <2>4, <2>5
  <2>7. -150 <= x /\ x <= 150
    BY <2>2, <2>5, Zenon DEF LineRight
  <2>8. Errors(S, D, f)[d][k] = x
    BY <2>1, <2>5, Zenon DEF Errors
  <2>. QED  BY <2>6, <2>7, <2>8
<1>. QED  BY <1>1, <1>2 DEF Keyed

(* The errors of a row are what its tax is off the rate.                      *)
LEMMA RowError ==
  ASSUME NEW S, NEW D, Recorded(S, D), NEW place, NEW a, NEW r \in Nat, NEW e, NEW f \in Taxes,
         NEW L, L = LinesIn(S, D), NEW key, key = PlaceKeys(S, D, place), NEW v, v = Key(a, r, e)
  PROVE  RowOf(S, L, Errors(S, D, f), key, v)
           = 200 * RowOf(S, L, Values(S, D, f), key, v)
             - (Weight(f, e) * r) * RowOf(S, L, Values(S, D, "taxable"), key, v)
<1>1. PICK err, val, tax : err = Errors(S, D, f) /\ val = Values(S, D, f) /\ tax = Values(S, D, "taxable")
  OBVIOUS
<1>2. PICK c \in Int : c = Weight(f, e) * r
  BY DEF Weight
<1>3. PICK x : x = [d \in S |-> SumFunctionOnSet(err[d], {k \in L[d] : key[d][k] = v})]
  OBVIOUS
<1>4. PICK y : y = [d \in S |-> SumFunctionOnSet(val[d], {k \in L[d] : key[d][k] = v})]
  OBVIOUS
<1>5. PICK z : z = [d \in S |-> SumFunctionOnSet(tax[d], {k \in L[d] : key[d][k] = v})]
  OBVIOUS
<1>6. f \in Gst!Figures /\ "taxable" \in Gst!Figures
  BY DEF Taxes, Gst!Figures
<1>7. ASSUME NEW d \in S
      PROVE  y[d] \in Int /\ z[d] \in Int /\ x[d] = 200 * y[d] - c * z[d]
  <2>1. PICK G : G = {k \in DOMAIN Gst!LinesOf(D[d]) : PlaceKeys(S, D, place)[d][k] = Key(a, r, e)}
    OBVIOUS
  <2>2. PICK lines : lines = Gst!LinesOf(D[d])
    OBVIOUS
  <2>3. PICK ed, vd, td : ed = err[d] /\ vd = val[d] /\ td = tax[d]
    OBVIOUS
  <2>4. L[d] = DOMAIN lines /\ IsFiniteSet(DOMAIN lines) /\ G \subseteq DOMAIN lines
    BY <2>1, <2>2, LinesFacts
  <2>5. IsFiniteSet(G)
    BY <2>4, FS_Subset
  <2>6. x[d] = SumFunctionOnSet(ed, G) /\ y[d] = SumFunctionOnSet(vd, G) /\ z[d] = SumFunctionOnSet(td, G)
    BY <1>3, <1>4, <1>5, <2>1, <2>2, <2>3, <2>4
  <2>7. ASSUME NEW k \in G
        PROVE  vd[k] \in Int /\ td[k] \in Int /\ ed[k] = 200 * vd[k] - c * td[k]
    <3>1. vd[k] = lines[k][f] /\ vd[k] \in Nat /\ td[k] = lines[k].taxable /\ td[k] \in Nat
      <4>1. k \in DOMAIN Gst!LinesOf(D[d])
        BY <2>1
      <4>2. vd[k] = lines[k][f] /\ vd[k] \in Nat
        BY <1>1, <1>6, <2>2, <2>3, <4>1, LinesFacts
      <4>3. td[k] = lines[k]["taxable"] /\ td[k] \in Nat
        BY <1>1, <1>6, <2>2, <2>3, <4>1, LinesFacts
      <4>. QED  BY <4>2, <4>3
    <3>2. lines[k].gst = r /\ D[d].inter = e
      BY <2>1, <2>2, GroupOfRow
    <3>3. ed[k] = 200 * lines[k][f] - (Weight(f, D[d].inter) * lines[k].gst) * lines[k].taxable
      BY <1>1, <2>1, <2>2, <2>3, Zenon DEF Errors
    <3>4. ed[k] = 200 * vd[k] - c * td[k]
      BY <1>2, <3>1, <3>2, <3>3, Zenon
    <3>. QED  BY <3>1, <3>4
  <2>8. SumFunctionOnSet(ed, G) = 200 * SumFunctionOnSet(vd, G) - c * SumFunctionOnSet(td, G)
    BY <2>5, <2>7, SumWeighted
  <2>9. SumFunctionOnSet(vd, G) \in Int /\ SumFunctionOnSet(td, G) \in Int
    BY <2>5, <2>7, SumInt
  <2>. QED  BY <2>6, <2>8, <2>9
<1>8. IsFiniteSet(S)
  BY DEF Recorded
<1>9. SumFunctionOnSet(x, S) = 200 * SumFunctionOnSet(y, S) - c * SumFunctionOnSet(z, S)
  BY <1>7, <1>8, SumWeighted
<1>10. /\ RowOf(S, L, err, key, v) = SumFunctionOnSet(x, S) /\ RowOf(S, L, val, key, v) = SumFunctionOnSet(y, S)
       /\ RowOf(S, L, tax, key, v) = SumFunctionOnSet(z, S)
  BY <1>3, <1>4, <1>5 DEF RowOf
<1>. QED  BY <1>1, <1>2, <1>9, <1>10, Zenon

-----------------------------------------------------------------------------
(* The rows of b2cs of a month: what the small sales come to, and what the notes
   of unregistered customers do. *)
SalePlace == [i \in GstInvoices |-> Gst!PlaceOf(inv[i].party)]
NotePlace == [n \in GstNotes |-> "home"]
SaleKeys(t) == PlaceKeys(Gst!Small(t), inv, SalePlace)
NoteKeys(t) == PlaceKeys(Gst!SmallNotes(t), note, NotePlace)
SaleRow(t, f, k) == RowOf(Gst!Small(t), LinesIn(Gst!Small(t), inv), Values(Gst!Small(t), inv, f), SaleKeys(t), k)
NoteRow(t, f, k) ==
  RowOf(Gst!SmallNotes(t), LinesIn(Gst!SmallNotes(t), note), Values(Gst!SmallNotes(t), note, f), NoteKeys(t), k)

(* The sections are of documents on record.                                   *)
LEMMA SectionsRecorded ==
  ASSUME GstInv, NEW t
  PROVE  /\ Recorded(Gst!IssuedIn(t), inv) /\ Recorded(Gst!NotesIn(t), note)
         /\ Recorded(Gst!Small(t), inv) /\ Recorded(Gst!SmallNotes(t), note)
         /\ Recorded(Gst!B2b(t) \cup Gst!B2cl(t), inv) /\ Recorded(Gst!Cdnr(t), note)
<1>1. PICK I, N : I = Gst!IssuedIn(t) /\ N = Gst!NotesIn(t)
  OBVIOUS
<1>2. /\ IsFiniteSet(I) /\ \A i \in I : inv[i] \in GstRows
      /\ IsFiniteSet(N) /\ \A n \in N : note[n] \in GstRows
  BY <1>1, IssuedFacts
<1>3. Gst!Small(t) \in SUBSET I /\ Gst!B2b(t) \cup Gst!B2cl(t) \in SUBSET I
  BY <1>1 DEF Gst!Small, Gst!B2b, Gst!B2cl
<1>4. Gst!SmallNotes(t) \in SUBSET N /\ Gst!Cdnr(t) \in SUBSET N
  BY <1>1 DEF Gst!SmallNotes, Gst!Cdnr
<1>5. ASSUME NEW S \in SUBSET I  PROVE Recorded(S, inv)
  <2>1. IsFiniteSet(S)
    BY <1>2, FS_Subset
  <2>. QED  BY <1>2, <2>1 DEF Recorded
<1>6. ASSUME NEW S \in SUBSET N  PROVE Recorded(S, note)
  <2>1. IsFiniteSet(S)
    BY <1>2, FS_Subset
  <2>. QED  BY <1>2, <2>1 DEF Recorded
<1>. QED  BY <1>1, <1>3, <1>4, <1>5, <1>6

(* The keys of a document are finitely many, each a place, a rate and a kind.   *)
LEMMA KeysOfFacts ==
  ASSUME NEW S, NEW D, Recorded(S, D), NEW d \in S, NEW a
  PROVE  /\ IsFiniteSet(Gst!KeysOf(D[d], a))
         /\ \A k \in Gst!KeysOf(D[d], a) : \E r \in Nat : k = Key(a, r, D[d].inter)
         /\ \A l \in DOMAIN Gst!LinesOf(D[d]) :
              Key(a, Gst!LinesOf(D[d])[l].gst, D[d].inter) \in Gst!KeysOf(D[d], a)
<1>1. PICK e, R, lines : e = D[d].inter /\ R = Gst!RatesOf(Gst!LinesOf(D[d])) /\ lines = Gst!LinesOf(D[d])
  OBVIOUS
<1>2. PICK g : g = [r \in R |-> Key(a, r, e)]
  OBVIOUS
<1>3. Gst!KeysOf(D[d], a) = {Key(a, r, e) : r \in R}
  BY <1>1, Zenon DEF Gst!KeysOf, Key
<1>4. {Key(a, r, e) : r \in R} = {g[r] : r \in R}
  BY <1>2
<1>5. IsFiniteSet(R)
  BY <1>1, RatesFinite
<1>6. IsFiniteSet({g[r] : r \in R})
  BY <1>5, FiniteValues
<1>7. \A k \in DOMAIN lines : lines[k].gst \in R
  BY <1>1 DEF Gst!RatesOf
<1>8. \A r \in R : r \in Nat
  <2>1. D[d] \in GstRows
    BY DEF Recorded
  <2>2. \A k \in DOMAIN lines : LineRight(lines[k], D[d].inter)
    BY <1>1, <2>1, RowsRight
  <2>3. \A k \in DOMAIN lines : lines[k].gst \in Nat
    BY <2>2 DEF LineRight
  <2>. QED  BY <1>1, <2>3 DEF Gst!RatesOf
<1>. QED  BY <1>1, <1>3, <1>4, <1>6, <1>7, <1>8

(* So are those of a month, and every line of the section has one of them.     *)
LEMMA KeysFacts ==
  ASSUME GstInv, NEW t
  PROVE  /\ IsFiniteSet(Gst!Keys(t))
         /\ \A k \in Gst!Keys(t) : \E a, e : \E r \in Nat : k = Key(a, r, e)
         /\ Keyed(Gst!Small(t), inv, SaleKeys(t), Gst!Keys(t))
         /\ Keyed(Gst!SmallNotes(t), note, NoteKeys(t), Gst!Keys(t))
<1>1. PICK S, R : S = Gst!Small(t) /\ R = Gst!SmallNotes(t)
  OBVIOUS
<1>2. PICK g : g = [i \in S |-> Gst!KeysOf(inv[i], Gst!PlaceOf(inv[i].party))]
  OBVIOUS
<1>3. PICK h : h = [n \in R |-> Gst!KeysOf(note[n], "home")]
  OBVIOUS
<1>4. PICK A, B : A = {g[i] : i \in S} /\ B = {h[n] : n \in R}
  OBVIOUS
<1>5. Recorded(S, inv) /\ Recorded(R, note)
  BY <1>1, SectionsRecorded
<1>6. Gst!Keys(t) = UNION (A \cup B)
  <2>1. A = {Gst!KeysOf(inv[i], Gst!PlaceOf(inv[i].party)) : i \in S}
    BY <1>2, <1>4
  <2>2. B = {Gst!KeysOf(note[n], "home") : n \in R}
    BY <1>3, <1>4
  <2>. QED  BY <1>1, <2>1, <2>2, Zenon DEF Gst!Keys
<1>7. ASSUME NEW i \in S
      PROVE  /\ IsFiniteSet(g[i]) /\ \A k \in g[i] : \E a, e : \E r \in Nat : k = Key(a, r, e)
             /\ \A l \in DOMAIN Gst!LinesOf(inv[i]) : SaleKeys(t)[i][l] \in g[i]
  <2>1. PICK a : a = Gst!PlaceOf(inv[i].party)
    OBVIOUS
  <2>2. g[i] = Gst!KeysOf(inv[i], a)
    BY <1>2, <2>1
  <2>3. S \subseteq GstInvoices
    BY <1>1 DEF Gst!Small, Gst!IssuedIn
  <2>4. \A l \in DOMAIN Gst!LinesOf(inv[i]) : SaleKeys(t)[i][l] = Key(a, Gst!LinesOf(inv[i])[l].gst, inv[i].inter)
    BY <1>1, <2>1, <2>3 DEF SaleKeys, PlaceKeys, SalePlace
  <2>5. /\ IsFiniteSet(Gst!KeysOf(inv[i], a))
        /\ \A k \in Gst!KeysOf(inv[i], a) : \E r \in Nat : k = Key(a, r, inv[i].inter)
        /\ \A l \in DOMAIN Gst!LinesOf(inv[i]) :
             Key(a, Gst!LinesOf(inv[i])[l].gst, inv[i].inter) \in Gst!KeysOf(inv[i], a)
    BY <1>5, KeysOfFacts
  <2>. QED  BY <2>2, <2>4, <2>5
<1>8. ASSUME NEW n \in R
      PROVE  /\ IsFiniteSet(h[n]) /\ \A k \in h[n] : \E a, e : \E r \in Nat : k = Key(a, r, e)
             /\ \A l \in DOMAIN Gst!LinesOf(note[n]) : NoteKeys(t)[n][l] \in h[n]
  <2>1. PICK a : a = "home"
    OBVIOUS
  <2>2. h[n] = Gst!KeysOf(note[n], a)
    BY <1>3, <2>1
  <2>3. R \subseteq GstNotes
    BY <1>1 DEF Gst!SmallNotes, Gst!NotesIn
  <2>4. \A l \in DOMAIN Gst!LinesOf(note[n]) : NoteKeys(t)[n][l] = Key(a, Gst!LinesOf(note[n])[l].gst, note[n].inter)
    BY <1>1, <2>1, <2>3 DEF NoteKeys, PlaceKeys, NotePlace
  <2>5. /\ IsFiniteSet(Gst!KeysOf(note[n], a))
        /\ \A k \in Gst!KeysOf(note[n], a) : \E r \in Nat : k = Key(a, r, note[n].inter)
        /\ \A l \in DOMAIN Gst!LinesOf(note[n]) :
             Key(a, Gst!LinesOf(note[n])[l].gst, note[n].inter) \in Gst!KeysOf(note[n], a)
    BY <1>5, KeysOfFacts
  <2>. QED  BY <2>2, <2>4, <2>5
<1>9. IsFiniteSet(A \cup B)
  <2>1. IsFiniteSet(S) /\ IsFiniteSet(R)
    BY <1>5 DEF Recorded
  <2>2. IsFiniteSet({g[i] : i \in S})
    BY <2>1, FiniteValues
  <2>3. IsFiniteSet({h[n] : n \in R})
    BY <2>1, FiniteValues
  <2>. QED  BY <1>4, <2>2, <2>3, FS_Union
<1>10. \A s \in A \cup B : IsFiniteSet(s)
  BY <1>4, <1>7, <1>8
<1>11. IsFiniteSet(UNION (A \cup B))
  BY <1>9, <1>10, FS_UNION
<1>12. \A k \in UNION (A \cup B) : \E a, e : \E r \in Nat : k = Key(a, r, e)
  BY <1>4, <1>7, <1>8
<1>13. \A i \in S : g[i] \subseteq UNION (A \cup B)
  BY <1>4
<1>14. \A n \in R : h[n] \subseteq UNION (A \cup B)
  BY <1>4
<1>15. Keyed(S, inv, SaleKeys(t), UNION (A \cup B)) /\ Keyed(R, note, NoteKeys(t), UNION (A \cup B))
  BY <1>7, <1>8, <1>13, <1>14 DEF Keyed
<1>. QED  BY <1>1, <1>6, <1>11, <1>12, <1>15

(* A row is what was sold less what came back.                                 *)
LEMMA RowIs ==
  ASSUME GstInv, NEW t, NEW a, NEW r, NEW e, NEW f \in Gst!Figures
  PROVE  Gst!Row(t, Key(a, r, e), f) = SaleRow(t, f, Key(a, r, e)) - NoteRow(t, f, Key(a, r, e))
<1>1. PICK S, R : S = Gst!Small(t) /\ R = Gst!SmallNotes(t)
  OBVIOUS
<1>2. PICK sold : sold = {i \in S : SalePlace[i] = a /\ inv[i].inter = e}
  OBVIOUS
<1>3. PICK returned : returned = {n \in R : NotePlace[n] = a /\ note[n].inter = e}
  OBVIOUS
<1>4. PICK k : k = Key(a, r, e)
  OBVIOUS
<1>5. k.place = a /\ k.rate = r /\ k.inter = e
  BY <1>4 DEF Key
<1>6. sold = {i \in S : Gst!PlaceOf(inv[i].party) = k.place /\ inv[i].inter = k.inter}
  <2>1. S \subseteq GstInvoices
    BY <1>1 DEF Gst!Small, Gst!IssuedIn
  <2>. QED  BY <1>2, <1>5, <2>1 DEF SalePlace
<1>7. returned = {n \in R : k.place = "home" /\ note[n].inter = k.inter}
  <2>1. R \subseteq GstNotes
    BY <1>1 DEF Gst!SmallNotes, Gst!NotesIn
  <2>. QED  BY <1>3, <1>5, <2>1 DEF NotePlace
<1>8. Gst!Row(t, k, f) = Gst!Total([i \in sold |-> Gst!InRate(Gst!LinesOf(inv[i]), k.rate, f)])
                           - Gst!Total([n \in returned |-> Gst!InRate(Gst!LinesOf(note[n]), k.rate, f)])
  BY <1>1, <1>6, <1>7, Zenon DEF Gst!Row
<1>9. Recorded(S, inv) /\ Recorded(R, note)
  BY <1>1, SectionsRecorded
<1>10. Gst!Total([i \in sold |-> Gst!InRate(Gst!LinesOf(inv[i]), r, f)]) = SaleRow(t, f, k)
  <2>1. Gst!Total([i \in sold |-> Gst!InRate(Gst!LinesOf(inv[i]), r, f)])
          = RowOf(S, LinesIn(S, inv), Values(S, inv, f), PlaceKeys(S, inv, SalePlace), Key(a, r, e))
    BY <1>2, <1>9, CellIsRow
  <2>. QED  BY <1>1, <1>4, <2>1, Zenon DEF SaleRow, SaleKeys
<1>11. Gst!Total([n \in returned |-> Gst!InRate(Gst!LinesOf(note[n]), r, f)]) = NoteRow(t, f, k)
  <2>1. Gst!Total([n \in returned |-> Gst!InRate(Gst!LinesOf(note[n]), r, f)])
          = RowOf(R, LinesIn(R, note), Values(R, note, f), PlaceKeys(R, note, NotePlace), Key(a, r, e))
    BY <1>3, <1>9, CellIsRow
  <2>. QED  BY <1>1, <1>4, <2>1, Zenon DEF NoteRow, NoteKeys
<1>12. Gst!Row(t, k, f) = SaleRow(t, f, k) - NoteRow(t, f, k)
  BY <1>5, <1>8, <1>10, <1>11
<1>. QED  BY <1>4, <1>12, Zenon

(* Documents of two sections declare together what each does.                 *)
LEMMA DeclaredTogether ==
  ASSUME NEW S, NEW R, NEW D, Recorded(S, D), Recorded(R, D), S \cap R = {}, NEW f \in Gst!Figures
  PROVE  Declared(S \cup R, D, f) = Declared(S, D, f) + Declared(R, D, f)
<1>1. PICK g : g = [d \in S \cup R |-> Gst!SumsOf(D[d])[f]]
  OBVIOUS
<1>2. PICK x : x = [d \in S |-> Gst!SumsOf(D[d])[f]]
  OBVIOUS
<1>3. PICK y : y = [d \in R |-> Gst!SumsOf(D[d])[f]]
  OBVIOUS
<1>4. IsFiniteSet(S) /\ IsFiniteSet(R)
  BY DEF Recorded
<1>5. \A d \in S \cup R : g[d] \in Int
  <2>. SUFFICES ASSUME NEW d \in S \cup R  PROVE g[d] \in Int
    OBVIOUS
  <2>1. D[d] \in GstRows
    BY DEF Recorded
  <2>2. Gst!SumsOf(D[d])[f] \in Nat
    BY <2>1, RowsRight
  <2>. QED  BY <1>1, <2>2
<1>6. SumFunctionOnSet(g, S \cup R) = SumFunctionOnSet(g, S) + SumFunctionOnSet(g, R)
  BY <1>4, <1>5, SumUnion
<1>7. \A d \in S : g[d] = x[d]
  BY <1>1, <1>2
<1>8. \A d \in R : g[d] = y[d]
  BY <1>1, <1>3
<1>9. SumFunctionOnSet(g, S) = SumFunctionOnSet(x, S)
  BY <1>4, <1>7, SumSame
<1>10. SumFunctionOnSet(g, R) = SumFunctionOnSet(y, R)
  BY <1>4, <1>8, SumSame
<1>. QED  BY <1>1, <1>2, <1>3, <1>6, <1>9, <1>10 DEF Declared

(* A sale is in one section, and so is a note.                                *)
LEMMA OneSection ==
  ASSUME GstInv, NEW t, NEW f \in Gst!Figures
  PROVE  /\ Declared(Gst!IssuedIn(t), inv, f)
              = Declared(Gst!B2b(t) \cup Gst!B2cl(t), inv, f) + Declared(Gst!Small(t), inv, f)
         /\ Declared(Gst!NotesIn(t), note, f)
              = Declared(Gst!Cdnr(t), note, f) + Declared(Gst!SmallNotes(t), note, f)
<1>1. PICK B, S : B = Gst!B2b(t) \cup Gst!B2cl(t) /\ S = Gst!Small(t)
  OBVIOUS
<1>2. PICK C, R : C = Gst!Cdnr(t) /\ R = Gst!SmallNotes(t)
  OBVIOUS
<1>3. Recorded(B, inv) /\ Recorded(S, inv) /\ Recorded(C, note) /\ Recorded(R, note)
  BY <1>1, <1>2, SectionsRecorded
<1>4. \A i : Gst!IsB2cl(i) => inv[i].party \notin gstin
  BY DEF Gst!IsB2cl
<1>5. Gst!IssuedIn(t) = B \cup S /\ B \cap S = {}
  BY <1>1, <1>4 DEF Gst!B2b, Gst!B2cl, Gst!Small
<1>6. Gst!NotesIn(t) = C \cup R /\ C \cap R = {}
  BY <1>2 DEF Gst!Cdnr, Gst!SmallNotes
<1>7. Declared(B \cup S, inv, f) = Declared(B, inv, f) + Declared(S, inv, f)
  BY <1>3, <1>5, DeclaredTogether
<1>8. Declared(C \cup R, note, f) = Declared(C, note, f) + Declared(R, note, f)
  BY <1>3, <1>6, DeclaredTogether
<1>. QED  BY <1>1, <1>2, <1>5, <1>6, <1>7, <1>8

(* The rows of a month are what the small sales declare less their notes.      *)
LEMMA RowsAddUp ==
  ASSUME GstInv, NEW t, NEW f \in Gst!Figures, NEW rows, \A k \in Gst!Keys(t) : rows[k] = Gst!Row(t, k, f)
  PROVE  /\ \A k \in Gst!Keys(t) : rows[k] \in Int
         /\ SumFunctionOnSet(rows, Gst!Keys(t))
              = Declared(Gst!Small(t), inv, f) - Declared(Gst!SmallNotes(t), note, f)
<1>1. PICK K, S, R : K = Gst!Keys(t) /\ S = Gst!Small(t) /\ R = Gst!SmallNotes(t)
  OBVIOUS
<1>2. PICK x : x = [k \in K |-> SaleRow(t, f, k)]
  OBVIOUS
<1>3. PICK y : y = [k \in K |-> NoteRow(t, f, k)]
  OBVIOUS
<1>4. PICK p, q : p = SaleKeys(t) /\ q = NoteKeys(t)
  OBVIOUS
<1>5. Recorded(S, inv) /\ Recorded(R, note)
  BY <1>1, SectionsRecorded
<1>6. IsFiniteSet(K) /\ Keyed(S, inv, p, K) /\ Keyed(R, note, q, K)
  BY <1>1, <1>4, KeysFacts
<1>7. SumFunctionOnSet(x, K) = Declared(S, inv, f) /\ \A k \in K : x[k] \in Int
  <2>1. \A k \in K : x[k] = RowOf(S, LinesIn(S, inv), Values(S, inv, f), p, k)
    BY <1>1, <1>2, <1>4 DEF SaleRow
  <2>. QED  BY <1>5, <1>6, <2>1, TableAddsUp
<1>8. SumFunctionOnSet(y, K) = Declared(R, note, f) /\ \A k \in K : y[k] \in Int
  <2>1. \A k \in K : y[k] = RowOf(R, LinesIn(R, note), Values(R, note, f), q, k)
    BY <1>1, <1>3, <1>4 DEF NoteRow
  <2>. QED  BY <1>5, <1>6, <2>1, TableAddsUp
<1>9. ASSUME NEW k \in K  PROVE rows[k] = x[k] - y[k]
  <2>1. \E a, e : \E r \in Nat : k = Key(a, r, e)
    BY <1>1, KeysFacts
  <2>2. PICK a, e : \E r \in Nat : k = Key(a, r, e)
    BY <2>1
  <2>3. PICK r \in Nat : k = Key(a, r, e)
    BY <2>2
  <2>4. Gst!Row(t, Key(a, r, e), f) = SaleRow(t, f, Key(a, r, e)) - NoteRow(t, f, Key(a, r, e))
    BY RowIs
  <2>. QED  BY <1>1, <1>2, <1>3, <2>3, <2>4
<1>10. SumFunctionOnSet(rows, K) = SumFunctionOnSet(x, K) - SumFunctionOnSet(y, K)
  BY <1>6, <1>7, <1>8, <1>9, SumMinus
<1>. QED  BY <1>1, <1>7, <1>8, <1>9, <1>10

(* The sections with the odd rows are what is declared; of the taxable value the odd
   rows are nothing. *)
LEMMA SectionsDeclare ==
  ASSUME GstInv, NEW t, NEW f \in Gst!Figures, NEW odd,
         odd = Gst!Total([k \in Gst!Keys(t) \ Gst!B2cs(t) |-> Gst!Row(t, k, f)])
  PROVE  /\ Gst!Sections(t, f) + odd = Gst!Outward(t, f)
         /\ f = "taxable" => Gst!Sections(t, f) = Gst!Outward(t, f)
<1>1. PICK K, B : K = Gst!Keys(t) /\ B = Gst!B2cs(t)
  OBVIOUS
<1>2. PICK rows : rows = [k \in K |-> Gst!Row(t, k, f)]
  OBVIOUS
<1>3. PICK shown : shown = [k \in B |-> Gst!Row(t, k, f)]
  OBVIOUS
<1>4. PICK hidden : hidden = [k \in K \ B |-> Gst!Row(t, k, f)]
  OBVIOUS
<1>5. B = {k \in K : Gst!Row(t, k, "taxable") # 0}
  BY <1>1 DEF Gst!B2cs
<1>6. IsFiniteSet(K)
  BY <1>1, KeysFacts
<1>7. IsFiniteSet(B) /\ IsFiniteSet(K \ B)
  BY <1>5, <1>6, FS_Subset
<1>8. /\ \A k \in K : rows[k] \in Int
      /\ SumFunctionOnSet(rows, K) = Declared(Gst!Small(t), inv, f) - Declared(Gst!SmallNotes(t), note, f)
  BY <1>1, <1>2, RowsAddUp
<1>9. SumFunctionOnSet(rows, K) = SumFunctionOnSet(rows, B) + SumFunctionOnSet(rows, K \ B)
  <2>1. B \cup (K \ B) = K /\ B \cap (K \ B) = {}
    BY <1>5
  <2>. QED  BY <1>7, <1>8, <2>1, SumUnion
<1>10. SumFunctionOnSet(rows, B) = Gst!Total(shown)
  <2>1. \A k \in B : rows[k] = shown[k]
    BY <1>2, <1>3, <1>5
  <2>2. SumFunctionOnSet(rows, B) = SumFunctionOnSet(shown, B)
    BY <1>7, <2>1, SumSame
  <2>3. Gst!Total(shown) = SumFunctionOnSet(shown, B)
    BY <1>3, GstTotals
  <2>. QED  BY <2>2, <2>3
<1>11. SumFunctionOnSet(rows, K \ B) = odd
  <2>1. \A k \in K \ B : rows[k] = hidden[k]
    BY <1>2, <1>4
  <2>2. SumFunctionOnSet(rows, K \ B) = SumFunctionOnSet(hidden, K \ B)
    BY <1>7, <2>1, SumSame
  <2>3. Gst!Total(hidden) = SumFunctionOnSet(hidden, K \ B)
    BY <1>4, GstTotals
  <2>. QED  BY <1>1, <1>4, <2>2, <2>3
<1>12. PICK x, y : x = Declared(Gst!B2b(t) \cup Gst!B2cl(t), inv, f) /\ y = Declared(Gst!Cdnr(t), note, f)
  OBVIOUS
<1>13. Gst!Sections(t, f) = x + Gst!Total(shown) - y
  <2>1. Gst!Total([i \in Gst!B2b(t) \cup Gst!B2cl(t) |-> Gst!Itms(inv[i], f)]) = x
    BY <1>12, SectionsRecorded, ItmsDeclared
  <2>2. Gst!Total([n \in Gst!Cdnr(t) |-> Gst!Itms(note[n], f)]) = y
    BY <1>12, SectionsRecorded, ItmsDeclared
  <2>. QED  BY <1>1, <1>3, <2>1, <2>2, Zenon DEF Gst!Sections
<1>14. Gst!Outward(t, f) = Declared(Gst!IssuedIn(t), inv, f) - Declared(Gst!NotesIn(t), note, f)
  BY OutwardIs
<1>15. /\ Declared(Gst!IssuedIn(t), inv, f) = x + Declared(Gst!Small(t), inv, f)
       /\ Declared(Gst!NotesIn(t), note, f) = y + Declared(Gst!SmallNotes(t), note, f)
  BY <1>12, OneSection
<1>16. /\ x \in Int /\ y \in Int /\ Declared(Gst!Small(t), inv, f) \in Int
       /\ Declared(Gst!SmallNotes(t), note, f) \in Int
  BY <1>12, SectionsRecorded, DeclaredFacts DEF Recorded
<1>17. SumFunctionOnSet(rows, B) \in Int /\ SumFunctionOnSet(rows, K \ B) \in Int
  <2>1. \A k \in B : rows[k] \in Int
    BY <1>5, <1>8
  <2>2. SumFunctionOnSet(rows, B) \in Int
    BY <1>7, <2>1, SumInt
  <2>3. SumFunctionOnSet(rows, K \ B) \in Int
    BY <1>7, <1>8, SumInt
  <2>. QED  BY <2>2, <2>3
<1>18. Gst!Sections(t, f) + odd = Gst!Outward(t, f) /\ odd \in Int
  BY <1>8, <1>9, <1>10, <1>11, <1>13, <1>14, <1>15, <1>16, <1>17
<1>19. f = "taxable" => SumFunctionOnSet(rows, K \ B) = 0
  <2>1. f = "taxable" => \A k \in K \ B : rows[k] = 0
    BY <1>2, <1>5
  <2>. QED  BY <1>7, <2>1, SumZero
<1>20. Gst!Sections(t, f) \in Int
  BY <1>10, <1>13, <1>16, <1>17
<1>. QED  BY <1>11, <1>18, <1>19, <1>20

(* Rows are numbers of paise.                                                 *)
LEMMA RowFacts ==
  ASSUME GstInv, NEW t, NEW f \in Gst!Figures, NEW k \in Gst!Keys(t)
  PROVE  /\ SaleRow(t, f, k) \in Int /\ NoteRow(t, f, k) \in Int
         /\ Gst!Row(t, k, f) = SaleRow(t, f, k) - NoteRow(t, f, k)
<1>1. PICK K, S, R : K = Gst!Keys(t) /\ S = Gst!Small(t) /\ R = Gst!SmallNotes(t)
  OBVIOUS
<1>2. PICK x : x = [v \in K |-> SaleRow(t, f, v)]
  OBVIOUS
<1>3. PICK y : y = [v \in K |-> NoteRow(t, f, v)]
  OBVIOUS
<1>4. PICK p, q : p = SaleKeys(t) /\ q = NoteKeys(t)
  OBVIOUS
<1>5. Recorded(S, inv) /\ Recorded(R, note)
  BY <1>1, SectionsRecorded
<1>6. IsFiniteSet(K) /\ Keyed(S, inv, p, K) /\ Keyed(R, note, q, K)
  BY <1>1, <1>4, KeysFacts
<1>7. \A v \in K : x[v] \in Int
  <2>1. \A v \in K : x[v] = RowOf(S, LinesIn(S, inv), Values(S, inv, f), p, v)
    BY <1>1, <1>2, <1>4 DEF SaleRow
  <2>. QED  BY <1>5, <1>6, <2>1, TableAddsUp
<1>8. \A v \in K : y[v] \in Int
  <2>1. \A v \in K : y[v] = RowOf(R, LinesIn(R, note), Values(R, note, f), q, v)
    BY <1>1, <1>3, <1>4 DEF NoteRow
  <2>. QED  BY <1>5, <1>6, <2>1, TableAddsUp
<1>9. Gst!Row(t, k, f) = SaleRow(t, f, k) - NoteRow(t, f, k)
  <2>1. \E a, e : \E r \in Nat : k = Key(a, r, e)
    BY KeysFacts
  <2>2. PICK a, e : \E r \in Nat : k = Key(a, r, e)
    BY <2>1
  <2>3. PICK r \in Nat : k = Key(a, r, e)
    BY <2>2
  <2>4. Gst!Row(t, Key(a, r, e), f) = SaleRow(t, f, Key(a, r, e)) - NoteRow(t, f, Key(a, r, e))
    BY RowIs
  <2>. QED  BY <2>3, <2>4
<1>. QED  BY <1>1, <1>2, <1>3, <1>7, <1>8, <1>9

(* What the tax of a row is off its rate, and that it is all there is to a row without
   a value. *)
SaleError(t, f, k) ==
  RowOf(Gst!Small(t), LinesIn(Gst!Small(t), inv), Errors(Gst!Small(t), inv, f), SaleKeys(t), k)
NoteError(t, f, k) ==
  RowOf(Gst!SmallNotes(t), LinesIn(Gst!SmallNotes(t), note), Errors(Gst!SmallNotes(t), note, f), NoteKeys(t), k)

(* The tax of a row without a value is what sales are off less what notes are
   off. *)
LEMMA OddRow ==
  ASSUME GstInv, NEW t, NEW f \in Taxes, NEW k \in Gst!Keys(t), Gst!Row(t, k, "taxable") = 0
  PROVE  /\ SaleError(t, f, k) \in Int /\ NoteError(t, f, k) \in Int /\ Gst!Row(t, k, f) \in Int
         /\ 200 * Gst!Row(t, k, f) = SaleError(t, f, k) - NoteError(t, f, k)
<1>1. \E a, e : \E r \in Nat : k = Key(a, r, e)
  BY KeysFacts
<1>2. PICK a, e : \E r \in Nat : k = Key(a, r, e)
  BY <1>1
<1>3. PICK r \in Nat : k = Key(a, r, e)
  BY <1>2
<1>4. PICK S, R : S = Gst!Small(t) /\ R = Gst!SmallNotes(t)
  OBVIOUS
<1>5. Recorded(S, inv) /\ Recorded(R, note)
  BY <1>4, SectionsRecorded
<1>6. PICK L, p : L = LinesIn(S, inv) /\ p = SaleKeys(t)
  OBVIOUS
<1>7. PICK M, q : M = LinesIn(R, note) /\ q = NoteKeys(t)
  OBVIOUS
<1>8. p = PlaceKeys(S, inv, SalePlace) /\ q = PlaceKeys(R, note, NotePlace)
  BY <1>4, <1>6, <1>7 DEF SaleKeys, NoteKeys
<1>9. PICK c \in Int : c = Weight(f, e) * r
  BY DEF Weight
<1>10. f \in Gst!Figures /\ "taxable" \in Gst!Figures
  BY DEF Taxes, Gst!Figures
<1>11. SaleError(t, f, k) = 200 * SaleRow(t, f, k) - c * SaleRow(t, "taxable", k)
  <2>1. RowOf(S, L, Errors(S, inv, f), p, k)
           = 200 * RowOf(S, L, Values(S, inv, f), p, k)
             - (Weight(f, e) * r) * RowOf(S, L, Values(S, inv, "taxable"), p, k)
    BY <1>3, <1>5, <1>6, <1>8, RowError
  <2>. QED  BY <1>4, <1>6, <1>9, <2>1, Zenon DEF SaleError, SaleRow
<1>12. NoteError(t, f, k) = 200 * NoteRow(t, f, k) - c * NoteRow(t, "taxable", k)
  <2>1. RowOf(R, M, Errors(R, note, f), q, k)
           = 200 * RowOf(R, M, Values(R, note, f), q, k)
             - (Weight(f, e) * r) * RowOf(R, M, Values(R, note, "taxable"), q, k)
    BY <1>3, <1>5, <1>7, <1>8, RowError
  <2>. QED  BY <1>4, <1>7, <1>9, <2>1, Zenon DEF NoteError, NoteRow
<1>13. /\ SaleRow(t, f, k) \in Int /\ NoteRow(t, f, k) \in Int
       /\ Gst!Row(t, k, f) = SaleRow(t, f, k) - NoteRow(t, f, k)
  BY <1>10, RowFacts
<1>14. /\ SaleRow(t, "taxable", k) \in Int /\ NoteRow(t, "taxable", k) \in Int
       /\ Gst!Row(t, k, "taxable") = SaleRow(t, "taxable", k) - NoteRow(t, "taxable", k)
  BY <1>10, RowFacts
<1>15. SaleRow(t, "taxable", k) = NoteRow(t, "taxable", k)
  BY <1>14
<1>16. PICK z \in Int : z = c * SaleRow(t, "taxable", k)
  BY <1>14
<1>17. SaleError(t, f, k) = 200 * SaleRow(t, f, k) - z /\ NoteError(t, f, k) = 200 * NoteRow(t, f, k) - z
  BY <1>11, <1>12, <1>15, <1>16
<1>. QED  BY <1>13, <1>17

(* The lines of a section are not more than those of the month.                *)
LEMMA LinesOfPart ==
  ASSUME NEW I, NEW D, Recorded(I, D), NEW S \in SUBSET I,
         NEW f, f = [d \in S |-> Len(Gst!LinesOf(D[d]))],
         NEW g, g = [d \in I |-> Len(Gst!LinesOf(D[d]))]
  PROVE  /\ SumFunctionOnSet(f, S) \in Nat /\ Gst!Total(g) \in Nat
         /\ SumFunctionOnSet(f, S) <= Gst!Total(g)
<1>1. IsFiniteSet(I) /\ IsFiniteSet(S) /\ IsFiniteSet(I \ S)
  BY FS_Subset DEF Recorded
<1>2. \A d \in I : g[d] \in Nat
  BY LinesFacts
<1>3. SumFunctionOnSet(g, S \cup (I \ S)) = SumFunctionOnSet(g, S) + SumFunctionOnSet(g, I \ S)
  <2>1. S \cap (I \ S) = {} /\ \A d \in S \cup (I \ S) : g[d] \in Int
    BY <1>2
  <2>. QED  BY <1>1, <2>1, SumUnion
<1>4. SumFunctionOnSet(g, S) \in Nat /\ SumFunctionOnSet(g, I \ S) \in Nat
  <2>1. SumFunctionOnSet(g, S) \in Nat
    BY <1>1, <1>2, SumNat
  <2>2. SumFunctionOnSet(g, I \ S) \in Nat
    BY <1>1, <1>2, SumNat
  <2>. QED  BY <2>1, <2>2
<1>5. SumFunctionOnSet(f, S) = SumFunctionOnSet(g, S)
  <2>1. \A d \in S : f[d] = g[d]
    OBVIOUS
  <2>. QED  BY <1>1, <2>1, SumSame
<1>6. Gst!Total(g) = SumFunctionOnSet(g, I)
  BY GstTotals
<1>7. SumFunctionOnSet(g, I) = SumFunctionOnSet(g, S) + SumFunctionOnSet(g, I \ S)
  <2>1. S \cup (I \ S) = I
    OBVIOUS
  <2>. QED  BY <1>3, <2>1, Zenon
<1>. QED  BY <1>4, <1>5, <1>6, <1>7

(* The errors of some rows: three quarters of a paisa at most for every line. *)
LEMMA ErrorsOfRows ==
  ASSUME NEW S, NEW D, Recorded(S, D), NEW V, IsFiniteSet(V), NEW key, Keyed(S, D, key, V), NEW f \in Taxes,
         NEW W \in SUBSET V, NEW x, \A k \in W : x[k] = RowOf(S, LinesIn(S, D), Errors(S, D, f), key, k),
         NEW len, len = [d \in S |-> Len(Gst!LinesOf(D[d]))]
  PROVE  /\ - (150 * SumFunctionOnSet(len, S)) <= SumFunctionOnSet(x, W)
         /\ SumFunctionOnSet(x, W) <= 150 * SumFunctionOnSet(len, S)
<1>1. PICK L, err : L = LinesIn(S, D) /\ err = Errors(S, D, f)
  OBVIOUS
<1>2. IsFiniteSet(S)
  BY DEF Recorded
<1>3. Lined(S, L, V, err, key) /\ \A d \in S : \A l \in L[d] : -150 <= err[d][l] /\ err[d][l] <= 150
  BY <1>1, ErrorsBounded
<1>4. LinesAre(len, S, L)
  BY <1>1, LinesFacts DEF LinesAre
<1>5. RowsAre(x, W, S, L, err, key)
  BY <1>1 DEF RowsAre
<1>6. PICK c \in Nat : c = 150
  OBVIOUS
<1>7. LinesWithin(S, L, err, c)
  BY <1>3, <1>6 DEF LinesWithin
<1>8. Lined(S, L, V, err, key)
  BY <1>3
<1>9. /\ - (c * SumFunctionOnSet(len, S)) <= SumFunctionOnSet(x, W)
      /\ SumFunctionOnSet(x, W) <= c * SumFunctionOnSet(len, S)
      /\ SumFunctionOnSet(len, S) \in Nat
  BY <1>2, <1>4, <1>5, <1>7, <1>8, RowsWithin
<1>. QED  BY <1>6, <1>9

(* The tax of the odd rows: rounding, of the lines there are.                  *)
LEMMA OddPaiseBound ==
  ASSUME GstInv, NEW t, NEW f \in Taxes, NEW odd,
         odd = Gst!Total([k \in Gst!Keys(t) \ Gst!B2cs(t) |-> Gst!Row(t, k, f)])
  PROVE  odd \in (- Gst!OddPaise(t))..Gst!OddPaise(t)
<1>1. PICK K, W : K = Gst!Keys(t) /\ W = Gst!Keys(t) \ Gst!B2cs(t)
  OBVIOUS
<1>2. PICK S, R : S = Gst!Small(t) /\ R = Gst!SmallNotes(t)
  OBVIOUS
<1>3. PICK hidden : hidden = [k \in W |-> Gst!Row(t, k, f)]
  OBVIOUS
<1>4. PICK g : g = [k \in W |-> 200 * hidden[k]]
  OBVIOUS
<1>5. PICK x : x = [k \in W |-> SaleError(t, f, k)]
  OBVIOUS
<1>6. PICK y : y = [k \in W |-> NoteError(t, f, k)]
  OBVIOUS
<1>7. PICK sold : sold = [i \in S |-> Len(Gst!LinesOf(inv[i]))]
  OBVIOUS
<1>8. PICK back : back = [n \in R |-> Len(Gst!LinesOf(note[n]))]
  OBVIOUS
<1>9. PICK p, q : p = SaleKeys(t) /\ q = NoteKeys(t)
  OBVIOUS
<1>10. Recorded(S, inv) /\ Recorded(R, note) /\ W \in SUBSET K
  BY <1>1, <1>2, SectionsRecorded
<1>11. IsFiniteSet(K) /\ IsFiniteSet(W) /\ Keyed(S, inv, p, K) /\ Keyed(R, note, q, K)
  BY <1>1, <1>2, <1>9, KeysFacts, FS_Subset
<1>12. ASSUME NEW k \in W
       PROVE  hidden[k] \in Int /\ g[k] = 200 * hidden[k] /\ x[k] \in Int /\ y[k] \in Int /\ g[k] = x[k] - y[k]
  <2>1. Gst!Row(t, k, "taxable") = 0
    BY <1>1 DEF Gst!B2cs
  <2>2. /\ SaleError(t, f, k) \in Int /\ NoteError(t, f, k) \in Int /\ Gst!Row(t, k, f) \in Int
        /\ 200 * Gst!Row(t, k, f) = SaleError(t, f, k) - NoteError(t, f, k)
    BY <1>1, <2>1, OddRow
  <2>. QED  BY <1>3, <1>4, <1>5, <1>6, <2>2
<1>13. SumFunctionOnSet(hidden, W) \in Int
  BY <1>11, <1>12, SumInt
<1>14. SumFunctionOnSet(x, W) \in Int
  BY <1>11, <1>12, SumInt
<1>15. SumFunctionOnSet(y, W) \in Int
  BY <1>11, <1>12, SumInt
<1>16. SumFunctionOnSet(g, W) = 200 * SumFunctionOnSet(hidden, W)
  <2>1. PICK c \in Int : c = 200
    OBVIOUS
  <2>2. \A k \in W : hidden[k] \in Int /\ g[k] = c * hidden[k]
    BY <1>12, <2>1
  <2>3. SumFunctionOnSet(g, W) = c * SumFunctionOnSet(hidden, W)
    BY <1>11, <2>2, SumTimes
  <2>. QED  BY <2>1, <2>3
<1>17. SumFunctionOnSet(g, W) = SumFunctionOnSet(x, W) - SumFunctionOnSet(y, W)
  BY <1>11, <1>12, SumMinus
<1>18. /\ - (150 * SumFunctionOnSet(sold, S)) <= SumFunctionOnSet(x, W)
       /\ SumFunctionOnSet(x, W) <= 150 * SumFunctionOnSet(sold, S)
  <2>1. \A k \in W : x[k] = RowOf(S, LinesIn(S, inv), Errors(S, inv, f), p, k)
    BY <1>2, <1>5, <1>9 DEF SaleError
  <2>. QED  BY <1>7, <1>10, <1>11, <2>1, ErrorsOfRows
<1>19. /\ - (150 * SumFunctionOnSet(back, R)) <= SumFunctionOnSet(y, W)
       /\ SumFunctionOnSet(y, W) <= 150 * SumFunctionOnSet(back, R)
  <2>1. \A k \in W : y[k] = RowOf(R, LinesIn(R, note), Errors(R, note, f), q, k)
    BY <1>2, <1>6, <1>9 DEF NoteError
  <2>. QED  BY <1>8, <1>10, <1>11, <2>1, ErrorsOfRows
<1>20. PICK I, N : I = Gst!IssuedIn(t) /\ N = Gst!NotesIn(t)
  OBVIOUS
<1>21. PICK a : a = [i \in I |-> Len(Gst!LinesOf(inv[i]))]
  OBVIOUS
<1>22. PICK b : b = [n \in N |-> Len(Gst!LinesOf(note[n]))]
  OBVIOUS
<1>23. Recorded(I, inv) /\ Recorded(N, note) /\ S \in SUBSET I /\ R \in SUBSET N
  <2>1. S \in SUBSET I /\ R \in SUBSET N
    BY <1>2, <1>20 DEF Gst!Small, Gst!SmallNotes
  <2>. QED  BY <1>20, <2>1, SectionsRecorded
<1>24. SumFunctionOnSet(sold, S) \in Nat /\ Gst!Total(a) \in Nat /\ SumFunctionOnSet(sold, S) <= Gst!Total(a)
  BY <1>7, <1>21, <1>23, LinesOfPart
<1>25. SumFunctionOnSet(back, R) \in Nat /\ Gst!Total(b) \in Nat /\ SumFunctionOnSet(back, R) <= Gst!Total(b)
  BY <1>8, <1>22, <1>23, LinesOfPart
<1>26. Gst!LineCount(t) = Gst!Total(a) + Gst!Total(b)
  BY <1>20, <1>21, <1>22, Zenon DEF Gst!LineCount
<1>27. PICK m \in Nat : m = Gst!LineCount(t)
  BY <1>24, <1>25, <1>26
<1>28. Gst!Total(hidden) = SumFunctionOnSet(hidden, W)
  BY <1>3, GstTotals
<1>29. odd = SumFunctionOnSet(hidden, W)
  BY <1>1, <1>3, <1>28
<1>30. -(150 * m) <= 200 * odd /\ 200 * odd <= 150 * m /\ odd \in Int
  BY <1>13, <1>14, <1>15, <1>16, <1>17, <1>18, <1>19, <1>24, <1>25, <1>26, <1>27, <1>29
<1>31. PICK z \in Int : z = (3 * m) \div 4
  OBVIOUS
<1>32. - z <= odd /\ odd <= z
  BY <1>30, <1>31
<1>33. Gst!OddPaise(t) = z
  BY <1>27, <1>31 DEF Gst!OddPaise
<1>. QED  BY <1>30, <1>32, <1>33

(* Every sale and every note is in one section of GSTR-1, and the sections come to the
   return but for rounding. *)
LEMMA SectionsAreReturn ==
  ASSUME GstInv
  PROVE  Gst!SectionsTieReturn
<1>. SUFFICES ASSUME NEW t \in Periods
     PROVE  /\ Gst!Sections(t, "taxable") = Gst!Outward(t, "taxable")
            /\ \A f \in Gst!Figures \ {"taxable"} :
                 LET odd == Gst!Total([k \in Gst!Keys(t) \ Gst!B2cs(t) |-> Gst!Row(t, k, f)])
                 IN Gst!Sections(t, f) + odd = Gst!Outward(t, f) /\ odd \in (- Gst!OddPaise(t))..Gst!OddPaise(t)
  BY Zenon DEF Gst!SectionsTieReturn
<1>1. Gst!Sections(t, "taxable") = Gst!Outward(t, "taxable")
  <2>1. PICK f : f = "taxable"
    OBVIOUS
  <2>2. PICK odd : odd = Gst!Total([k \in Gst!Keys(t) \ Gst!B2cs(t) |-> Gst!Row(t, k, f)])
    OBVIOUS
  <2>3. f \in Gst!Figures
    BY <2>1 DEF Gst!Figures
  <2>4. f = "taxable" => Gst!Sections(t, f) = Gst!Outward(t, f)
    BY <2>2, <2>3, SectionsDeclare
  <2>. QED  BY <2>1, <2>4
<1>2. ASSUME NEW f \in Gst!Figures \ {"taxable"}, NEW odd,
             odd = Gst!Total([k \in Gst!Keys(t) \ Gst!B2cs(t) |-> Gst!Row(t, k, f)])
      PROVE  Gst!Sections(t, f) + odd = Gst!Outward(t, f) /\ odd \in (- Gst!OddPaise(t))..Gst!OddPaise(t)
  <2>1. f \in Gst!Figures /\ f \in Taxes
    BY DEF Gst!Figures, Taxes
  <2>2. Gst!Sections(t, f) + odd = Gst!Outward(t, f)
    BY <1>2, <2>1, SectionsDeclare
  <2>3. odd \in (- Gst!OddPaise(t))..Gst!OddPaise(t)
    BY <1>2, <2>1, OddPaiseBound
  <2>. QED  BY <2>2, <2>3
<1>. QED  BY <1>1, <1>2, Zenon

-----------------------------------------------------------------------------
(* The tables that cut a month by HSN code, with the rate and without.         *)
HsnKey(h, r) == [hsn |-> h, rate |-> r]
HsnRates(S, D) ==
  [d \in S |-> [k \in DOMAIN Gst!LinesOf(D[d]) |-> HsnKey(Gst!LinesOf(D[d])[k].hsn, Gst!LinesOf(D[d])[k].gst)]]
HsnCodes(S, D) == [d \in S |-> [k \in DOMAIN Gst!LinesOf(D[d]) |-> Gst!LinesOf(D[d])[k].hsn]]

LinesUnder(D, d, key, v) == {k \in DOMAIN Gst!LinesOf(D[d]) : key[d][k] = v}
AreUnder(g, S, D, key, v, f) ==
  \A d \in S : g[d] = Gst!Total([k \in LinesUnder(D, d, key, v) |-> Gst!LinesOf(D[d])[k][f]])

(* What the documents have under a key is its row.                             *)
LEMMA RowByDocument ==
  ASSUME NEW S, NEW D, Recorded(S, D), NEW key, NEW v, NEW f \in Gst!Figures,
         NEW g, AreUnder(g, S, D, key, v, f)
  PROVE  SumFunctionOnSet(g, S) = RowOf(S, LinesIn(S, D), Values(S, D, f), key, v)
<1>1. PICK L, val : L = LinesIn(S, D) /\ val = Values(S, D, f)
  OBVIOUS
<1>2. PICK h : h = [d \in S |-> SumFunctionOnSet(val[d], {k \in L[d] : key[d][k] = v})]
  OBVIOUS
<1>3. IsFiniteSet(S)
  BY DEF Recorded
<1>4. ASSUME NEW d \in S  PROVE g[d] = h[d]
  <2>1. PICK G : G = LinesUnder(D, d, key, v)
    OBVIOUS
  <2>2. G \subseteq DOMAIN Gst!LinesOf(D[d])
    BY <2>1 DEF LinesUnder
  <2>3. Gst!Total([k \in G |-> Gst!LinesOf(D[d])[k][f]]) = SumFunctionOnSet(val[d], G)
    BY <1>1, <2>2, GroupIs
  <2>4. G = {k \in L[d] : key[d][k] = v}
    BY <1>1, <2>1, LinesFacts DEF LinesUnder
  <2>5. g[d] = Gst!Total([k \in G |-> Gst!LinesOf(D[d])[k][f]])
    BY <2>1, Zenon DEF AreUnder
  <2>. QED  BY <1>2, <2>3, <2>4, <2>5
<1>5. SumFunctionOnSet(g, S) = SumFunctionOnSet(h, S)
  BY <1>3, <1>4, SumSame
<1>. QED  BY <1>1, <1>2, <1>5 DEF RowOf

(* Two rows of table 12 are one when code and rate are. *)
LEMMA HsnSame ==
  ASSUME NEW h, NEW r, NEW i, NEW s
  PROVE  /\ HsnKey(h, r) = HsnKey(i, s) <=> h = i /\ r = s
         /\ HsnKey(h, r).hsn = h /\ HsnKey(h, r).rate = r
BY DEF HsnKey

(* A row of table 12 for some documents.                                      *)
LEMMA HsnRowOf ==
  ASSUME NEW S, NEW D, Recorded(S, D), NEW h, NEW r, NEW f \in Gst!Figures
  PROVE  Gst!Total([d \in S |-> Gst!InHsn(Gst!LinesOf(D[d]), HsnKey(h, r), f)])
           = RowOf(S, LinesIn(S, D), Values(S, D, f), HsnRates(S, D), HsnKey(h, r))
<1>1. PICK key, v : key = HsnRates(S, D) /\ v = HsnKey(h, r)
  OBVIOUS
<1>2. PICK g : g = [d \in S |-> Gst!InHsn(Gst!LinesOf(D[d]), v, f)]
  OBVIOUS
<1>3. ASSUME NEW d \in S
      PROVE  g[d] = Gst!Total([k \in LinesUnder(D, d, key, v) |-> Gst!LinesOf(D[d])[k][f]])
  <2>1. PICK lines : lines = Gst!LinesOf(D[d])
    OBVIOUS
  <2>2. PICK G : G = {k \in DOMAIN lines : lines[k].hsn = v.hsn /\ lines[k].gst = v.rate}
    OBVIOUS
  <2>3. ASSUME NEW k \in DOMAIN lines
        PROVE  key[d][k] = v <=> lines[k].hsn = v.hsn /\ lines[k].gst = v.rate
    <3>1. PICK i, s : i = lines[k].hsn /\ s = lines[k].gst
      OBVIOUS
    <3>2. key[d][k] = HsnKey(i, s)
      BY <1>1, <2>1, <3>1, Zenon DEF HsnRates
    <3>3. /\ HsnKey(i, s) = HsnKey(h, r) <=> i = h /\ s = r
          /\ HsnKey(h, r).hsn = h /\ HsnKey(h, r).rate = r
      BY HsnSame
    <3>. QED  BY <1>1, <3>1, <3>2, <3>3
  <2>4. G = LinesUnder(D, d, key, v)
    BY <2>1, <2>2, <2>3 DEF LinesUnder
  <2>5. Gst!InHsn(lines, v, f) = Gst!Total([k \in G |-> lines[k][f]])
    BY <2>2, Zenon DEF Gst!InHsn
  <2>. QED  BY <1>2, <2>1, <2>4, <2>5
<1>4. SumFunctionOnSet(g, S) = RowOf(S, LinesIn(S, D), Values(S, D, f), key, v)
  <2>1. AreUnder(g, S, D, key, v, f)
    BY <1>3, Zenon DEF AreUnder
  <2>. QED  BY <2>1, RowByDocument
<1>5. Gst!Total(g) = SumFunctionOnSet(g, S)
  BY <1>2, GstTotals
<1>. QED  BY <1>1, <1>2, <1>4, <1>5

(* A row of the report by code alone.                                          *)
LEMMA CodeRowOf ==
  ASSUME NEW S, NEW D, Recorded(S, D), NEW h, NEW f \in Gst!Figures
  PROVE  Gst!Total([d \in S |-> Gst!CodedAs(Gst!LinesOf(D[d]), h, f)])
           = RowOf(S, LinesIn(S, D), Values(S, D, f), HsnCodes(S, D), h)
<1>1. PICK key : key = HsnCodes(S, D)
  OBVIOUS
<1>2. PICK g : g = [d \in S |-> Gst!CodedAs(Gst!LinesOf(D[d]), h, f)]
  OBVIOUS
<1>3. ASSUME NEW d \in S
      PROVE  g[d] = Gst!Total([k \in LinesUnder(D, d, key, h) |-> Gst!LinesOf(D[d])[k][f]])
  <2>1. PICK lines : lines = Gst!LinesOf(D[d])
    OBVIOUS
  <2>2. PICK G : G = {k \in DOMAIN lines : lines[k].hsn = h}
    OBVIOUS
  <2>3. \A k \in DOMAIN lines : key[d][k] = lines[k].hsn
    BY <1>1, <2>1, Zenon DEF HsnCodes
  <2>4. G = LinesUnder(D, d, key, h)
    BY <2>1, <2>2, <2>3 DEF LinesUnder
  <2>5. Gst!CodedAs(lines, h, f) = Gst!Total([k \in G |-> lines[k][f]])
    BY <2>2, Zenon DEF Gst!CodedAs
  <2>. QED  BY <1>2, <2>1, <2>4, <2>5
<1>4. SumFunctionOnSet(g, S) = RowOf(S, LinesIn(S, D), Values(S, D, f), key, h)
  <2>1. AreUnder(g, S, D, key, h, f)
    BY <1>3, Zenon DEF AreUnder
  <2>. QED  BY <2>1, RowByDocument
<1>5. Gst!Total(g) = SumFunctionOnSet(g, S)
  BY <1>2, GstTotals
<1>. QED  BY <1>1, <1>2, <1>4, <1>5

(* The keys of a document, of a set of them, and of a month.                   *)
LEMMA HsnKeysOfFacts ==
  ASSUME NEW S, NEW D, Recorded(S, D), NEW d \in S
  PROVE  /\ IsFiniteSet(Gst!HsnKeysOf(Gst!LinesOf(D[d])))
         /\ \A key \in Gst!HsnKeysOf(Gst!LinesOf(D[d])) : \E h, r : key = HsnKey(h, r)
         /\ \A k \in DOMAIN Gst!LinesOf(D[d]) : HsnRates(S, D)[d][k] \in Gst!HsnKeysOf(Gst!LinesOf(D[d]))
<1>1. PICK lines : lines = Gst!LinesOf(D[d])
  OBVIOUS
<1>2. PICK g : g = [k \in DOMAIN lines |-> HsnKey(lines[k].hsn, lines[k].gst)]
  OBVIOUS
<1>3. Gst!HsnKeysOf(lines) = {HsnKey(lines[k].hsn, lines[k].gst) : k \in DOMAIN lines}
  BY Zenon DEF Gst!HsnKeysOf, HsnKey
<1>4. Gst!HsnKeysOf(lines) = {g[k] : k \in DOMAIN lines}
  BY <1>2, <1>3
<1>5. IsFiniteSet(DOMAIN lines)
  BY <1>1, LinesFacts
<1>6. IsFiniteSet({g[k] : k \in DOMAIN lines})
  BY <1>5, FiniteValues
<1>7. \A k \in DOMAIN lines : HsnRates(S, D)[d][k] = HsnKey(lines[k].hsn, lines[k].gst)
  BY <1>1, Zenon DEF HsnRates
<1>8. \A key \in Gst!HsnKeysOf(lines) : \E h, r : key = HsnKey(h, r)
  BY <1>3, Zenon
<1>9. \A k \in DOMAIN lines : HsnRates(S, D)[d][k] \in Gst!HsnKeysOf(lines)
  BY <1>3, <1>7
<1>. QED  BY <1>1, <1>4, <1>6, <1>8, <1>9

(* So are those of a month, and every line of the month has one of them. *)
LEMMA HsnKeysFacts ==
  ASSUME GstInv, NEW t
  PROVE  /\ IsFiniteSet(Gst!HsnKeys(t)) /\ \A key \in Gst!HsnKeys(t) : \E h, r : key = HsnKey(h, r)
         /\ Keyed(Gst!IssuedIn(t), inv, HsnRates(Gst!IssuedIn(t), inv), Gst!HsnKeys(t))
         /\ Keyed(Gst!NotesIn(t), note, HsnRates(Gst!NotesIn(t), note), Gst!HsnKeys(t))
<1>1. PICK I, N : I = Gst!IssuedIn(t) /\ N = Gst!NotesIn(t)
  OBVIOUS
<1>2. PICK g : g = [i \in I |-> Gst!HsnKeysOf(Gst!LinesOf(inv[i]))]
  OBVIOUS
<1>3. PICK h : h = [n \in N |-> Gst!HsnKeysOf(Gst!LinesOf(note[n]))]
  OBVIOUS
<1>4. PICK A, B : A = {g[i] : i \in I} /\ B = {h[n] : n \in N}
  OBVIOUS
<1>5. Recorded(I, inv) /\ Recorded(N, note)
  BY <1>1, SectionsRecorded
<1>6. Gst!HsnKeys(t) = UNION (A \cup B)
  <2>1. A = {Gst!HsnKeysOf(Gst!LinesOf(inv[i])) : i \in I}
    BY <1>2, <1>4
  <2>2. B = {Gst!HsnKeysOf(Gst!LinesOf(note[n])) : n \in N}
    BY <1>3, <1>4
  <2>. QED  BY <1>1, <2>1, <2>2, Zenon DEF Gst!HsnKeys
<1>7. ASSUME NEW i \in I
      PROVE  /\ IsFiniteSet(g[i]) /\ \A key \in g[i] : \E c, r : key = HsnKey(c, r)
             /\ \A k \in DOMAIN Gst!LinesOf(inv[i]) : HsnRates(I, inv)[i][k] \in g[i]
  <2>1. g[i] = Gst!HsnKeysOf(Gst!LinesOf(inv[i]))
    BY <1>2
  <2>2. /\ IsFiniteSet(Gst!HsnKeysOf(Gst!LinesOf(inv[i])))
        /\ \A key \in Gst!HsnKeysOf(Gst!LinesOf(inv[i])) : \E c, r : key = HsnKey(c, r)
        /\ \A k \in DOMAIN Gst!LinesOf(inv[i]) : HsnRates(I, inv)[i][k] \in Gst!HsnKeysOf(Gst!LinesOf(inv[i]))
    BY <1>5, HsnKeysOfFacts
  <2>. QED  BY <2>1, <2>2
<1>8. ASSUME NEW n \in N
      PROVE  /\ IsFiniteSet(h[n]) /\ \A key \in h[n] : \E c, r : key = HsnKey(c, r)
             /\ \A k \in DOMAIN Gst!LinesOf(note[n]) : HsnRates(N, note)[n][k] \in h[n]
  <2>1. h[n] = Gst!HsnKeysOf(Gst!LinesOf(note[n]))
    BY <1>3
  <2>2. /\ IsFiniteSet(Gst!HsnKeysOf(Gst!LinesOf(note[n])))
        /\ \A key \in Gst!HsnKeysOf(Gst!LinesOf(note[n])) : \E c, r : key = HsnKey(c, r)
        /\ \A k \in DOMAIN Gst!LinesOf(note[n]) : HsnRates(N, note)[n][k] \in Gst!HsnKeysOf(Gst!LinesOf(note[n]))
    BY <1>5, HsnKeysOfFacts
  <2>. QED  BY <2>1, <2>2
<1>9. IsFiniteSet(A \cup B)
  <2>1. IsFiniteSet(I) /\ IsFiniteSet(N)
    BY <1>5 DEF Recorded
  <2>2. IsFiniteSet({g[i] : i \in I})
    BY <2>1, FiniteValues
  <2>3. IsFiniteSet({h[n] : n \in N})
    BY <2>1, FiniteValues
  <2>. QED  BY <1>4, <2>2, <2>3, FS_Union
<1>10. \A s \in A \cup B : IsFiniteSet(s)
  BY <1>4, <1>7, <1>8
<1>11. IsFiniteSet(UNION (A \cup B))
  BY <1>9, <1>10, FS_UNION
<1>12. \A key \in UNION (A \cup B) : \E c, r : key = HsnKey(c, r)
  BY <1>4, <1>7, <1>8
<1>13. \A i \in I : g[i] \subseteq UNION (A \cup B)
  BY <1>4
<1>14. \A n \in N : h[n] \subseteq UNION (A \cup B)
  BY <1>4
<1>15. Keyed(I, inv, HsnRates(I, inv), UNION (A \cup B)) /\ Keyed(N, note, HsnRates(N, note), UNION (A \cup B))
  BY <1>7, <1>8, <1>13, <1>14 DEF Keyed
<1>. QED  BY <1>1, <1>6, <1>11, <1>12, <1>15

(* Table 12, all of it, is what is declared.                                   *)
LEMMA HsnDeclares ==
  ASSUME GstInv, NEW t, NEW f \in Gst!Figures,
         NEW rows, rows = [key \in Gst!HsnKeys(t) |-> Gst!HsnRow(t, key, f)]
  PROVE  /\ \A key \in Gst!HsnKeys(t) : rows[key] \in Int
         /\ SumFunctionOnSet(rows, Gst!HsnKeys(t)) = Gst!Outward(t, f)
<1>1. PICK K, I, N : K = Gst!HsnKeys(t) /\ I = Gst!IssuedIn(t) /\ N = Gst!NotesIn(t)
  OBVIOUS
<1>2. PICK p, q : p = HsnRates(I, inv) /\ q = HsnRates(N, note)
  OBVIOUS
<1>3. PICK x : x = [key \in K |-> RowOf(I, LinesIn(I, inv), Values(I, inv, f), p, key)]
  OBVIOUS
<1>4. PICK y : y = [key \in K |-> RowOf(N, LinesIn(N, note), Values(N, note, f), q, key)]
  OBVIOUS
<1>5. Recorded(I, inv) /\ Recorded(N, note)
  BY <1>1, SectionsRecorded
<1>6. IsFiniteSet(K) /\ Keyed(I, inv, p, K) /\ Keyed(N, note, q, K)
  BY <1>1, <1>2, HsnKeysFacts
<1>7. SumFunctionOnSet(x, K) = Declared(I, inv, f) /\ \A key \in K : x[key] \in Int
  <2>1. \A key \in K : x[key] = RowOf(I, LinesIn(I, inv), Values(I, inv, f), p, key)
    BY <1>3
  <2>. QED  BY <1>5, <1>6, <2>1, TableAddsUp
<1>8. SumFunctionOnSet(y, K) = Declared(N, note, f) /\ \A key \in K : y[key] \in Int
  <2>1. \A key \in K : y[key] = RowOf(N, LinesIn(N, note), Values(N, note, f), q, key)
    BY <1>4
  <2>. QED  BY <1>5, <1>6, <2>1, TableAddsUp
<1>9. ASSUME NEW key \in K  PROVE rows[key] = x[key] - y[key]
  <2>1. \E h, r : key = HsnKey(h, r)
    BY <1>1, HsnKeysFacts
  <2>2. PICK h, r : key = HsnKey(h, r)
    BY <2>1
  <2>3. Gst!Total([i \in I |-> Gst!InHsn(Gst!LinesOf(inv[i]), HsnKey(h, r), f)])
          = RowOf(I, LinesIn(I, inv), Values(I, inv, f), HsnRates(I, inv), HsnKey(h, r))
    BY <1>5, HsnRowOf
  <2>4. Gst!Total([n \in N |-> Gst!InHsn(Gst!LinesOf(note[n]), HsnKey(h, r), f)])
          = RowOf(N, LinesIn(N, note), Values(N, note, f), HsnRates(N, note), HsnKey(h, r))
    BY <1>5, HsnRowOf
  <2>5. Gst!HsnRow(t, key, f) = Gst!Total([i \in I |-> Gst!InHsn(Gst!LinesOf(inv[i]), key, f)])
                                - Gst!Total([n \in N |-> Gst!InHsn(Gst!LinesOf(note[n]), key, f)])
    BY <1>1, Zenon DEF Gst!HsnRow
  <2>6. x[key] = Gst!Total([i \in I |-> Gst!InHsn(Gst!LinesOf(inv[i]), key, f)])
    BY <1>2, <1>3, <2>2, <2>3
  <2>7. y[key] = Gst!Total([n \in N |-> Gst!InHsn(Gst!LinesOf(note[n]), key, f)])
    BY <1>2, <1>4, <2>2, <2>4
  <2>. QED  BY <1>1, <2>5, <2>6, <2>7
<1>10. SumFunctionOnSet(rows, K) = SumFunctionOnSet(x, K) - SumFunctionOnSet(y, K)
  BY <1>6, <1>7, <1>8, <1>9, SumMinus
<1>11. Gst!Outward(t, f) = Declared(I, inv, f) - Declared(N, note, f)
  BY <1>1, OutwardIs
<1>. QED  BY <1>1, <1>7, <1>8, <1>9, <1>10, <1>11

(* Table 12 as filed lacks the lines without a code, and nothing else.         *)
LEMMA CodedLines ==
  ASSUME GstInv, NEW t, NEW f \in Gst!Figures
  PROVE  Gst!Total([key \in Gst!Coded(t) |-> Gst!HsnRow(t, key, f)])
           = Gst!Outward(t, f) - Gst!Total([key \in Gst!HsnKeys(t) \ Gst!Coded(t) |-> Gst!HsnRow(t, key, f)])
<1>1. PICK K, C : K = Gst!HsnKeys(t) /\ C = Gst!Coded(t)
  OBVIOUS
<1>2. PICK rows : rows = [key \in K |-> Gst!HsnRow(t, key, f)]
  OBVIOUS
<1>3. PICK x : x = [key \in C |-> Gst!HsnRow(t, key, f)]
  OBVIOUS
<1>4. PICK y : y = [key \in K \ C |-> Gst!HsnRow(t, key, f)]
  OBVIOUS
<1>5. C \subseteq K
  BY <1>1 DEF Gst!Coded
<1>6. IsFiniteSet(K)
  BY <1>1, HsnKeysFacts
<1>7. IsFiniteSet(C) /\ IsFiniteSet(K \ C)
  BY <1>5, <1>6, FS_Subset
<1>8. (\A key \in K : rows[key] \in Int) /\ SumFunctionOnSet(rows, K) = Gst!Outward(t, f)
  BY <1>1, <1>2, HsnDeclares
<1>9. SumFunctionOnSet(rows, K) = SumFunctionOnSet(rows, C) + SumFunctionOnSet(rows, K \ C)
  <2>1. C \cup (K \ C) = K /\ C \cap (K \ C) = {}
    BY <1>5
  <2>. QED  BY <1>7, <1>8, <2>1, SumUnion
<1>10. SumFunctionOnSet(rows, C) = Gst!Total(x)
  <2>1. \A key \in C : rows[key] = x[key]
    BY <1>2, <1>3, <1>5
  <2>2. SumFunctionOnSet(rows, C) = SumFunctionOnSet(x, C)
    BY <1>7, <2>1, SumSame
  <2>3. Gst!Total(x) = SumFunctionOnSet(x, C)
    BY <1>3, GstTotals
  <2>. QED  BY <2>2, <2>3
<1>11. SumFunctionOnSet(rows, K \ C) = Gst!Total(y)
  <2>1. \A key \in K \ C : rows[key] = y[key]
    BY <1>2, <1>4
  <2>2. SumFunctionOnSet(rows, K \ C) = SumFunctionOnSet(y, K \ C)
    BY <1>7, <2>1, SumSame
  <2>3. Gst!Total(y) = SumFunctionOnSet(y, K \ C)
    BY <1>4, GstTotals
  <2>. QED  BY <2>2, <2>3
<1>12. SumFunctionOnSet(rows, C) \in Int /\ SumFunctionOnSet(rows, K \ C) \in Int
  <2>1. \A key \in C : rows[key] \in Int
    BY <1>5, <1>8
  <2>2. SumFunctionOnSet(rows, C) \in Int
    BY <1>7, <2>1, SumInt
  <2>3. SumFunctionOnSet(rows, K \ C) \in Int
    BY <1>7, <1>8, SumInt
  <2>. QED  BY <2>2, <2>3
<1>13. Gst!Total(x) = Gst!Outward(t, f) - Gst!Total(y)
  BY <1>8, <1>9, <1>10, <1>11, <1>12
<1>. QED  BY <1>1, <1>3, <1>4, <1>13

(* A total of declared figures.                                                *)
LEMMA TotalDeclared ==
  ASSUME NEW S, NEW D, NEW f
  PROVE  Gst!Total([d \in S |-> Gst!SumsOf(D[d])[f]]) = Declared(S, D, f)
<1>1. PICK g : g = [d \in S |-> Gst!SumsOf(D[d])[f]]
  OBVIOUS
<1>2. Gst!Total(g) = SumFunctionOnSet(g, S)
  BY <1>1, GstTotals
<1>. QED  BY <1>1, <1>2 DEF Declared

(* The report on the screen: a customer is registered, or of one place.        *)
LEMMA ReportByCustomer ==
  ASSUME GstInv, NEW t, NEW f \in Gst!Figures
  PROVE  Gst!ReportTotals(t, f)
           = Gst!ReportB2b(t, f) + Gst!ReportB2c(t, "home", f) + Gst!ReportB2c(t, "away", f)
<1>1. PICK I, B : I = Gst!IssuedIn(t) /\ B = Gst!B2b(t)
  OBVIOUS
<1>2. PICK H : H = {i \in I : inv[i].party \notin gstin /\ Gst!PlaceOf(inv[i].party) = "home"}
  OBVIOUS
<1>3. PICK A : A = {i \in I : inv[i].party \notin gstin /\ Gst!PlaceOf(inv[i].party) = "away"}
  OBVIOUS
<1>4. \A p : Gst!PlaceOf(p) = "home" \/ Gst!PlaceOf(p) = "away"
  BY DEF Gst!PlaceOf
<1>5. B = {i \in I : inv[i].party \in gstin}
  BY <1>1 DEF Gst!B2b
<1>6. I = B \cup (H \cup A) /\ B \cap (H \cup A) = {} /\ H \cap A = {}
  BY <1>2, <1>3, <1>4, <1>5
<1>7. Recorded(B, inv) /\ Recorded(H, inv) /\ Recorded(A, inv) /\ Recorded(H \cup A, inv)
  <2>1. IsFiniteSet(I) /\ \A i \in I : inv[i] \in GstRows
    BY <1>1, SectionsRecorded DEF Recorded
  <2>2. ASSUME NEW S \in SUBSET I  PROVE Recorded(S, inv)
    <3>1. IsFiniteSet(S)
      BY <2>1, FS_Subset
    <3>. QED  BY <2>1, <3>1 DEF Recorded
  <2>3. B \in SUBSET I /\ H \in SUBSET I /\ A \in SUBSET I /\ H \cup A \in SUBSET I
    BY <1>2, <1>3, <1>5
  <2>. QED  BY <2>2, <2>3
<1>8. Declared(B \cup (H \cup A), inv, f) = Declared(B, inv, f) + Declared(H \cup A, inv, f)
  BY <1>6, <1>7, DeclaredTogether
<1>9. Declared(H \cup A, inv, f) = Declared(H, inv, f) + Declared(A, inv, f)
  BY <1>6, <1>7, DeclaredTogether
<1>10. Declared(B, inv, f) \in Int /\ Declared(H, inv, f) \in Int /\ Declared(A, inv, f) \in Int
  BY <1>7, DeclaredFacts DEF Recorded
<1>11. Gst!ReportTotals(t, f) = Declared(I, inv, f)
  BY <1>1, TotalDeclared, Zenon DEF Gst!ReportTotals
<1>12. Gst!ReportB2b(t, f) = Declared(B, inv, f)
  BY <1>1, TotalDeclared, Zenon DEF Gst!ReportB2b
<1>13. Gst!ReportB2c(t, "home", f) = Declared(H, inv, f)
  BY <1>1, <1>2, TotalDeclared, Zenon DEF Gst!ReportB2c
<1>14. Gst!ReportB2c(t, "away", f) = Declared(A, inv, f)
  BY <1>1, <1>3, TotalDeclared, Zenon DEF Gst!ReportB2c
<1>15. Declared(I, inv, f) = Declared(B, inv, f) + Declared(H \cup A, inv, f)
  BY <1>6, <1>8, Zenon
<1>. QED  BY <1>9, <1>10, <1>11, <1>12, <1>13, <1>14, <1>15

(* By HSN code, whatever the rate.                                             *)
LEMMA ReportByCode ==
  ASSUME GstInv, NEW t, NEW f \in Gst!Figures, NEW codes, codes = {key.hsn : key \in Gst!HsnKeys(t)}
  PROVE  Gst!ReportTotals(t, f) = Gst!Total([hsn \in codes |-> Gst!ReportHsn(t, hsn, f)])
<1>1. PICK I, K : I = Gst!IssuedIn(t) /\ K = Gst!HsnKeys(t)
  OBVIOUS
<1>2. PICK p : p = HsnCodes(I, inv)
  OBVIOUS
<1>3. PICK rows : rows = [h \in codes |-> Gst!ReportHsn(t, h, f)]
  OBVIOUS
<1>4. Recorded(I, inv)
  BY <1>1, SectionsRecorded
<1>5. IsFiniteSet(codes)
  <2>1. PICK g : g = [key \in K |-> key.hsn]
    OBVIOUS
  <2>2. IsFiniteSet(K)
    BY <1>1, HsnKeysFacts
  <2>3. IsFiniteSet({g[key] : key \in K})
    BY <2>2, FiniteValues
  <2>4. {g[key] : key \in K} = codes
    BY <1>1, <2>1
  <2>. QED  BY <2>3, <2>4
<1>6. Keyed(I, inv, p, codes)
  <2>. SUFFICES ASSUME NEW i \in I, NEW k \in DOMAIN Gst!LinesOf(inv[i])
       PROVE  p[i][k] \in codes
    BY DEF Keyed
  <2>1. PICK h, r : h = Gst!LinesOf(inv[i])[k].hsn /\ r = Gst!LinesOf(inv[i])[k].gst
    OBVIOUS
  <2>2. p[i][k] = h
    BY <1>2, <2>1, Zenon DEF HsnCodes
  <2>3. HsnRates(I, inv)[i][k] = HsnKey(h, r)
    BY <2>1, Zenon DEF HsnRates
  <2>4. Keyed(I, inv, HsnRates(I, inv), K)
    BY <1>1, HsnKeysFacts
  <2>5. HsnKey(h, r) \in K
    BY <2>3, <2>4, Zenon DEF Keyed
  <2>6. HsnKey(h, r).hsn = h
    BY HsnSame
  <2>. QED  BY <1>1, <2>2, <2>5, <2>6
<1>7. \A h \in codes : rows[h] = RowOf(I, LinesIn(I, inv), Values(I, inv, f), p, h)
  <2>. SUFFICES ASSUME NEW h \in codes
       PROVE  rows[h] = RowOf(I, LinesIn(I, inv), Values(I, inv, f), p, h)
    OBVIOUS
  <2>1. Gst!Total([i \in I |-> Gst!CodedAs(Gst!LinesOf(inv[i]), h, f)])
          = RowOf(I, LinesIn(I, inv), Values(I, inv, f), HsnCodes(I, inv), h)
    BY <1>4, CodeRowOf
  <2>2. Gst!ReportHsn(t, h, f) = Gst!Total([i \in I |-> Gst!CodedAs(Gst!LinesOf(inv[i]), h, f)])
    BY <1>1, Zenon DEF Gst!ReportHsn
  <2>. QED  BY <1>2, <1>3, <2>1, <2>2
<1>8. SumFunctionOnSet(rows, codes) = Declared(I, inv, f)
  BY <1>4, <1>5, <1>6, <1>7, TableAddsUp
<1>9. Gst!Total(rows) = SumFunctionOnSet(rows, codes)
  BY <1>3, GstTotals
<1>10. Gst!ReportTotals(t, f) = Declared(I, inv, f)
  BY <1>1, TotalDeclared, Zenon DEF Gst!ReportTotals
<1>. QED  BY <1>3, <1>8, <1>9, <1>10

(* The tables that cut the month another way come to the return too.           *)
LEMMA TablesAreReturn ==
  ASSUME GstInv
  PROVE  Gst!TablesTieReturn
<1>. SUFFICES ASSUME NEW t \in Periods, NEW f \in Gst!Figures,
                     NEW codes, codes = {key.hsn : key \in Gst!HsnKeys(t)}
     PROVE  /\ Gst!Total([key \in Gst!Coded(t) |-> Gst!HsnRow(t, key, f)])
                 = Gst!Outward(t, f)
                   - Gst!Total([key \in Gst!HsnKeys(t) \ Gst!Coded(t) |-> Gst!HsnRow(t, key, f)])
            /\ Gst!ReportTotals(t, f) - Gst!ReportNotes(t, f) = Gst!Outward(t, f)
            /\ Gst!ReportTotals(t, f)
                 = Gst!ReportB2b(t, f) + Gst!ReportB2c(t, "home", f) + Gst!ReportB2c(t, "away", f)
            /\ Gst!ReportTotals(t, f) = Gst!Total([hsn \in codes |-> Gst!ReportHsn(t, hsn, f)])
  BY Zenon DEF Gst!TablesTieReturn
<1>1. Gst!ReportTotals(t, f) - Gst!ReportNotes(t, f) = Gst!Outward(t, f)
  BY Zenon DEF Gst!ReportTotals, Gst!ReportNotes, Gst!Outward
<1>2. Gst!ReportTotals(t, f) = Gst!Total([hsn \in codes |-> Gst!ReportHsn(t, hsn, f)])
  BY ReportByCode
<1>. QED  BY <1>1, <1>2, CodedLines, ReportByCustomer

(* The GST returns of every month tie to the books and to one another: GSTR-3B is
   what the ledgers gained, GSTR-1's sections come to it but for at most three
   quarters of a paisa a line, and so do its other tables, whatever is drafted,
   edited into another month, cancelled, removed or returned, and whoever
   registers meanwhile. *)
THEOREM BooksReturnsTie == BooksSpec => []ReturnTiesBooks
<1>1. GstInv => ReturnTiesBooks
  BY ReturnIsBooks, SectionsAreReturn, TablesAreReturn DEF ReturnTiesBooks
<1>. QED  BY <1>1, GstAlways, PTL
=============================================================================
