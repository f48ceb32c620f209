---------------------------- MODULE SalesInvoice ----------------------------
(***************************************************************************)
(* The life of a sales invoice: recorded payments, credit notes, edits,    *)
(* cancellation, removal, and the vouchers each of them posts.  A handler  *)
(* reads the invoice and checks, then writes in one READ COMMITTED         *)
(* transaction; everything between is awaited, so other requests commit in *)
(* between.  A handler is a read action and a commit action.  Edits and    *)
(* removals have a third: their deletes see the rows of that moment, the   *)
(* rest of the transaction what has been committed since.  The types of    *)
(* the vouchers are parameters: module Purchases runs the same handlers.   *)
(***************************************************************************)
EXTENDS Integers, Sequences, FiniteSets, Functions

CONSTANTS
  Requests,     \* concurrent API requests
  Invoices,     \* identities an invoice may be created with
  Parties,      \* customers, each with its own ledger
  Ops,          \* the operations this instance exercises
  MaxTotal,     \* bound: amounts are 1..MaxTotal rupees
  MaxVouchers,  \* bound: vouchers ever posted
  MaxEdits,     \* bound: restatements of one voucher
  DocumentVoucher, PaymentVoucher, NoteVoucher,  \* the types of the vouchers
  None

AllOps == {"pay", "note", "edit", "cancel", "remove", "cancelNote",
           "cancelVoucher"}

ASSUME OpsAssumption == Ops \subseteq AllOps
ASSUME BoundsAssumption == MaxTotal \in Nat /\ MaxVouchers \in Nat /\ MaxEdits \in Nat
ASSUME TypesAssumption == DocumentVoucher \notin {PaymentVoucher, NoteVoucher}
ASSUME NoneAssumption == None \notin Invoices \cup Parties

VARIABLES
  invoice,   \* the invoices table (status "NONE": not created, "GONE": deleted)
  payments,  \* the payments table
  notes,     \* the credit notes
  vouchers,  \* every voucher ever posted; its number is its identity
  req        \* what each request has read so far

books == <<invoice, payments, notes, vouchers>>
vars == <<invoice, payments, notes, vouchers, req>>

Amounts == 1..MaxTotal
NoInvoice == [status |-> "NONE", party |-> None, total |-> 0, voucher |-> 0]
Idle == [op |-> "idle"]

Live == {i \in Invoices : invoice[i].status \in {"ISSUED", "CANCELLED"}}
PaymentsOf(i) == {p \in payments : p.invoice = i}
NotesOf(i) == {n \in notes : n.invoice = i}
IssuedNotesOf(i) == {n \in NotesOf(i) : n.status = "ISSUED"}

Amount(docs) == SumFunctionOnSet([d \in docs |-> d.amount], docs)
Paid(i) == Amount(PaymentsOf(i))
Noted(i) == Amount(IssuedNotesOf(i))

(* Broken variant: the balance is counted without the notes. *)
Outstanding_NotesForgotten(i) == invoice[i].total - Paid(i)

Outstanding(i) == invoice[i].total - Paid(i) - Noted(i)

VoucherRefs(docs) == {d.voucher : d \in docs}

(* buildSalesVoucherLines and its kin: the lines of a voucher, all debits    *)
(* against all credits, by the party they move and the amount.               *)
Lines(rev, p, a) == {[rev |-> rev, party |-> p, amount |-> a]}

NewVoucher == Len(vouchers) + 1

(* postVoucherTx; the numbers it draws are the subject of module Posting.    *)
Post(type, p, a) ==
  /\ Len(vouchers) < MaxVouchers
  /\ vouchers' = Append(vouchers, [type |-> type, status |-> "ACTIVE", rev |-> 0,
                                   lines |-> Lines(0, p, a)])

Begin(r, readings) ==
  /\ req[r] = Idle
  /\ req' = [req EXCEPT ![r] = readings]
  /\ UNCHANGED books

End(r) == req' = [req EXCEPT ![r] = Idle]

Init ==
  /\ invoice = [i \in Invoices |-> NoInvoice]
  /\ payments = {}
  /\ notes = {}
  /\ vouchers = <<>>
  /\ req = [r \in Requests |-> Idle]

-----------------------------------------------------------------------------
Create(r, i, p, t) ==
  /\ req[r] = Idle
  /\ invoice[i].status = "NONE"
  /\ Post(DocumentVoucher, p, t)
  /\ invoice' = [invoice EXCEPT ![i] = [status |-> "ISSUED", party |-> p, total |-> t,
                                        voucher |-> NewVoucher]]
  /\ UNCHANGED <<payments, notes, req>>

(* recordPayment: the first check, outside the transaction. *)
PayRead(r, i, a) ==
  /\ "pay" \in Ops
  /\ invoice[i].status = "ISSUED"
  /\ a <= Outstanding(i)
  /\ Begin(r, [op |-> "pay", inv |-> i, party |-> invoice[i].party, amount |-> a])

(* Broken variant: without the second look at the balance. *)
PayCommit_Unchecked(r) ==
  /\ req[r].op = "pay"
  /\ invoice[req[r].inv].status = "ISSUED"
  /\ Post(PaymentVoucher, req[r].party, req[r].amount)
  /\ payments' = payments \cup {[voucher |-> NewVoucher, invoice |-> req[r].inv,
                                 amount |-> req[r].amount]}
  /\ End(r)
  /\ UNCHANGED <<invoice, notes>>

(* recordPayment: under SELECT ... FOR UPDATE, checked again.  The ledger     *)
(* credited is still that of the party read first.                           *)
PayCommit(r) ==
  /\ req[r].op = "pay"
  /\ invoice[req[r].inv].status = "ISSUED"
  /\ req[r].amount <= Outstanding(req[r].inv)
  /\ Post(PaymentVoucher, req[r].party, req[r].amount)
  /\ payments' = payments \cup {[voucher |-> NewVoucher, invoice |-> req[r].inv,
                                 amount |-> req[r].amount]}
  /\ End(r)
  /\ UNCHANGED <<invoice, notes>>

(* Broken variant: the cap forgets the earlier notes. *)
NoteRead_Uncapped(r, i, a) ==
  /\ "note" \in Ops
  /\ invoice[i].status = "ISSUED"
  /\ a <= invoice[i].total
  /\ Begin(r, [op |-> "note", inv |-> i, party |-> invoice[i].party, amount |-> a])

(* notes create: earlier notes are deducted, payments are not. *)
NoteRead(r, i, a) ==
  /\ "note" \in Ops
  /\ invoice[i].status = "ISSUED"
  /\ a <= invoice[i].total - Noted(i)
  /\ Begin(r, [op |-> "note", inv |-> i, party |-> invoice[i].party, amount |-> a])

(* No second check; the foreign key asks only that the invoice exists. *)
NoteCommit(r) ==
  /\ req[r].op = "note"
  /\ req[r].inv \in Live
  /\ Post(NoteVoucher, req[r].party, req[r].amount)
  /\ notes' = notes \cup {[voucher |-> NewVoucher, invoice |-> req[r].inv,
                           amount |-> req[r].amount, status |-> "ISSUED"]}
  /\ End(r)
  /\ UNCHANGED <<invoice, payments>>

(* Deleted by a removal still in flight: the row is locked. *)
BeingDeleted(n) == \E r \in Requests :
                     req[r].op = "unwind" /\ n.voucher \in req[r].deleted

(* notes cancel: voucher and note together. *)
NoteCancel(r, n) ==
  /\ "cancelNote" \in Ops
  /\ req[r] = Idle
  /\ n.status = "ISSUED"
  /\ ~ BeingDeleted(n)
  /\ notes' = (notes \ {n}) \cup {[n EXCEPT !.status = "CANCELLED"]}
  /\ vouchers' = [vouchers EXCEPT ![n.voucher].status = "CANCELLED"]
  /\ UNCHANGED <<invoice, payments, req>>

(* The state in which cancel and update go ahead. *)
Unsettled(i) ==
  /\ invoice[i].status = "ISSUED"
  /\ PaymentsOf(i) = {}
  /\ IssuedNotesOf(i) = {}

CancelRead(r, i) ==
  /\ "cancel" \in Ops
  /\ Unsettled(i)
  /\ Begin(r, [op |-> "cancel", inv |-> i])

(* Broken variant: the voucher is left in the books. *)
CancelCommit_KeepsVoucher(r) ==
  /\ req[r].op = "cancel"
  /\ req[r].inv \in Live
  /\ invoice' = [invoice EXCEPT ![req[r].inv].status = "CANCELLED"]
  /\ End(r)
  /\ UNCHANGED <<payments, notes, vouchers>>

CancelCommit(r) ==
  LET i == req[r].inv
  IN  /\ req[r].op = "cancel"
      /\ i \in Live
      /\ vouchers' = [vouchers EXCEPT ![invoice[i].voucher].status = "CANCELLED"]
      /\ invoice' = [invoice EXCEPT ![i].status = "CANCELLED"]
      /\ End(r)
      /\ UNCHANGED <<payments, notes>>

EditRead(r, i, p, t) ==
  /\ "edit" \in Ops
  /\ Unsettled(i)
  /\ Begin(r, [op |-> "edit", inv |-> i, party |-> p, amount |-> t])

(* The first statement of update's transaction finds the voucher's lines.    *)
(* Lines another edit inserts later are not among them.                      *)
EditDelete(r) ==
  LET i == req[r].inv
  IN  /\ req[r].op = "edit"
      /\ i \in Live
      /\ req' = [req EXCEPT ![r] =
                   [op |-> "restate", inv |-> i, party |-> req[r].party,
                    amount |-> req[r].amount,
                    stale |-> vouchers[invoice[i].voucher].lines]]
      /\ UNCHANGED books

(* The voucher with its stale lines replaced; its status is not written. *)
Restated(v, stale, p, a) ==
  [vouchers EXCEPT
     ![v].rev = @ + 1,
     ![v].lines = (@ \ stale) \cup Lines(vouchers[v].rev + 1, p, a)]

(* Broken variant: the whole row is written back, as it was when it was read. *)
EditCommit_WholeRow(r) ==
  LET i == req[r].inv
  IN  /\ req[r].op = "restate"
      /\ i \in Live
      /\ vouchers[invoice[i].voucher].rev < MaxEdits
      /\ vouchers' = Restated(invoice[i].voucher, req[r].stale, req[r].party,
                              req[r].amount)
      /\ invoice' = [invoice EXCEPT ![i].party = req[r].party,
                                    ![i].total = req[r].amount,
                                    ![i].status = "ISSUED"]
      /\ End(r)
      /\ UNCHANGED <<payments, notes>>

EditCommit(r) ==
  LET i == req[r].inv
  IN  /\ req[r].op = "restate"
      /\ i \in Live
      /\ vouchers[invoice[i].voucher].rev < MaxEdits
      /\ vouchers' = Restated(invoice[i].voucher, req[r].stale, req[r].party,
                              req[r].amount)
      /\ invoice' = [invoice EXCEPT ![i].party = req[r].party,
                                    ![i].total = req[r].amount]
      /\ End(r)
      /\ UNCHANGED <<payments, notes>>

(* Broken variant: the vouchers of the receipts are forgotten. *)
RemoveRead_InvoiceOnly(r, i) ==
  /\ "remove" \in Ops
  /\ i \in Live
  /\ Begin(r, [op |-> "remove", inv |-> i, ids |-> {invoice[i].voucher}])

(* remove: the vouchers to unwind are listed before the transaction. *)
RemoveRead(r, i) ==
  /\ "remove" \in Ops
  /\ i \in Live
  /\ Begin(r, [op |-> "remove", inv |-> i,
               ids |-> {invoice[i].voucher} \cup VoucherRefs(PaymentsOf(i))
                                            \cup VoucherRefs(NotesOf(i))])

(* payment.deleteMany and note.deleteMany find the rows of this moment. *)
RemoveDelete(r) ==
  LET i == req[r].inv
  IN  /\ req[r].op = "remove"
      /\ i \in Live
      /\ req' = [req EXCEPT ![r] =
                   [op |-> "unwind", inv |-> i, ids |-> req[r].ids,
                    deleted |-> VoucherRefs(PaymentsOf(i) \cup NotesOf(i))]]
      /\ UNCHANGED books

Unwound(ids) ==
  [v \in DOMAIN vouchers |->
     IF v \in ids THEN [vouchers[v] EXCEPT !.status = "GONE", !.lines = {}]
                  ELSE vouchers[v]]

(* invoice.delete detaches the notes the deletes did not see (SET NULL). *)
Detached(i, deleted) ==
  {IF n.invoice = i THEN [n EXCEPT !.invoice = None] ELSE n :
     n \in {m \in notes : m.voucher \notin deleted}}

(* Broken variant: the vouchers are listed in the transaction, after the
   deletes, and with them that of a note the deletes did not see. *)
RemoveCommit_ListedLate(r) ==
  LET i == req[r].inv
  IN  /\ req[r].op = "unwind"
      /\ i \in Live
      /\ VoucherRefs(PaymentsOf(i)) \subseteq req[r].deleted
      /\ vouchers' = Unwound(req[r].ids \cup VoucherRefs(NotesOf(i)))
      /\ payments' = payments \ PaymentsOf(i)
      /\ notes' = Detached(i, req[r].deleted)
      /\ invoice' = [invoice EXCEPT ![i].status = "GONE"]
      /\ End(r)

(* Broken variant: the foreign key of payments is SET NULL as well. *)
RemoveCommit_DetachesPayments(r) ==
  LET i == req[r].inv
  IN  /\ req[r].op = "unwind"
      /\ i \in Live
      /\ vouchers' = Unwound(req[r].ids)
      /\ payments' = {IF p.invoice = i THEN [p EXCEPT !.invoice = None] ELSE p :
                        p \in {q \in payments : q.voucher \notin req[r].deleted}}
      /\ notes' = Detached(i, req[r].deleted)
      /\ invoice' = [invoice EXCEPT ![i].status = "GONE"]
      /\ End(r)

(* The rest of remove's transaction.  invoice.delete fails on a payment that
   was recorded since the deletes (RESTRICT). *)
RemoveCommit(r) ==
  LET i == req[r].inv
  IN  /\ req[r].op = "unwind"
      /\ i \in Live
      /\ VoucherRefs(PaymentsOf(i)) \subseteq req[r].deleted
      /\ vouchers' = Unwound(req[r].ids)
      /\ payments' = payments \ PaymentsOf(i)
      /\ notes' = Detached(i, req[r].deleted)
      /\ invoice' = [invoice EXCEPT ![i].status = "GONE"]
      /\ End(r)

(* The accounting endpoint cancels any voucher, a document's too. *)
VoucherCancel(r, v) ==
  /\ "cancelVoucher" \in Ops
  /\ req[r] = Idle
  /\ vouchers[v].status = "ACTIVE"
  /\ vouchers' = [vouchers EXCEPT ![v].status = "CANCELLED"]
  /\ UNCHANGED <<invoice, payments, notes, req>>

(* A check that fails, a lost connection, a timeout, a crash: the request     *)
(* ends and its transaction leaves nothing.                                  *)
Abandon(r) ==
  /\ req[r] # Idle
  /\ End(r)
  /\ UNCHANGED books

Next ==
  \E r \in Requests :
    \/ \E i \in Invoices :
         \/ \E p \in Parties, a \in Amounts : Create(r, i, p, a) \/ EditRead(r, i, p, a)
         \/ \E a \in Amounts : PayRead(r, i, a) \/ NoteRead(r, i, a)
         \/ CancelRead(r, i)
         \/ RemoveRead(r, i)
    \/ PayCommit(r)
    \/ NoteCommit(r)
    \/ CancelCommit(r)
    \/ EditDelete(r)
    \/ EditCommit(r)
    \/ RemoveDelete(r)
    \/ RemoveCommit(r)
    \/ \E n \in notes : NoteCancel(r, n)
    \/ \E v \in DOMAIN vouchers : VoucherCancel(r, v)
    \/ Abandon(r)

Spec == Init /\ [][Next]_vars

-----------------------------------------------------------------------------
Line == [rev : Nat, party : Parties, amount : Amounts]
Voucher == [type : {DocumentVoucher, PaymentVoucher, NoteVoucher},
            status : {"ACTIVE", "CANCELLED", "GONE"}, rev : Nat, lines : SUBSET Line]
VoucherIds == DOMAIN vouchers

Row == [status : {"ISSUED", "CANCELLED", "GONE"}, party : Parties, total : Amounts,
        voucher : VoucherIds]

Reading ==
  [op : {"pay", "note", "edit"}, inv : Invoices, party : Parties, amount : Amounts]
    \cup [op : {"cancel"}, inv : Invoices]
    \cup [op : {"restate"}, inv : Invoices, party : Parties, amount : Amounts,
          stale : SUBSET Line]
    \cup [op : {"remove"}, inv : Invoices, ids : SUBSET VoucherIds]
    \cup [op : {"unwind"}, inv : Invoices, ids : SUBSET VoucherIds,
          deleted : SUBSET VoucherIds]

(* Type invariant: documents refer to vouchers that were posted, a payment to
   an invoice, a note to an invoice or to none. *)
TypeOK ==
  /\ vouchers \in Seq(Voucher)
  /\ invoice \in [Invoices -> Row \cup {NoInvoice}]
  /\ payments \subseteq [voucher : VoucherIds, invoice : Invoices, amount : Amounts]
  /\ notes \subseteq [voucher : VoucherIds, invoice : Invoices \cup {None},
                      amount : Amounts, status : {"ISSUED", "CANCELLED"}]
  /\ req \in [Requests -> Reading \cup {Idle}]

(* recordPayment's lock and second check: whatever has been committed since    *)
(* the first, a payment never takes an invoice beyond its total, the payments  *)
(* and the issued notes of that moment counted.                               *)
PaymentWithinBalance ==
  [][\A p \in payments' \ payments : Outstanding(p.invoice)' >= 0]_vars

(* An edit or a payment in flight never brings a cancelled or a removed       *)
(* invoice back.                                                              *)
StatusOnlyMovesForward ==
  [][\A i \in Invoices :
       /\ invoice[i].status = "CANCELLED" => invoice'[i].status \in {"CANCELLED", "GONE"}
       /\ invoice[i].status = "GONE" => invoice'[i].status = "GONE"]_vars

(* A cancelled invoice has left the books, whatever was in flight when it was *)
(* cancelled.                                                                 *)
CancelledIsOutOfBooks ==
  \A i \in Invoices :
    invoice[i].status = "CANCELLED" => vouchers[invoice[i].voucher].status # "ACTIVE"

(* A removal takes down no voucher that a document still stands on: not of an *)
(* invoice, not of a payment, not of a note that it detached.                 *)
DocumentsKeepTheirVoucher ==
  /\ \A i \in Live : vouchers[invoice[i].voucher].status # "GONE"
  /\ \A d \in payments \cup notes : vouchers[d.voucher].status # "GONE"

-----------------------------------------------------------------------------
(* What holds when requests come one at a time.                              *)

(* What a customer owes by the ledger: the lines of the active vouchers.     *)
LinesOf(v, p) == {l \in vouchers[v].lines : l.party = p}
ActiveVouchers == {v \in VoucherIds : vouchers[v].status = "ACTIVE"}
ActiveSales == {v \in ActiveVouchers : vouchers[v].type = DocumentVoucher}
LedgerBalance(p) ==
  LET moved == [v \in VoucherIds |-> Amount(LinesOf(v, p))]
  IN  SumFunctionOnSet(moved, ActiveSales) - SumFunctionOnSet(moved, ActiveVouchers \ ActiveSales)

(* What a customer owes by the documents: the statement of                   *)
(* party-balance.service.ts.                                                 *)
IssuedTo(p) == {i \in Invoices : invoice[i].status = "ISSUED" /\ invoice[i].party = p}
DocumentBalance(p) == SumFunctionOnSet([i \in Invoices |-> Outstanding(i)], IssuedTo(p))

(* Between requests the customer's ledger and the customer's documents say    *)
(* the same, through every edit, cancellation and removal.                    *)
BooksTie ==
  (\A r \in Requests : req[r] = Idle) =>
    \A p \in Parties : LedgerBalance(p) = DocumentBalance(p)

(* Each invoice's account, as module Settlement specifies it.                *)
Account == INSTANCE Settlement WITH
  total  <- [i \in Invoices |-> invoice[i].total],
  paid   <- [i \in Invoices |-> Paid(i)],
  noted  <- [i \in Invoices |-> Noted(i)],
  status <- [i \in Invoices |-> invoice[i].status]

(* Requests served one at a time settle an invoice as Settlement specifies.  *)
Settles == Account!Spec

(* So that neither its payments nor its notes exceed an invoice, and nothing is *)
(* settled of one that is cancelled or removed ...                           *)
WithinTotal == Account!WithinTotal

(* ... and no payment is taken of what has been returned.                    *)
PaidOutOfBalance == Account!PaidOutOfBalance

-----------------------------------------------------------------------------
(* What comments say of the handlers, and does not hold of concurrent ones.  *)

(* "The original SALES voucher is re-stated (same number) and lines replaced":*)
(* the lines of the voucher are those of the invoice, once.                   *)
VoucherStatesInvoice ==
  \A i \in Live : \E rev \in 0..MaxEdits :
    vouchers[invoice[i].voucher].lines = Lines(rev, invoice[i].party, invoice[i].total)

(* "every voucher it (or its payments/notes) posted -- so the ledger and      *)
(* derived stock fully un-wind": no active voucher outlives its document.     *)
NoOrphanVouchers ==
  \A v \in VoucherIds : vouchers[v].status = "ACTIVE" =>
    v \in {invoice[i].voucher : i \in Live}
            \cup VoucherRefs(payments)
            \cup VoucherRefs({n \in notes : n.invoice # None})
=============================================================================
