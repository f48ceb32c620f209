------------------------------ MODULE Purchases ------------------------------
(***************************************************************************)
(* Purchase bills, vendor payments and debit notes.  purchases.service.ts  *)
(* repeats invoices.service.ts call for call, with the same checks, locks  *)
(* and foreign keys, so that each handler is SalesInvoice's on the tables  *)
(* of this side.  What differs is what a vendor is said to be owed.  The   *)
(* instance is of the module of proofs, whose theorems hold here as well.  *)
(***************************************************************************)
EXTENDS Integers, Sequences, FiniteSets, Functions

CONSTANTS
  Requests,     \* concurrent API requests
  Bills,        \* identities a bill may be created with
  Vendors,      \* each with its own ledger
  Ops,          \* the operations this instance exercises
  MaxTotal,     \* bound: amounts are 1..MaxTotal rupees
  MaxVouchers,  \* bound: vouchers ever posted
  MaxEdits,     \* bound: restatements of one voucher
  None

VARIABLES
  bill,        \* the purchase_bills table
  payments,    \* the bill_payments table
  debitNotes,  \* the notes of type DEBIT_NOTE
  vouchers,    \* every voucher ever posted on this side
  req          \* what each request has read so far

vars == <<bill, payments, debitNotes, vouchers, req>>

Side == INSTANCE SalesInvoiceProofs WITH
  Invoices <- Bills, Parties <- Vendors, invoice <- bill, notes <- debitNotes,
  DocumentVoucher <- "PURCHASE", PaymentVoucher <- "PAYMENT",
  NoteVoucher <- "DEBIT_NOTE"

Amounts == 1..MaxTotal

Init == Side!Init

Create(r, b, v, t) == Side!Create(r, b, v, t)

PayRead(r, b, a) == Side!PayRead(r, b, a)
PayCommit(r) == Side!PayCommit(r)

NoteRead(r, b, a) == Side!NoteRead(r, b, a)
NoteCommit(r) == Side!NoteCommit(r)
NoteCancel(r, n) == Side!NoteCancel(r, n)

CancelRead(r, b) == Side!CancelRead(r, b)
CancelCommit(r) == Side!CancelCommit(r)

(* Broken variant: a bill with payments can be edited. *)
EditRead_Paid(r, b, v, t) ==
  /\ "edit" \in Ops
  /\ bill[b].status = "ISSUED"
  /\ Side!IssuedNotesOf(b) = {}
  /\ Side!Begin(r, [op |-> "edit", inv |-> b, party |-> v, amount |-> t])

EditRead(r, b, v, t) == Side!EditRead(r, b, v, t)
EditDelete(r) == Side!EditDelete(r)
EditCommit(r) == Side!EditCommit(r)

(* Broken variant: the vouchers of the debit notes are forgotten. *)
RemoveRead_NotesForgotten(r, b) ==
  /\ "remove" \in Ops
  /\ b \in Side!Live
  /\ Side!Begin(r, [op |-> "remove", inv |-> b,
                    ids |-> {bill[b].voucher}
                              \cup Side!VoucherRefs(Side!PaymentsOf(b))])

RemoveRead(r, b) == Side!RemoveRead(r, b)
RemoveDelete(r) == Side!RemoveDelete(r)
RemoveCommit(r) == Side!RemoveCommit(r)

VoucherCancel(r, v) == Side!VoucherCancel(r, v)
Abandon(r) == Side!Abandon(r)

Next ==
  \E r \in Requests :
    \/ \E b \in Bills :
         \/ \E v \in Vendors, a \in Amounts : Create(r, b, v, a) \/ EditRead(r, b, v, a)
         \/ \E a \in Amounts : PayRead(r, b, a) \/ NoteRead(r, b, a)
         \/ CancelRead(r, b)
         \/ RemoveRead(r, b)
    \/ PayCommit(r)
    \/ NoteCommit(r)
    \/ CancelCommit(r)
    \/ EditDelete(r)
    \/ EditCommit(r)
    \/ RemoveDelete(r)
    \/ RemoveCommit(r)
    \/ \E n \in debitNotes : NoteCancel(r, n)
    \/ \E v \in DOMAIN vouchers : VoucherCancel(r, v)
    \/ Abandon(r)

Spec == Init /\ [][Next]_vars

-----------------------------------------------------------------------------
Quiet == \A r \in Requests : req[r] = Side!Idle

IssuedBillsOf(v) == {b \in Bills : bill[b].status = "ISSUED" /\ bill[b].party = v}

(* What the vendor is owed, by openDocuments: debit notes are not deducted.  *)
VendorBalance(v) ==
  SumFunctionOnSet([b \in Bills |-> bill[b].total - Side!Paid(b)], IssuedBillsOf(v))

(* The same in the list of parties, where no bill counts less than nothing.  *)
ListedBalance(v) ==
  LET open(b) == bill[b].total - Side!Paid(b)
  IN SumFunctionOnSet([b \in Bills |-> IF open(b) > 0 THEN open(b) ELSE 0], IssuedBillsOf(v))

(* No voucher of a standing document has been cancelled by itself.           *)
InStep ==
  LET issued == {bill[b].voucher : b \in {b \in Bills : bill[b].status = "ISSUED"}}
      noted == {n \in debitNotes : n.status = "ISSUED"}
  IN  \A v \in issued \cup Side!VoucherRefs(payments \cup noted) :
        vouchers[v].status = "ACTIVE"

(* With requests one at a time: the vendor's ledger is the vendor's balance
   less the debit notes issued on the bills, through payments, edits, returns,
   cancellations and removals.  The two are apart by exactly what was returned,
   as long as no document's voucher has been cancelled under it. *)
PayableTies ==
  Quiet /\ InStep => \A v \in Vendors :
    Side!LedgerBalance(v) =
      VendorBalance(v) - SumFunctionOnSet([b \in Bills |-> Side!Noted(b)], IssuedBillsOf(v))

(* With requests one at a time: outstandingByParty and statement agree on every
   vendor.  No bill is ever paid beyond its total, whatever edits it has seen,
   so that the zero the list stops at is never passed. *)
ListTiesStatement == Quiet => \A v \in Vendors : ListedBalance(v) = VendorBalance(v)
=============================================================================
