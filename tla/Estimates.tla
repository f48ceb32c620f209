------------------------------ MODULE Estimates ------------------------------
(***************************************************************************)
(* The life of an estimate: edited, accepted or declined, cancelled,       *)
(* removed, converted into an invoice or, in a company that books its      *)
(* estimates as bills, posted to the books when it is created.  None of    *)
(* the handlers but removal is one transaction: conversion creates the     *)
(* invoice and links it later, cancellation writes the estimate and voids  *)
(* its voucher later, and every handler writes what it decided on an       *)
(* earlier read.  A step is one awaited database call or transaction.      *)
(***************************************************************************)
EXTENDS Naturals, Sequences, FiniteSets

CONSTANTS
  Requests,     \* concurrent API requests
  EstimateIds,  \* identities an estimate may be created with
  Lines,        \* the lines an estimate may have, with their rates of tax
  Convertible,  \* those that are taxed and of no item tracked in batches
  MaxInvoices,  \* bound: invoices ever created by conversions
  MaxVouchers,  \* bound: vouchers ever posted here
  None

ASSUME BoundsAssumption ==
  Convertible \subseteq Lines /\ MaxInvoices \in Nat /\ MaxVouchers \in Nat
ASSUME NoneAssumption == None \notin EstimateIds

VARIABLES
  estimate,   \* the estimates table ("NONE": not created, "GONE": deleted)
  invoices,   \* invoices made by conversions, in order of creation
  vouchers,   \* vouchers of booked estimates and of advances
  advances,   \* the party_payments table
  req,        \* what each request has read and has still to do
  voided,     \* history: vouchers cancelled at the accounting endpoint
  disturbed   \* history: estimates that two requests handled at a time, that
              \* a request lost midway left half written, or whose voucher was
              \* cancelled under them

tables == <<estimate, invoices, vouchers, advances>>
vars == <<estimate, invoices, vouchers, advances, req, voided, disturbed>>

(* What an estimate bills: its lines, with or without freight and other charges. *)
Contents == [lines : Lines, charges : BOOLEAN]
Settable == {"OPEN", "ACCEPTED", "DECLINED"}
NoEstimate == [status |-> "NONE", bills |-> None, voucher |-> 0, invoice |-> 0]
Idle == [op |-> "idle"]

Stored == {e \in EstimateIds : estimate[e].status \notin {"NONE", "GONE"}}
Booked(e) == estimate[e].voucher # 0
AdvancesOf(e) == {a \in advances : a.estimate = e}
LiveInvoices == {k \in DOMAIN invoices : invoices[k].status # "GONE"}
InvoicesOf(e) == {k \in LiveInvoices : invoices[k].estimate = e}

(* A removal of its invoice has updated the row and not yet committed.       *)
Locked(e) == \E r \in Requests : req[r].op = "unlink" /\ e \in req[r].reverted

NewVoucher == Len(vouchers) + 1
Post(type) ==
  /\ Len(vouchers) < MaxVouchers
  /\ vouchers' = Append(vouchers, [type |-> type, status |-> "ACTIVE"])

Begin(r, reading) ==
  /\ req[r] = Idle
  /\ req' = [req EXCEPT ![r] = reading]
  /\ disturbed' = IF \E s \in Requests : req[s] # Idle /\ req[s].est = reading.est
                  THEN disturbed \cup {reading.est} ELSE disturbed
  /\ UNCHANGED voided

Goto(r, reading) == req' = [req EXCEPT ![r] = reading] /\ UNCHANGED <<voided, disturbed>>
End(r) == Goto(r, Idle)

Init ==
  /\ estimate = [e \in EstimateIds |-> NoEstimate]
  /\ invoices = <<>>
  /\ vouchers = <<>>
  /\ advances = {}
  /\ req = [r \in Requests |-> Idle]
  /\ voided = {} /\ disturbed = {}

-----------------------------------------------------------------------------
(* salesPaymentLink = 'estimate' books the estimate as a bill.               *)
Create(r, e, c, bookAsBill) ==
  /\ req[r] = Idle
  /\ estimate[e].status = "NONE"
  /\ IF bookAsBill THEN Post("SALES") ELSE UNCHANGED vouchers
  /\ estimate' = [estimate EXCEPT ![e] =
                    [status |-> "OPEN", bills |-> c, invoice |-> 0,
                     voucher |-> IF bookAsBill THEN NewVoucher ELSE 0]]
  /\ UNCHANGED <<invoices, advances, req, voided, disturbed>>

UpdateRead(r, e, c) ==
  /\ e \in Stored
  /\ estimate[e].status \notin {"CONVERTED", "CANCELLED"}
  /\ ~ Booked(e)
  /\ Begin(r, [op |-> "update", est |-> e, bills |-> c])
  /\ UNCHANGED tables

UpdateCommit(r) ==
  /\ req[r].op = "update"
  /\ req[r].est \in Stored
  /\ ~ Locked(req[r].est)
  /\ estimate' = [estimate EXCEPT ![req[r].est].bills = req[r].bills]
  /\ End(r)
  /\ UNCHANGED <<invoices, vouchers, advances>>

(* Broken variant: a converted estimate can be declined or reopened. *)
StatusRead_AnyTime(r, e, s) ==
  /\ e \in Stored
  /\ estimate[e].status # "CANCELLED"
  /\ Begin(r, [op |-> "status", est |-> e, status |-> s])
  /\ UNCHANGED tables

StatusRead(r, e, s) ==
  /\ e \in Stored
  /\ estimate[e].status \notin {"CONVERTED", "CANCELLED"}
  /\ Begin(r, [op |-> "status", est |-> e, status |-> s])
  /\ UNCHANGED tables

StatusCommit(r) ==
  /\ req[r].op = "status"
  /\ req[r].est \in Stored
  /\ ~ Locked(req[r].est)
  /\ estimate' = [estimate EXCEPT ![req[r].est].status = req[r].status]
  /\ End(r)
  /\ UNCHANGED <<invoices, vouchers, advances>>

(* cancel: a booked estimate's advances are counted by a second query.       *)
CancelRead(r, e) ==
  /\ e \in Stored
  /\ estimate[e].status \notin {"CONVERTED", "CANCELLED"}
  /\ Begin(r, [op |-> IF Booked(e) THEN "count" ELSE "cancel", est |-> e,
               voucher |-> estimate[e].voucher])
  /\ UNCHANGED tables

CancelCount(r) ==
  /\ req[r].op = "count"
  /\ AdvancesOf(req[r].est) = {}
  /\ Goto(r, [req[r] EXCEPT !.op = "cancel"])
  /\ UNCHANGED tables

(* Broken variant: the voucher is voided of an estimate that has none. *)
CancelWrite_AlwaysVoids(r) ==
  /\ req[r].op = "cancel"
  /\ req[r].est \in Stored
  /\ ~ Locked(req[r].est)
  /\ estimate' = [estimate EXCEPT ![req[r].est].status = "CANCELLED"]
  /\ Goto(r, [req[r] EXCEPT !.op = "void"])
  /\ UNCHANGED <<invoices, vouchers, advances>>

(* Broken variant: the voucher is forgotten. *)
CancelWrite_EstimateOnly(r) ==
  /\ req[r].op = "cancel"
  /\ req[r].est \in Stored
  /\ ~ Locked(req[r].est)
  /\ estimate' = [estimate EXCEPT ![req[r].est].status = "CANCELLED"]
  /\ End(r)
  /\ UNCHANGED <<invoices, vouchers, advances>>

CancelWrite(r) ==
  /\ req[r].op = "cancel"
  /\ req[r].est \in Stored
  /\ ~ Locked(req[r].est)
  /\ estimate' = [estimate EXCEPT ![req[r].est].status = "CANCELLED"]
  /\ Goto(r, IF req[r].voucher = 0 THEN Idle ELSE [req[r] EXCEPT !.op = "void"])
  /\ UNCHANGED <<invoices, vouchers, advances>>

(* accounting.cancelVoucher, in a transaction of its own; it answers with an
   error when the voucher is not active any more. *)
CancelVoid(r) ==
  /\ req[r].op = "void"
  /\ vouchers' = [vouchers EXCEPT ![req[r].voucher].status =
                    IF @ = "ACTIVE" THEN "CANCELLED" ELSE @]
  /\ End(r)
  /\ UNCHANGED <<estimate, invoices, advances>>

RemoveRead(r, e) ==
  /\ e \in Stored
  /\ Begin(r, [op |-> "remove", est |-> e, voucher |-> estimate[e].voucher])
  /\ UNCHANGED tables

OnAccount(e) == {IF a.estimate = e THEN [a EXCEPT !.estimate = None] ELSE a :
                   a \in advances}

(* Broken variant: only the estimate is deleted, as if it were never booked. *)
RemoveCommit_KeepsVoucher(r) ==
  /\ req[r].op = "remove"
  /\ req[r].est \in Stored
  /\ ~ Locked(req[r].est)
  /\ advances' = OnAccount(req[r].est)
  /\ estimate' = [estimate EXCEPT ![req[r].est].status = "GONE"]
  /\ End(r)
  /\ UNCHANGED <<invoices, vouchers>>

(* Broken variant: the receipts of the advances are cancelled with the bill. *)
RemoveCommit_CancelsReceipts(r) ==
  LET v == req[r].voucher
      theirs == {a.voucher : a \in AdvancesOf(req[r].est)}
  IN  /\ req[r].op = "remove"
      /\ req[r].est \in Stored
      /\ ~ Locked(req[r].est)
      /\ advances' = OnAccount(req[r].est)
      /\ estimate' = [estimate EXCEPT ![req[r].est].status = "GONE"]
      /\ vouchers' = [w \in DOMAIN vouchers |->
           IF w = v THEN [vouchers[w] EXCEPT !.status = "GONE"]
           ELSE IF w \in theirs THEN [vouchers[w] EXCEPT !.status = "CANCELLED"]
           ELSE vouchers[w]]
      /\ End(r)
      /\ UNCHANGED invoices

(* remove: advances stay on account, the receivable voucher is deleted.  An
   invoice made from the estimate is left alone. *)
RemoveCommit(r) ==
  LET v == req[r].voucher
  IN  /\ req[r].op = "remove"
      /\ req[r].est \in Stored
      /\ ~ Locked(req[r].est)
      /\ advances' = OnAccount(req[r].est)
      /\ estimate' = [estimate EXCEPT ![req[r].est].status = "GONE"]
      /\ vouchers' = IF v = 0 THEN vouchers
                              ELSE [vouchers EXCEPT ![v].status = "GONE"]
      /\ End(r)
      /\ UNCHANGED invoices

(* Broken variant: a booked estimate can be converted as well. *)
ConvertRead_Booked(r, e) ==
  /\ estimate[e].status \in {"OPEN", "ACCEPTED"}
  /\ estimate[e].invoice = 0
  /\ estimate[e].bills.lines \in Convertible
  /\ Begin(r, [op |-> "convert", est |-> e, bills |-> estimate[e].bills])
  /\ UNCHANGED tables

ConvertRead(r, e) ==
  /\ estimate[e].status \in {"OPEN", "ACCEPTED"}
  /\ estimate[e].invoice = 0
  /\ ~ Booked(e)
  /\ estimate[e].bills.lines \in Convertible
  /\ Begin(r, [op |-> "convert", est |-> e, bills |-> estimate[e].bills])
  /\ UNCHANGED tables

(* What an invoice takes over: the lines, each with the rate of tax stored on it.
   Neither freight nor other charges go along. *)
TakenOver(bills) == [bills EXCEPT !.charges = FALSE]

(* invoices.create, a transaction of its own, on the lines read above.  It computes
   the invoice's amounts from them anew. *)
ConvertInvoice(r) ==
  /\ req[r].op = "convert"
  /\ Len(invoices) < MaxInvoices
  /\ invoices' = Append(invoices, [estimate |-> req[r].est, bills |-> TakenOver(req[r].bills),
                                   status |-> "ISSUED"])
  /\ Goto(r, [op |-> "link", est |-> req[r].est, invoice |-> Len(invoices) + 1])
  /\ UNCHANGED <<estimate, vouchers, advances>>

(* The update that links the two; nothing is compared with what was read.    *)
ConvertLink(r) ==
  /\ req[r].op = "link"
  /\ req[r].est \in Stored
  /\ ~ Locked(req[r].est)
  /\ req[r].invoice \in LiveInvoices
  /\ estimate' = [estimate EXCEPT ![req[r].est].invoice = req[r].invoice,
                                  ![req[r].est].status = "CONVERTED"]
  /\ End(r)
  /\ UNCHANGED <<invoices, vouchers, advances>>

(* invoices cancel, of which the estimate hears nothing.                     *)
InvoiceCancel(r, k) ==
  /\ req[r] = Idle
  /\ invoices[k].status = "ISSUED"
  /\ invoices' = [invoices EXCEPT ![k].status = "CANCELLED"]
  /\ UNCHANGED <<estimate, vouchers, advances, req, voided, disturbed>>

(* invoices remove: its transaction first reverts the estimates linked now.  *)
InvoiceUnlink(r, k) ==
  LET linked == {e \in Stored : estimate[e].invoice = k}
  IN  /\ k \in LiveInvoices
      /\ \A e \in linked : ~ Locked(e)
      /\ Begin(r, [op |-> "unlink", est |-> invoices[k].estimate, invoice |-> k,
                   reverted |-> linked])
      /\ UNCHANGED tables

(* Broken variant: invoice.delete without the foreign key's SET NULL.        *)
InvoiceDelete_RevertedOnly(r) ==
  /\ req[r].op = "unlink"
  /\ req[r].invoice \in LiveInvoices
  /\ invoices' = [invoices EXCEPT ![req[r].invoice].status = "GONE"]
  /\ estimate' = [e \in EstimateIds |->
       IF e \in req[r].reverted
       THEN [estimate[e] EXCEPT !.invoice = 0, !.status = "ACCEPTED"]
       ELSE estimate[e]]
  /\ End(r)
  /\ UNCHANGED <<vouchers, advances>>

(* ... and then deletes the invoice; an estimate linked since loses its link
   to the foreign key (SET NULL) and stays CONVERTED. *)
InvoiceDelete(r) ==
  /\ req[r].op = "unlink"
  /\ req[r].invoice \in LiveInvoices
  /\ invoices' = [invoices EXCEPT ![req[r].invoice].status = "GONE"]
  /\ estimate' = [e \in EstimateIds |->
       IF e \in req[r].reverted
       THEN [estimate[e] EXCEPT !.invoice = 0, !.status = "ACCEPTED"]
       ELSE IF estimate[e].invoice = req[r].invoice
       THEN [estimate[e] EXCEPT !.invoice = 0] ELSE estimate[e]]
  /\ End(r)
  /\ UNCHANGED <<vouchers, advances>>

(* recordPartyPayment against an estimate: that it exists is all it asks.    *)
AdvanceRead(r, e) ==
  /\ e \in Stored
  /\ Begin(r, [op |-> "advance", est |-> e])
  /\ UNCHANGED tables

AdvanceCommit(r) ==
  /\ req[r].op = "advance"
  /\ req[r].est \in Stored
  /\ Post("RECEIPT")
  /\ advances' = advances \cup {[voucher |-> NewVoucher, estimate |-> req[r].est]}
  /\ End(r)
  /\ UNCHANGED <<estimate, invoices>>

(* deletePartyPayment: voucher and row in one transaction.                   *)
AdvanceDelete(r, a) ==
  /\ req[r] = Idle
  /\ vouchers' = [vouchers EXCEPT ![a.voucher].status = "CANCELLED"]
  /\ advances' = advances \ {a}
  /\ UNCHANGED <<estimate, invoices, req, voided, disturbed>>

(* The accounting endpoint cancels any voucher, a document's too.            *)
VoucherCancel(r, v) ==
  /\ req[r] = Idle
  /\ vouchers[v].status = "ACTIVE"
  /\ vouchers' = [vouchers EXCEPT ![v].status = "CANCELLED"]
  /\ voided' = voided \cup {v}
  /\ disturbed' = disturbed \cup {e \in EstimateIds : estimate[e].voucher = v}
  /\ UNCHANGED <<estimate, invoices, advances, req>>

(* A refusal, a lost connection, a timeout or a crash.  What the request has
   committed so far stays. *)
Abandon(r) ==
  /\ req[r] # Idle
  /\ req' = [req EXCEPT ![r] = Idle]
  /\ disturbed' = IF req[r].op \in {"void", "link"} THEN disturbed \cup {req[r].est}
                                                   ELSE disturbed
  /\ UNCHANGED voided
  /\ UNCHANGED tables

Next ==
  \E r \in Requests :
    \/ \E e \in EstimateIds :
         \/ \E c \in Contents :
              UpdateRead(r, e, c) \/ \E b \in BOOLEAN : Create(r, e, c, b)
         \/ \E s \in Settable : StatusRead(r, e, s)
         \/ CancelRead(r, e)
         \/ RemoveRead(r, e)
         \/ ConvertRead(r, e)
         \/ AdvanceRead(r, e)
    \/ \E k \in DOMAIN invoices : InvoiceCancel(r, k) \/ InvoiceUnlink(r, k)
    \/ \E a \in advances : AdvanceDelete(r, a)
    \/ \E v \in DOMAIN vouchers : VoucherCancel(r, v)
    \/ UpdateCommit(r)
    \/ StatusCommit(r)
    \/ CancelCount(r)
    \/ CancelWrite(r)
    \/ CancelVoid(r)
    \/ RemoveCommit(r)
    \/ ConvertInvoice(r)
    \/ ConvertLink(r)
    \/ InvoiceDelete(r)
    \/ AdvanceCommit(r)
    \/ Abandon(r)

Spec == Init /\ [][Next]_vars

-----------------------------------------------------------------------------
VoucherIds == DOMAIN vouchers
InvoiceIds == DOMAIN invoices

Row == [status : Settable \cup {"CONVERTED", "CANCELLED", "GONE"}, bills : Contents,
        voucher : VoucherIds \cup {0}, invoice : InvoiceIds \cup {0}]
Reading ==
  [op : {"update"}, est : EstimateIds, bills : Contents]
    \cup [op : {"status"}, est : EstimateIds, status : Settable]
    \cup [op : {"count", "cancel", "remove"}, est : EstimateIds,
          voucher : VoucherIds \cup {0}]
    \cup [op : {"void"}, est : EstimateIds, voucher : VoucherIds]
    \cup [op : {"convert"}, est : EstimateIds, bills : Contents]
    \cup [op : {"link"}, est : EstimateIds, invoice : InvoiceIds]
    \cup [op : {"unlink"}, est : EstimateIds, invoice : InvoiceIds,
          reverted : SUBSET EstimateIds]
    \cup [op : {"advance"}, est : EstimateIds]

(* Type invariant: estimates, advances and requests refer to vouchers and
   invoices that were created. *)
TypeOK ==
  /\ vouchers \in Seq([type : {"SALES", "RECEIPT"},
                       status : {"ACTIVE", "CANCELLED", "GONE"}])
  /\ invoices \in Seq([estimate : EstimateIds, bills : Contents,
                       status : {"ISSUED", "CANCELLED", "GONE"}])
  /\ estimate \in [EstimateIds -> Row \cup {NoEstimate}]
  /\ advances \subseteq [voucher : VoucherIds, estimate : EstimateIds \cup {None}]
  /\ req \in [Requests -> Reading \cup {Idle}]
  /\ voided \subseteq VoucherIds /\ disturbed \subseteq EstimateIds

(* "it is the final document and cannot be converted": whatever the order of
   requests, no invoice is ever made from an estimate booked as a bill, so
   that one sale is not in the books twice. *)
BookedIsFinal ==
  \A e \in EstimateIds : Booked(e) =>
    \A k \in InvoiceIds : invoices[k].estimate # e

(* A link leads to an invoice that exists and was made from this estimate,
   through removals of either that race with the conversion. *)
LinksAreSound ==
  \A e \in Stored : estimate[e].invoice # 0 => estimate[e].invoice \in InvoicesOf(e)

(* An estimate that is gone has taken its sale out of the books, even when a
   cancellation of it was still to void the voucher. *)
RemovedLeavesNoSale ==
  \A e \in EstimateIds :
    estimate[e].status = "GONE" /\ Booked(e) => vouchers[estimate[e].voucher].status = "GONE"

(* "Recorded advance receipts are left on-account (unlinked), not destroyed": a
   receipt nobody cancelled at the accounting endpoint is active exactly as long as
   its advance is on record, whatever becomes of the estimate it was paid against.
   None outlives its advance, none is deleted or cancelled under it, each has one. *)
AdvancesStayInBooks ==
  /\ \A v \in VoucherIds \ voided : vouchers[v].type = "RECEIPT" =>
       (vouchers[v].status = "ACTIVE" <=> \E a \in advances : a.voucher = v)
  /\ \A v \in voided : vouchers[v].status # "ACTIVE"
  /\ \A a \in advances : vouchers[a.voucher].type = "RECEIPT"
                          /\ vouchers[a.voucher].status # "GONE"
  /\ \A a, b \in advances : a.voucher = b.voucher => a = b

(* Two requests at a time, a crash between the two writes of a cancellation or
   a conversion, a voucher cancelled by itself: what these may spoil, nothing
   else does. *)
Settled(e) ==
  /\ e \in Stored \ disturbed
  /\ \A r \in Requests : req[r] # Idle => req[r].est # e

(* A booked estimate is in the books until it is cancelled, and not after.    *)
InBooksUntilCancelled ==
  \A e \in EstimateIds : Settled(e) /\ Booked(e) =>
    (vouchers[estimate[e].voucher].status = "ACTIVE" <=> estimate[e].status # "CANCELLED")

(* A converted estimate has its one invoice, for the lines it has itself and none of
   its charges; one that is not converted has none, so that neither is owed twice. *)
ConvertedOnce ==
  \A e \in EstimateIds : Settled(e) =>
    /\ InvoicesOf(e) = {estimate[e].invoice} \ {0}
    /\ estimate[e].status = "CONVERTED" <=> estimate[e].invoice # 0
    /\ \A k \in InvoicesOf(e) : invoices[k].bills = TakenOver(estimate[e].bills)

-----------------------------------------------------------------------------
(* "The invoice this estimate was converted into (one-to-one)": two requests
   that both find the estimate open make an invoice each. *)
OneInvoicePerEstimate == \A e \in EstimateIds : Cardinality(InvoicesOf(e)) <= 1
=============================================================================
