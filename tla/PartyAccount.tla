---------------------------- MODULE PartyAccount ----------------------------
(***************************************************************************)
(* One customer's account across all documents, one request at a time:     *)
(* invoices, estimates (booked as bills or not), credit notes, receipts of *)
(* all three kinds.  The ledger is what the vouchers say.  The outstanding *)
(* balance is what the documents of ONE type say, the type tracked for the *)
(* party or inherited from the company's payment link.  Payments and notes *)
(* are kept as sums: a receipt or a note of each amount can be in them.    *)
(***************************************************************************)
EXTENDS Integers, FiniteSets, Functions

CONSTANTS
  Docs,      \* identities a document may be created with
  Opening,   \* signed opening balance of the party's ledger
  MaxTotal,  \* bound: totals are 1..MaxTotal, of which at most one is charges
  MaxPaid,   \* bound: advances and receipts on account, together
  None

VARIABLES
  doc,        \* the invoices and estimates tables
  onAccount,  \* receipts of the party that are linked to no document
  ledger,     \* net debit of the party's ledger
  link,       \* companies.salesPaymentLink
  tracked     \* parties.balanceDocType

vars == <<doc, onAccount, ledger, link, tracked>>

Types == {"invoice", "estimate"}
Amounts == 1..MaxTotal
Absent == [kind |-> None]

(* The customer's documents are finitely many, and None is none of them. *)
ConstantsOK ==
  /\ IsFiniteSet(Docs)
  /\ None \notin Docs \cup Types
  /\ Opening \in Int
  /\ MaxTotal \in Nat

(* charges: freight and other charges, part of the total.  paid: for an estimate
   its advances.  invoice: what an estimate was converted into. *)
Document(kind, total, charges, booked) ==
  [kind |-> kind, total |-> total, charges |-> charges, paid |-> 0, noted |-> 0,
   status |-> IF kind = "invoice" THEN "ISSUED" ELSE "OPEN", booked |-> booked, invoice |-> None]

Init ==
  /\ doc = [d \in Docs |-> Absent]
  /\ onAccount = 0
  /\ ledger = Opening
  /\ link \in Types
  /\ tracked \in Types \cup {None}

IsA(d, kind, statuses) == doc[d].kind = kind /\ doc[d].status \in statuses

(* invoices.create; what the customer owes is debited.                       *)
CreateInvoice(d, t, c) ==
  /\ doc[d] = Absent
  /\ doc' = [doc EXCEPT ![d] = Document("invoice", t, c, TRUE)]
  /\ ledger' = ledger + t
  /\ UNCHANGED <<onAccount, link, tracked>>

PayInvoice(d, a) ==
  /\ IsA(d, "invoice", {"ISSUED"})
  /\ a <= doc[d].total - doc[d].paid - doc[d].noted
  /\ doc' = [doc EXCEPT ![d].paid = @ + a]
  /\ ledger' = ledger - a
  /\ UNCHANGED <<onAccount, link, tracked>>

(* A credit note is held to the total less earlier notes, whatever is paid.  *)
CreditInvoice(d, a) ==
  /\ IsA(d, "invoice", {"ISSUED"})
  /\ a <= doc[d].total - doc[d].noted
  /\ doc' = [doc EXCEPT ![d].noted = @ + a]
  /\ ledger' = ledger - a
  /\ UNCHANGED <<onAccount, link, tracked>>

CancelNote(d, a) ==
  /\ IsA(d, "invoice", {"ISSUED"})
  /\ a <= doc[d].noted
  /\ doc' = [doc EXCEPT ![d].noted = @ - a]
  /\ ledger' = ledger + a
  /\ UNCHANGED <<onAccount, link, tracked>>

Unsettled(d) == doc[d].paid = 0 /\ doc[d].noted = 0

EditInvoice(d, t) ==
  /\ IsA(d, "invoice", {"ISSUED"})
  /\ Unsettled(d)
  /\ doc' = [doc EXCEPT ![d].total = t, ![d].charges = 0]
  /\ ledger' = ledger + t - doc[d].total
  /\ UNCHANGED <<onAccount, link, tracked>>

CancelInvoice(d) ==
  /\ IsA(d, "invoice", {"ISSUED"})
  /\ Unsettled(d)
  /\ doc' = [doc EXCEPT ![d].status = "CANCELLED"]
  /\ ledger' = ledger - doc[d].total
  /\ UNCHANGED <<onAccount, link, tracked>>

InBooks(d) ==
  CASE doc[d].kind = "invoice" /\ doc[d].status = "ISSUED" ->
         doc[d].total - doc[d].paid - doc[d].noted
    [] doc[d].kind = "estimate" /\ doc[d].booked /\ doc[d].status # "CANCELLED" -> doc[d].total
    [] OTHER -> 0

(* The invoice goes with its receipts and notes; the estimate it came from is
   back where it was accepted. *)
RemoveInvoice(d) ==
  /\ IsA(d, "invoice", {"ISSUED", "CANCELLED"})
  /\ doc' = [e \in Docs |->
               CASE e = d -> Absent
                 [] e # d /\ doc[e].kind = "estimate" ->
                      IF doc[e].invoice = d
                      THEN [doc[e] EXCEPT !.invoice = None, !.status = "ACCEPTED"] ELSE doc[e]
                 [] OTHER -> doc[e]]
  /\ ledger' = ledger - InBooks(d)
  /\ UNCHANGED <<onAccount, link, tracked>>

(* Booked as a bill when the company reconciles against estimates; the type the
   customer is tracked by is not asked. *)
CreateEstimate(d, t, c) ==
  LET booked == link = "estimate"
  IN /\ doc[d] = Absent
     /\ doc' = [doc EXCEPT ![d] = Document("estimate", t, c, booked)]
     /\ ledger' = IF booked THEN ledger + t ELSE ledger
     /\ UNCHANGED <<onAccount, link, tracked>>

EditEstimate(d, t) ==
  /\ IsA(d, "estimate", {"OPEN", "ACCEPTED", "DECLINED"})
  /\ ~ doc[d].booked
  /\ doc' = [doc EXCEPT ![d].total = t, ![d].charges = 0]
  /\ UNCHANGED <<onAccount, ledger, link, tracked>>

(* Nothing is posted: a declined estimate that was booked stays in the books. *)
SetStatus(d, s) ==
  /\ IsA(d, "estimate", {"OPEN", "ACCEPTED", "DECLINED"})
  /\ doc' = [doc EXCEPT ![d].status = s]
  /\ UNCHANGED <<onAccount, ledger, link, tracked>>

CancelEstimate(d) ==
  /\ IsA(d, "estimate", {"OPEN", "ACCEPTED", "DECLINED"})
  /\ doc[d].booked => doc[d].paid = 0
  /\ doc' = [doc EXCEPT ![d].status = "CANCELLED"]
  /\ ledger' = IF doc[d].booked THEN ledger - doc[d].total ELSE ledger
  /\ UNCHANGED <<onAccount, link, tracked>>

(* Broken variant: the advances go with the estimate, their vouchers stay. *)
RemoveEstimate_AdvancesLost(d) ==
  /\ doc[d].kind = "estimate"
  /\ doc' = [doc EXCEPT ![d] = Absent]
  /\ ledger' = ledger - InBooks(d)
  /\ UNCHANGED <<onAccount, link, tracked>>

(* Advances become receipts on account; the voucher of a booked one is deleted. *)
RemoveEstimate(d) ==
  /\ doc[d].kind = "estimate"
  /\ doc' = [doc EXCEPT ![d] = Absent]
  /\ onAccount' = onAccount + doc[d].paid
  /\ ledger' = ledger - InBooks(d)
  /\ UNCHANGED <<link, tracked>>

(* The invoice is made from the lines: freight and other charges are dropped. *)
Convert(d, i) ==
  /\ IsA(d, "estimate", {"OPEN", "ACCEPTED"})
  /\ ~ doc[d].booked
  /\ doc[i] = Absent
  /\ doc[d].total > doc[d].charges
  /\ LET t == doc[d].total - doc[d].charges
     IN /\ doc' = [doc EXCEPT ![i] = Document("invoice", t, 0, TRUE),
                     ![d].status = "CONVERTED", ![d].invoice = i]
        /\ ledger' = ledger + t
  /\ UNCHANGED <<onAccount, link, tracked>>

Estimates == {d \in Docs : doc[d].kind = "estimate"}
Advances == SumFunctionOnSet([d \in Estimates |-> doc[d].paid], Estimates)

(* recordPartyPayment: any amount, for any estimate of the customer, or none. *)
Advance(d, a) ==
  /\ doc[d].kind = "estimate"
  /\ Advances + onAccount + a <= MaxPaid
  /\ doc' = [doc EXCEPT ![d].paid = @ + a]
  /\ ledger' = ledger - a
  /\ UNCHANGED <<onAccount, link, tracked>>

PayOnAccount(a) ==
  /\ Advances + onAccount + a <= MaxPaid
  /\ onAccount' = onAccount + a
  /\ ledger' = ledger - a
  /\ UNCHANGED <<doc, link, tracked>>

(* deletePartyPayment: its voucher is cancelled and the row removed.         *)
DeleteAdvance(d, a) ==
  /\ doc[d].kind = "estimate"
  /\ a <= doc[d].paid
  /\ doc' = [doc EXCEPT ![d].paid = @ - a]
  /\ ledger' = ledger + a
  /\ UNCHANGED <<onAccount, link, tracked>>

DeleteOnAccount(a) ==
  /\ a <= onAccount
  /\ onAccount' = onAccount - a
  /\ ledger' = ledger + a
  /\ UNCHANGED <<doc, link, tracked>>

(* Company settings and updateParty: no document is touched.                 *)
Retrack(l, t) ==
  /\ <<l, t>> # <<link, tracked>>
  /\ link' = l
  /\ tracked' = t
  /\ UNCHANGED <<doc, onAccount, ledger>>

Next ==
  \/ \E d \in Docs :
       \/ \E t \in Amounts, c \in 0..1 : CreateInvoice(d, t, c) \/ CreateEstimate(d, t, c)
       \/ \E a \in Amounts : \/ PayInvoice(d, a)
                             \/ CreditInvoice(d, a)
                             \/ CancelNote(d, a)
                             \/ EditInvoice(d, a)
                             \/ EditEstimate(d, a)
                             \/ Advance(d, a)
                             \/ DeleteAdvance(d, a)
       \/ \E s \in {"OPEN", "ACCEPTED", "DECLINED"} : SetStatus(d, s)
       \/ \E i \in Docs : Convert(d, i)
       \/ CancelInvoice(d)
       \/ RemoveInvoice(d)
       \/ CancelEstimate(d)
       \/ RemoveEstimate(d)
  \/ \E a \in Amounts : PayOnAccount(a) \/ DeleteOnAccount(a)
  \/ \E l \in Types, t \in Types \cup {None} : Retrack(l, t)

Spec == Init /\ [][Next]_vars

-----------------------------------------------------------------------------
(* PartyBalanceService. *)

(* resolveDocType: the party's own type, or else the company's link.         *)
DocType == IF tracked # None THEN tracked ELSE link

(* The documents of a type that are an obligation: issued invoices; estimates
   neither cancelled nor declined nor converted. *)
Live(kind) ==
  {d \in Docs : IF kind = "invoice" THEN IsA(d, kind, {"ISSUED"})
                ELSE IsA(d, kind, {"OPEN", "ACCEPTED"})}

(* Broken variant: a return does not lessen what is owed. *)
Due_NotesForgotten(d) == doc[d].total - doc[d].paid

(* balanceDue of a document, notes counted.                                  *)
Due(d) == doc[d].total - doc[d].paid - doc[d].noted

(* statement and outstandingDetail.                                          *)
DueOf(docs) == SumFunctionOnSet([d \in docs |-> Due(d)], docs)
Statement == DueOf(Live(DocType))
Detail == DueOf({d \in Live(DocType) : Due(d) > 0})

(* Broken variant: the list lets an overpaid document count against the rest. *)
Listed_Unclamped == DueOf(Live(DocType))

(* What each document adds to the bulk sums; advances are an estimate's only
   settlement. *)
Clamped(amount) == IF amount > 0 THEN amount ELSE 0
SumInvoices == SumFunctionOnSet([d \in Live("invoice") |-> Clamped(Due(d))], Live("invoice"))
SumEstimates ==
  SumFunctionOnSet([d \in Live("estimate") |-> Clamped(doc[d].total - doc[d].paid)],
                   Live("estimate"))

(* outstandingByParty, of which the list of parties shows one entry.         *)
Listed == IF DocType = "invoice" THEN SumInvoices ELSE SumEstimates

(* The dashboard, for a company of this one customer and its year: what was sold
   by the company's link, a converted estimate in it, and what is to collect. *)
Sold == {d \in Docs : IF link = "invoice" THEN IsA(d, "invoice", {"ISSUED"})
                      ELSE IsA(d, "estimate", {"OPEN", "ACCEPTED", "CONVERTED"})}
SalesFigure == SumFunctionOnSet([d \in Sold |-> doc[d].total], Sold)
Receivables == Listed

-----------------------------------------------------------------------------
TypeOK ==
  /\ \A d \in Docs : doc[d] = Absent \/
       /\ doc[d].kind \in Types /\ doc[d].total \in Amounts /\ doc[d].charges \in 0..1
       /\ doc[d].paid \in Nat /\ doc[d].noted \in Nat /\ doc[d].booked \in BOOLEAN
       /\ doc[d].status \in (IF doc[d].kind = "invoice" THEN {"ISSUED", "CANCELLED"}
            ELSE {"OPEN", "ACCEPTED", "DECLINED", "CANCELLED", "CONVERTED"})
       /\ doc[d].invoice # None => IsA(doc[d].invoice, "invoice", {"ISSUED", "CANCELLED"})
  /\ onAccount \in Nat /\ ledger \in Int
  /\ link \in Types /\ tracked \in Types \cup {None}

(* Through any course of documents, receipts, conversions, removals and
   switches, the ledger is explained by the documents: opening, issued invoices
   less what was paid and returned, booked estimates that are not cancelled,
   less the advances and the receipts on account. *)
LedgerExplained ==
  ledger = Opening + SumFunctionOnSet([d \in Docs |-> InBooks(d)], Docs) - Advances - onAccount

(* The displays of the outstanding amount agree: the list with the open
   documents behind it always; the statement, which lets a document count
   less than nothing, never above them, and equal to them unless a document was
   settled beyond its total (a return of what was paid, or an advance too large).
   The dashboard never has more to collect than it has sold, where the customer
   is tracked by the documents the company's link counts as sales. *)
DisplaysAgree ==
  /\ Listed = Detail
  /\ Statement <= Listed
  /\ (\A d \in Live(DocType) : Due(d) >= 0) => Statement = Listed
  /\ DocType = link => Receivables <= SalesFigure

(* A customer with nothing on account, no opening, and no live or booked document
   but those of the tracked type owes by the statement what the ledger says, if
   each estimate live in it was booked and each booked one is live in it. *)
OneTypeOnly ==
  /\ Opening = 0 /\ onAccount = 0
  /\ \A d \in Docs : doc[d].kind # None =>
       \/ doc[d].status = "CANCELLED" /\ doc[d].paid = 0
       \/ d \in Live(DocType) /\ doc[d].booked
       \/ doc[d].status = "CONVERTED" /\ DocType = "invoice" /\ doc[d].paid = 0
StatementIsLedger == OneTypeOnly => Statement = ledger
=============================================================================
