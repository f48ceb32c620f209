-------------------------------- MODULE Books --------------------------------
(***************************************************************************)
(* The sums that must agree, one component at a time: each behaviour is    *)
(* one of the component picked at the start, and the variables of the      *)
(* others keep their initial values.  A customer's account (PartyAccount)  *)
(* is extended, the others are instances; where theorems are cited of a    *)
(* component, it is its module of proofs that is instantiated.             *)
(***************************************************************************)
EXTENDS PartyAccount, Sequences

CONSTANTS
  Requests, Invoices, Bills,           \* the sales and the purchases side, ...
  Parties,                             \* ... whose customers and vendors these are
  MaxVouchers, MaxBillVouchers, MaxEdits,
  Clerks, Forms, MaxLedgers,           \* Ledgers, while reports are read, ...
  Names, MaxAmount, MaxDay, MaxPosted,
  NewNames, MaxNewAmount, MaxNewDay, MaxNewPosted,   \* ... and while parties are renamed
  Customers, Away, GstInvoices, GstNotes, Periods, Drafts, Codes, Threshold   \* GstReturns

Parts == {"sales", "purchases", "reports", "names", "party", "gst"}

VARIABLES
  part,
  invoice, payments, notes, vouchers, req,                   \* SalesInvoice
  bill, billPayments, debitNotes, billVouchers, billReq,     \* Purchases
  ledgers, parties, entries, queries,                        \* Ledgers
  gstin, inv, note, gstBooks                                 \* GstReturns

SaleOps == {"pay", "note", "edit", "cancel", "remove", "cancelNote"}

Sales == INSTANCE SalesInvoiceProofs WITH
  Ops <- SaleOps, DocumentVoucher <- "SALES", PaymentVoucher <- "RECEIPT", NoteVoucher <- "CREDIT_NOTE"

(* A bill's vouchers may be cancelled under it as well.                        *)
Payables == INSTANCE Purchases WITH
  payments <- billPayments, vouchers <- billVouchers, req <- billReq,
  Vendors <- Parties, Ops <- SaleOps \cup {"cancelVoucher"}, MaxVouchers <- MaxBillVouchers

Reports == INSTANCE LedgersProofs WITH
  vouchers <- entries, req <- queries,
  Requests <- Clerks, Ops <- {"insert", "freight", "voucher", "report"}, MaxVouchers <- MaxPosted

Renamed == INSTANCE LedgersProofs WITH
  vouchers <- entries, req <- queries,
  Requests <- Clerks, Ops <- {"insert", "rename", "voucher"}, Names <- NewNames,
  Forms <- {form \in Forms : form.owner = "party"},
  MaxAmount <- MaxNewAmount, MaxDay <- MaxNewDay, MaxVouchers <- MaxNewPosted

(* The documents of the returns: what GstCalculator makes of a draft, within the
   state and across its border. *)
Calculator == INSTANCE GstCalculator
CodedLine(item, inter) ==
  LET l == Calculator!LineOf(item, inter, item.short)
  IN [gst |-> item.gst, hsn |-> item.hsn,
      taxable |-> l.taxable, cgst |-> l.cgst, sgst |-> l.sgst, igst |-> l.igst]
LinesOf(draft, inter) == [k \in DOMAIN draft.items |-> CodedLine(draft.items[k], inter)]
Documents ==
  [n \in DOMAIN Drafts |-> [inter \in BOOLEAN |->
     [lines |-> LinesOf(Drafts[n], inter),
      sums |-> Calculator!Calculated(LinesOf(Drafts[n], inter), Drafts[n].extra)]]]

Gst == INSTANCE GstReturns WITH
  Parties <- Customers, Invoices <- GstInvoices, Notes <- GstNotes, Bills <- Documents, books <- gstBooks

ASSUME LedgersAssumption == ConstantsOK /\ Reports!ConstantsOK /\ Renamed!ConstantsOK

ASSUME SidesAssumption ==
  /\ IsFiniteSet(Invoices) /\ IsFiniteSet(Bills)
  /\ None \notin Invoices \cup Bills \cup Parties
  /\ MaxVouchers \in Nat /\ MaxBillVouchers \in Nat /\ MaxEdits \in Nat

(* The services do not see to this: it is what the sums of both sides rest on, and
   what two requests do to one invoice is the subject of MCSalesInvoice. *)
OneAtATime == \A r, s \in Requests : r = s

(* Whatever is sold, at any rate.                                              *)
Item == [qty : Nat, rate : Nat, disc : 0..100, gst : Nat, short : BOOLEAN, hsn : Codes \cup {None}]
GstRows ==
  [party : Customers, period : Periods, inter : BOOLEAN, bill : DOMAIN Drafts, issued : BOOLEAN,
   of : GstInvoices \cup {None}]
GstVouchers ==
  [period : Periods, active : BOOLEAN,
   amounts : [{"party", "sales", "cgst", "sgst", "igst", "freight", "rounding"} -> Int]]
ASSUME GstAssumption ==
  /\ Drafts \in Seq([items : Seq(Item), extra : Nat])
  /\ IsFiniteSet(GstInvoices) /\ IsFiniteSet(GstNotes) /\ GstInvoices \cap GstNotes = {}
  /\ None \notin GstInvoices \cup GstRows \cup GstVouchers

-----------------------------------------------------------------------------
(* What is free at the start of one component is fixed in the others.          *)
BooksInit ==
  /\ part \in Parts
  /\ Init /\ Sales!Init /\ Payables!Init /\ Reports!Init /\ Gst!Init
  /\ part # "party" => link = "invoice" /\ tracked = None
  /\ part # "gst" => gstin = {}

saleVars == <<invoice, payments, notes, vouchers, req>>
billVars == <<bill, billPayments, debitNotes, billVouchers, billReq>>
ledgerVars == <<ledgers, parties, entries, queries>>
gstVars == <<gstin, inv, note, gstBooks>>

Rest(p) ==
  /\ part = p /\ part' = p
  /\ p # "sales" => UNCHANGED saleVars
  /\ p # "purchases" => UNCHANGED billVars
  /\ p \notin {"reports", "names"} => UNCHANGED ledgerVars
  /\ p # "party" => UNCHANGED vars
  /\ p # "gst" => UNCHANGED gstVars

BooksNext ==
  \/ Rest("sales") /\ Sales!Next
  \/ Rest("purchases") /\ Payables!Next
  \/ Rest("reports") /\ Reports!Next
  \/ Rest("names") /\ Renamed!Next
  \/ Rest("party") /\ Next
  \/ Rest("gst") /\ Gst!Next

booksVars == <<part, vars, saleVars, billVars, ledgerVars, gstVars>>
BooksSpec == BooksInit /\ [][BooksNext]_booksVars

-----------------------------------------------------------------------------
BooksTypeOK ==
  /\ part \in Parts
  /\ part = "sales" => Sales!TypeOK
  /\ part = "purchases" => Payables!Side!TypeOK
  /\ part = "reports" => Reports!TypeOK
  /\ part = "names" => Renamed!TypeOK
  /\ part = "party" => TypeOK
  /\ part = "gst" => Gst!TypeOK

(* Between requests a customer's ledger and invoices say the same.             *)
BooksTie == part = "sales" => Sales!BooksTie

(* Invoices are settled as module Settlement specifies, never beyond their total,
   and no payment is taken of what has been returned. *)
Settles == Sales!Settles
WithinTotal == Sales!WithinTotal
PaidOutOfBalance == Sales!PaidOutOfBalance

(* A vendor's ledger is the balance of the bills less what was returned, and a
   customer's is opening, documents, advances and receipts on account, which a
   customer with documents of one kind only owes. *)
LedgersExplained ==
  /\ part = "purchases" => Payables!PayableTies
  /\ part = "party" => LedgerExplained /\ StatementIsLedger

(* List, open documents and statement of a party agree, for both kinds.        *)
BalancesAgree ==
  /\ part = "purchases" => Payables!ListTiesStatement
  /\ part = "party" => DisplaysAgree

(* Trial balance and balance sheet have two equal sides.                       *)
ReportsTie == part = "reports" => Reports!ReportsTie

(* Statements and profits of consecutive periods connect.                      *)
PeriodsChain ==
  /\ part = "reports" => Reports!PeriodsChain
  /\ part = "names" => Renamed!PeriodsChain

(* A party and its ledger have one name.                                       *)
Lockstep == part = "names" => Renamed!Lockstep

(* The GST returns of a month are what the books gained in it, and agree.      *)
ReturnTiesBooks == part = "gst" => Gst!ReturnTiesBooks /\ Gst!SectionsTieReturn /\ Gst!TablesTieReturn
=============================================================================
