------------------------------- MODULE Posting -------------------------------
(***************************************************************************)
(* How a document gets its numbers and its fiscal year.  Every document of *)
(* the books (invoice, bill, note, estimate, receipt, manual voucher) is   *)
(* written by one database transaction that draws one number from each     *)
(* counter row it needs, in the order of the code, and inserts its rows.   *)
(* Upserting a counter row locks it until the transaction ends, so other   *)
(* postings that need the row wait; a transaction that is rolled back      *)
(* leaves the counter as it was.  A request runs in a session opened in    *)
(* one fiscal year.                                                        *)
(***************************************************************************)
EXTENDS Naturals, Sequences, FiniteSets

CONSTANTS
  Requests,      \* concurrent API requests
  Dates,         \* calendar dates, [y |-> year, m |-> month 1..12]
  FyStartMonth,  \* companies.fyStartMonth: no service ever changes it
  Kinds,         \* the kinds of document this instance posts
  MaxDocs,       \* bound: postings committed or in flight
  None

AllKinds == {"invoice", "conversion", "bill", "note", "estimate",
             "bookedEstimate", "receipt", "voucher", "salesVoucher"}

ASSUME KindsAssumption == Kinds \subseteq AllKinds
ASSUME DatesAssumption == Dates \subseteq [y : Nat \ {0}, m : 1..12]
ASSUME FyAssumption == FyStartMonth \in 1..12
ASSUME BoundAssumption == MaxDocs \in Nat
ASSUME NoneAssumption == None \notin Requests \cup AllKinds

(* A fiscal year, named by the calendar year it starts in. *)
FiscalYearOf(d) == IF d.m >= FyStartMonth THEN d.y ELSE d.y - 1

Years == {FiscalYearOf(d) : d \in Dates}

(* The counter rows a posting upserts, in the order its transaction does. *)
VoucherSeries == <<"JOURNAL">>
InvoiceSeries == <<"SALES", "INVOICE">>
BillSeries == <<"PURCHASE", "BILL">>
NoteSeries == <<"CREDIT_NOTE", "CRN">>
EstimateSeries == <<"ESTIMATE">>
BookedEstimateSeries == <<"ESTIMATE", "SALES">>
ReceiptSeries == <<"RECEIPT">>

(* Broken variant: a conversion in one transaction of its own, which takes the
   invoice number first. *)
SeriesOf_ConversionReversed(kind) ==
  CASE kind = "invoice"        -> InvoiceSeries
    [] kind = "conversion"     -> <<"INVOICE", "SALES">>
    [] kind = "bookedEstimate" -> BookedEstimateSeries
    [] kind = "bill"           -> BillSeries
    [] kind = "salesVoucher"   -> <<"SALES">>
    [] OTHER                   -> EstimateSeries

SeriesOf(kind) ==
  CASE kind \in {"invoice", "conversion"} -> InvoiceSeries
    [] kind = "bill"           -> BillSeries
    [] kind = "note"           -> NoteSeries
    [] kind = "estimate"       -> EstimateSeries
    [] kind = "bookedEstimate" -> BookedEstimateSeries
    [] kind = "receipt"        -> ReceiptSeries
    [] kind = "salesVoucher"   -> <<"SALES">>
    [] OTHER                   -> VoucherSeries

Series == {"JOURNAL", "SALES", "INVOICE", "PURCHASE", "BILL", "CREDIT_NOTE",
           "CRN", "ESTIMATE", "RECEIPT"}

Counters == Series \X Years   \* one row per (series, fiscal year)

VARIABLES
  nextNo,  \* committed value of each counter row (1: no row yet)
  holder,  \* the request whose open transaction has locked the row
  txn,     \* each request's open posting
  docs     \* every document ever committed, in commit order

vars == <<nextNo, holder, txn, docs>>

Idle == [kind |-> None]
Open(r) == txn[r].kind # None

(* The counter row that the k-th number of posting t comes from. *)
CounterOf(t, k) == <<SeriesOf(t.kind)[k], t.year>>

Drawing(r) == Open(r) /\ Len(txn[r].nos) < Len(SeriesOf(txn[r].kind))
NextCounter(r) == CounterOf(txn[r], Len(txn[r].nos) + 1)
Drawn(r, c) == \E k \in 1..Len(txn[r].nos) : CounterOf(txn[r], k) = c

InFlight == {r \in Requests : Open(r)}

Init ==
  /\ nextNo = [c \in Counters |-> 1]
  /\ holder = [c \in Counters |-> None]
  /\ txn = [r \in Requests |-> Idle]
  /\ docs = <<>>

(* Only the invoice endpoint compares the document's year with the         *)
(* session's; convertToInvoice calls the same service without it.          *)
YearAccepted(kind, d, session) ==
  kind = "invoice" => FiscalYearOf(d) = session

(* The checks that precede the transaction have passed. *)
Begin(r, kind, d, session) ==
  /\ ~ Open(r)
  /\ Len(docs) + Cardinality(InFlight) < MaxDocs
  /\ YearAccepted(kind, d, session)
  /\ txn' = [txn EXCEPT ![r] = [kind |-> kind, date |-> d, session |-> session,
                                year |-> FiscalYearOf(d), nos |-> <<>>]]
  /\ UNCHANGED <<nextNo, holder, docs>>

(* Broken variant: the counter is read without locking its row. *)
Draw_Unlocked(r) ==
  /\ Drawing(r)
  /\ txn' = [txn EXCEPT ![r].nos = Append(@, nextNo[NextCounter(r)])]
  /\ UNCHANGED <<nextNo, holder, docs>>

(* Broken variant: the number is the counter after the increment. *)
Draw_Incremented(r) ==
  /\ Drawing(r)
  /\ holder[NextCounter(r)] = None
  /\ holder' = [holder EXCEPT ![NextCounter(r)] = r]
  /\ txn' = [txn EXCEPT ![r].nos = Append(@, nextNo[NextCounter(r)] + 1)]
  /\ UNCHANGED <<nextNo, docs>>

(* upsert ... nextNo: { increment: 1 }: takes the row lock, and returns the
   new value, one more than the number handed out. *)
Draw(r) ==
  /\ Drawing(r)
  /\ holder[NextCounter(r)] = None
  /\ holder' = [holder EXCEPT ![NextCounter(r)] = r]
  /\ txn' = [txn EXCEPT ![r].nos = Append(@, nextNo[NextCounter(r)])]
  /\ UNCHANGED <<nextNo, docs>>

ReleaseAll(r) == holder' = [c \in Counters |-> IF holder[c] = r THEN None
                                                             ELSE holder[c]]

(* Broken variant: the document is stored with its voucher number only. *)
Commit_FirstNumberOnly(r) ==
  /\ Open(r)
  /\ ~ Drawing(r)
  /\ docs' = Append(docs, [kind |-> txn[r].kind, date |-> txn[r].date,
                           session |-> txn[r].session, year |-> txn[r].year,
                           nos |-> SubSeq(txn[r].nos, 1, 1), live |-> TRUE])
  /\ nextNo' = [c \in Counters |-> IF Drawn(r, c) THEN nextNo[c] + 1
                                                  ELSE nextNo[c]]
  /\ ReleaseAll(r)
  /\ txn' = [txn EXCEPT ![r] = Idle]

Commit(r) ==
  /\ Open(r)
  /\ ~ Drawing(r)
  /\ docs' = Append(docs, [kind |-> txn[r].kind, date |-> txn[r].date,
                           session |-> txn[r].session, year |-> txn[r].year,
                           nos |-> txn[r].nos, live |-> TRUE])
  /\ nextNo' = [c \in Counters |-> IF Drawn(r, c) THEN nextNo[c] + 1
                                                  ELSE nextNo[c]]
  /\ ReleaseAll(r)
  /\ txn' = [txn EXCEPT ![r] = Idle]

(* An exception in the callback, Prisma's transaction timeout, a deadlock
   victim, a lost connection or a crash: nothing of the transaction stays. *)
Rollback(r) ==
  /\ Open(r)
  /\ ReleaseAll(r)
  /\ txn' = [txn EXCEPT ![r] = Idle]
  /\ UNCHANGED <<nextNo, docs>>

(* remove() of invoices, bills and estimates deletes the document, and with it
   its voucher and those of its receipts and notes.  Manual vouchers stay. *)
Remove(i) ==
  /\ docs[i].live
  /\ docs[i].kind \notin {"voucher", "salesVoucher"}
  /\ docs' = [docs EXCEPT ![i].live = FALSE]
  /\ UNCHANGED <<nextNo, holder, txn>>

(* update() of invoices, bills and unbooked estimates rewrites the date and
   neither the year nor the number; it does not look at the session's year. *)
Redate(i, d) ==
  /\ docs[i].live
  /\ docs[i].kind \in {"invoice", "conversion", "bill", "estimate"}
  /\ docs[i].date # d
  /\ docs' = [docs EXCEPT ![i].date = d]
  /\ UNCHANGED <<nextNo, holder, txn>>

Next ==
  \/ \E r \in Requests :
       \/ \E kind \in Kinds, d \in Dates, session \in Years :
            Begin(r, kind, d, session)
       \/ Draw(r)
       \/ Commit(r)
       \/ Rollback(r)
  \/ \E i \in DOMAIN docs :
       \/ Remove(i)
       \/ \E d \in Dates : Redate(i, d)

Spec == Init /\ [][Next]_vars

(* The database runs every open transaction on, and grants a row lock to its
   waiters in turn.  Rollback and the clients are under no obligation. *)
FairSpec ==
  Spec /\ \A r \in Requests : SF_vars(Draw(r)) /\ WF_vars(Commit(r))

-----------------------------------------------------------------------------
Posting_ ==
  [kind : Kinds, date : Dates, session : Years, year : Years, nos : Seq(Nat)]
Document ==
  [kind : Kinds, date : Dates, session : Years, year : Years, nos : Seq(Nat),
   live : BOOLEAN]

(* Type invariant: counters count from 1, the numbers drawn never outrun the
   series of the document's kind, a committed document has all its numbers. *)
TypeOK ==
  /\ nextNo \in [Counters -> Nat \ {0}]
  /\ holder \in [Counters -> Requests \cup {None}]
  /\ txn \in [Requests -> Posting_ \cup {Idle}]
  /\ \A r \in Requests : Open(r) => Len(txn[r].nos) <= Len(SeriesOf(txn[r].kind))
  /\ docs \in Seq(Document)
  /\ \A i \in DOMAIN docs : Len(docs[i].nos) = Len(SeriesOf(docs[i].kind))

(* "Race-safe sequential voucher numbering per (company, type, fiscal year)":
   within a series a document committed later has the larger number, removed
   documents included: no number is issued twice, now or ever. *)
InCommitOrder ==
  \A i, j \in DOMAIN docs : i < j =>
    \A a \in DOMAIN docs[i].nos, b \in DOMAIN docs[j].nos :
      CounterOf(docs[i], a) = CounterOf(docs[j], b) =>
        docs[i].nos[a] < docs[j].nos[b]

(* A number is never burnt: every number below the counter went to a document
   that was committed; a posting rolled back midway leaves no hole. *)
NoGaps ==
  \A c \in Counters : \A n \in 1..(nextNo[c] - 1) :
    \E i \in DOMAIN docs : \E a \in DOMAIN docs[i].nos :
      CounterOf(docs[i], a) = c /\ docs[i].nos[a] = n

(* Postings that hold one counter row and wait for another never wait in a
   circle: the code takes the rows in an order without cycles. *)
Waiting(r) == Drawing(r) /\ holder[NextCounter(r)] # None
NoDeadlock ==
  \A S \in SUBSET Requests :
    (\A r \in S : Waiting(r) /\ holder[NextCounter(r)] \in S) => S = {}

(* A posting that was begun ends, in a commit unless it is rolled back. *)
EveryPostingEnds == \A r \in Requests : Open(r) ~> ~ Open(r)

-----------------------------------------------------------------------------
(* CONTRIBUTING.md, "The financial year": "Posting a document dated outside
   the open year is refused".  Only the invoice endpoint compares the two. *)
PostedInOpenYear == \A i \in DOMAIN docs : docs[i].year = docs[i].session
=============================================================================
