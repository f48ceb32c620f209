------------------------- MODULE SalesInvoiceProofs -------------------------
(***************************************************************************)
(* What holds of a sales invoice under any interleaving of any number of   *)
(* requests (IInv and PaymentsWithinBalance), and what holds besides if    *)
(* the requests are served one at a time (CalmInv): the service settles    *)
(* invoices as module Settlement specifies, and as long as no voucher is   *)
(* cancelled behind its document the customers' ledgers and documents      *)
(* agree.                                                                  *)
(***************************************************************************)
EXTENDS SalesInvoice, SumLemmas

Applied == payments \cup notes
Created == {i \in Invoices : invoice[i].status # "NONE"}

(* A voucher belongs to one invoice, or to the documents of one invoice.     *)
Owned ==
  /\ \A i, j \in Created : invoice[i].voucher = invoice[j].voucher => i = j
  /\ \A i \in Created, d \in Applied : d.voucher # invoice[i].voucher
  /\ \A d, e \in Applied : d.voucher = e.voucher => d.invoice = e.invoice

(* What a removal in flight has listed: while its invoice lives, only the     *)
(* invoice and its documents stand on the vouchers listed, and once the       *)
(* deletes have run, only documents they saw.                                *)
ListedOK(q) ==
  /\ q.inv \in Created
  /\ q.inv \in Live =>
       /\ \A j \in Created : invoice[j].voucher \in q.ids => j = q.inv
       /\ \A d \in Applied : d.voucher \in q.ids => d.invoice = q.inv
       /\ q.op = "unwind" => \A d \in Applied : d.voucher \in q.ids => d.voucher \in q.deleted

Planned == \A r \in Requests : req[r].op \in {"remove", "unwind"} => ListedOK(req[r])

IInv == /\ TypeOK
        /\ CancelledIsOutOfBooks
        /\ DocumentsKeepTheirVoucher
        /\ Owned
        /\ Planned

-----------------------------------------------------------------------------
(* No invoice, no document, no voucher, no request.                          *)
LEMMA InitIInv == Init => IInv
BY DEF Init, IInv, TypeOK, CancelledIsOutOfBooks, DocumentsKeepTheirVoucher, Owned,
       Planned, Applied, Created, Live, NoInvoice, Idle

(* What the type invariant says of rows, documents and readings.             *)
LEMMA RowFacts ==
  ASSUME TypeOK
  PROVE  /\ Live \subseteq Created
         /\ \A i \in Created : invoice[i] \in Row
         /\ \A i \in Invoices : invoice[i].status = "CANCELLED" => i \in Live
         /\ \A d \in Applied : d.voucher \in VoucherIds /\ d.invoice \in Invoices \cup {None}
         /\ \A p \in payments : p.invoice \in Invoices
BY DEF TypeOK, Live, Created, Applied, NoInvoice, Row

(* Vouchers are only ever added, so that what was read stays well typed.     *)
LEMMA ReadingGrows ==
  ASSUME VoucherIds \subseteq VoucherIds'
  PROVE  Reading \subseteq Reading' /\ Row \subseteq Row'
BY DEF Reading, Row, Line

(* Steps that only read, and requests that end.                              *)
LEMMA QuietIInv ==
  ASSUME IInv, NEW r \in Requests, NEW e \in Reading \cup {Idle},
         e.op \in {"remove", "unwind"} => ListedOK(e),
         UNCHANGED books, req' = [req EXCEPT ![r] = e]
  PROVE  IInv'
<1>. USE DEF IInv
<1>1. /\ UNCHANGED <<invoice, payments, notes, vouchers>>
      /\ \A s \in Requests : req'[s] = req[s] \/ req'[s] = e
  BY DEF books, TypeOK
<1>2. Reading' = Reading /\ Row' = Row /\ VoucherIds' = VoucherIds
  BY <1>1 DEF Reading, Row, VoucherIds
<1>3. TypeOK'
  BY <1>1, <1>2 DEF TypeOK
<1>4. (CancelledIsOutOfBooks /\ DocumentsKeepTheirVoucher /\ Owned)'
  BY <1>1 DEF CancelledIsOutOfBooks, DocumentsKeepTheirVoucher, Owned, Live, Applied, Created
<1>5. Planned'
  BY <1>1 DEF Planned, ListedOK, Live, Applied, Created
<1>. QED  BY <1>3, <1>4, <1>5

(* A voucher posted is a new one, and active.                                *)
LEMMA PostFacts ==
  ASSUME TypeOK, NEW type \in {DocumentVoucher, PaymentVoucher, NoteVoucher}, NEW p \in Parties,
         NEW a \in Amounts, Post(type, p, a)
  PROVE  /\ vouchers' \in Seq(Voucher)
         /\ VoucherIds \subseteq VoucherIds'
         /\ NewVoucher \in VoucherIds' /\ NewVoucher \notin VoucherIds
         /\ \A v \in VoucherIds : vouchers'[v] = vouchers[v]
         /\ vouchers'[NewVoucher].status = "ACTIVE"
<1>. DEFINE x == [type |-> type, status |-> "ACTIVE", rev |-> 0, lines |-> Lines(0, p, a)]
<1>1. x \in Voucher /\ x.status = "ACTIVE"
  BY DEF Voucher, Lines, Line
<1>2. vouchers' = Append(vouchers, x) /\ vouchers \in Seq(Voucher)
  BY DEF Post, TypeOK
<1>. HIDE DEF x
<1>. QED  BY <1>1, <1>2 DEF VoucherIds, NewVoucher

(* Payments and notes: a document of an invoice that lives, on a new voucher.*)
LEMMA DocumentIInv ==
  ASSUME IInv, NEW r \in Requests,
         NEW type \in {DocumentVoucher, PaymentVoucher, NoteVoucher}, NEW p \in Parties,
         NEW a \in Amounts, Post(type, p, a), NEW d,
         d.voucher = NewVoucher,
         invoice' = invoice, Applied' = Applied \cup {d}, End(r),
         payments' \subseteq [voucher : VoucherIds', invoice : Invoices, amount : Amounts],
         notes' \subseteq [voucher : VoucherIds', invoice : Invoices \cup {None},
                           amount : Amounts, status : {"ISSUED", "CANCELLED"}]
  PROVE  IInv'
<1>. USE DEF IInv
<1>1. /\ vouchers' \in Seq(Voucher) /\ VoucherIds \subseteq VoucherIds'
      /\ NewVoucher \notin VoucherIds
      /\ \A v \in VoucherIds : vouchers'[v] = vouchers[v]
      /\ vouchers'[NewVoucher].status = "ACTIVE"
  BY PostFacts
<1>2. \A s \in Requests : req'[s] = req[s] \/ req'[s] = Idle
  BY DEF End, TypeOK
<1>3. /\ \A i \in Created : invoice[i].voucher \in VoucherIds
      /\ \A e \in Applied : e.voucher \in VoucherIds
  BY RowFacts DEF Row
<1>4. TypeOK'
  <2>1. req' \in [Requests -> Reading' \cup {Idle}]
    BY <1>1, ReadingGrows DEF End, TypeOK
  <2>2. invoice' \in [Invoices -> Row' \cup {NoInvoice}]
    BY <1>1, ReadingGrows DEF TypeOK
  <2>. QED  BY <1>1, <2>1, <2>2 DEF TypeOK
<1>5. CancelledIsOutOfBooks'
  BY <1>1, <1>3, RowFacts DEF CancelledIsOutOfBooks
<1>6. DocumentsKeepTheirVoucher'
  <2>1. Live' = Live
    BY DEF Live
  <2>2. \A i \in Live : vouchers'[invoice[i].voucher].status # "GONE"
    BY <1>1, <1>3, RowFacts DEF DocumentsKeepTheirVoucher
  <2>3. \A e \in Applied : vouchers'[e.voucher].status # "GONE"
    BY <1>1, <1>3 DEF DocumentsKeepTheirVoucher, Applied
  <2>. QED  BY <1>1, <2>1, <2>2, <2>3 DEF DocumentsKeepTheirVoucher, Applied
<1>7. Owned'
  <2>1. Created' = Created
    BY DEF Created
  <2>. QED  BY <2>1, <1>1, <1>3 DEF Owned
<1>8. Planned'
  <2>. SUFFICES ASSUME NEW s \in Requests, req'[s].op \in {"remove", "unwind"}
                PROVE  ListedOK(req[s])'
    BY DEF Planned
  <2>1. req'[s] = req[s] /\ ListedOK(req[s])
    BY <1>2 DEF Planned, Idle
  <2>2. req[s].ids \subseteq VoucherIds
    BY <2>1 DEF TypeOK, Reading, Idle
  <2>3. Live' = Live /\ Created' = Created
    BY DEF Live, Created
  <2>. QED  BY <2>1, <2>2, <2>3, <1>1 DEF ListedOK
<1>. QED  BY <1>4, <1>5, <1>6, <1>7, <1>8

(* Cancellations and edits: vouchers change, and none of them comes back into *)
(* the books or goes; documents keep their vouchers and their invoice.       *)
LEMMA RewriteIInv ==
  ASSUME IInv, NEW r \in Requests,
         vouchers' \in Seq(Voucher), VoucherIds' = VoucherIds,
         \A v \in VoucherIds : vouchers'[v].status \in {vouchers[v].status, "CANCELLED"},
         invoice' \in [Invoices -> Row \cup {NoInvoice}],
         \A i \in Invoices :
           /\ invoice'[i].voucher = invoice[i].voucher
           /\ \/ invoice'[i].status = invoice[i].status
              \/ /\ i \in Live /\ invoice'[i].status = "CANCELLED"
                 /\ vouchers'[invoice[i].voucher].status = "CANCELLED",
         payments' = payments,
         notes' \subseteq [voucher : VoucherIds, invoice : Invoices \cup {None},
                           amount : Amounts, status : {"ISSUED", "CANCELLED"}],
         \A m \in notes' : \E n \in notes : m.voucher = n.voucher /\ m.invoice = n.invoice,
         \A s \in Requests : req'[s] = req[s] \/ req'[s] = Idle,
         req' \in [Requests -> Reading \cup {Idle}]
  PROVE  IInv'
<1>. USE DEF IInv
<1>1. /\ \A i \in Created : invoice[i].voucher \in VoucherIds
      /\ \A e \in Applied : e.voucher \in VoucherIds
  BY RowFacts DEF Row
<1>2. Created' = Created /\ Live' = Live
  BY DEF Created, Live
<1>3. \A m \in Applied' : \E n \in Applied : m.voucher = n.voucher /\ m.invoice = n.invoice
  BY DEF Applied
<1>4. Reading' = Reading /\ Row' = Row
  BY DEF Reading, Row
<1>5. TypeOK'
  BY <1>4 DEF TypeOK
<1>6. CancelledIsOutOfBooks'
  BY <1>1, RowFacts DEF CancelledIsOutOfBooks
<1>7. DocumentsKeepTheirVoucher'
  <2>1. \A i \in Live : vouchers'[invoice'[i].voucher].status # "GONE"
    BY <1>1, RowFacts DEF DocumentsKeepTheirVoucher, Live
  <2>2. \A e \in Applied : vouchers'[e.voucher].status # "GONE"
    BY <1>1 DEF DocumentsKeepTheirVoucher, Applied
  <2>3. \A e \in Applied' : vouchers'[e.voucher].status # "GONE"
    BY <2>2, <1>3
  <2>. QED  BY <1>2, <2>1, <2>3 DEF DocumentsKeepTheirVoucher, Applied
<1>8. Owned'
  <2>1. \A i, j \in Created : invoice'[i].voucher = invoice'[j].voucher => i = j
    BY DEF Owned, Created
  <2>2. \A i \in Created, d \in Applied' : d.voucher # invoice'[i].voucher
    BY <1>3 DEF Owned, Created
  <2>3. \A d, e \in Applied' : d.voucher = e.voucher => d.invoice = e.invoice
    BY <1>3 DEF Owned
  <2>. QED  BY <1>2, <2>1, <2>2, <2>3 DEF Owned
<1>9. Planned'
  <2>. SUFFICES ASSUME NEW s \in Requests, req'[s].op \in {"remove", "unwind"}
                PROVE  ListedOK(req[s])'
    BY DEF Planned
  <2>1. req'[s] = req[s] /\ ListedOK(req[s])
    BY DEF Planned, Idle
  <2>2. \A j \in Created : invoice'[j].voucher = invoice[j].voucher
    BY DEF Created
  <2>. QED  BY <2>1, <2>2, <1>2, <1>3 DEF ListedOK
<1>. QED  BY <1>5, <1>6, <1>7, <1>8, <1>9

-----------------------------------------------------------------------------
(* One lemma per action, or per group of actions of one shape.               *)
LEMMA ReadsIInv ==
  ASSUME IInv, NEW r \in Requests, NEW i \in Invoices, NEW p \in Parties, NEW a \in Amounts,
         \/ PayRead(r, i, a) \/ NoteRead(r, i, a)
         \/ CancelRead(r, i) \/ EditRead(r, i, p, a)
  PROVE  IInv'
<1>. USE DEF IInv
<1>1. invoice[i].status = "ISSUED" => invoice[i].party \in Parties
  BY DEF TypeOK, Row, NoInvoice
<1>2. \E e \in Reading : /\ e.op \notin {"remove", "unwind"}
                         /\ UNCHANGED books /\ req' = [req EXCEPT ![r] = e]
  <2>1. CASE PayRead(r, i, a)
    <3>. DEFINE e == [op |-> "pay", inv |-> i, party |-> invoice[i].party, amount |-> a]
    <3>1. e \in Reading /\ e.op = "pay"
      BY <1>1, <2>1 DEF PayRead, Reading
    <3>. QED  BY <2>1, <3>1 DEF PayRead, Begin
  <2>2. CASE NoteRead(r, i, a)
    <3>. DEFINE e == [op |-> "note", inv |-> i, party |-> invoice[i].party, amount |-> a]
    <3>1. e \in Reading /\ e.op = "note"
      BY <1>1, <2>2 DEF NoteRead, Reading
    <3>. QED  BY <2>2, <3>1 DEF NoteRead, Begin
  <2>3. CASE CancelRead(r, i)
    <3>. DEFINE e == [op |-> "cancel", inv |-> i]
    <3>1. e \in Reading /\ e.op = "cancel"
      BY DEF Reading
    <3>. QED  BY <2>3, <3>1 DEF CancelRead, Begin
  <2>4. CASE EditRead(r, i, p, a)
    <3>. DEFINE e == [op |-> "edit", inv |-> i, party |-> p, amount |-> a]
    <3>1. e \in Reading /\ e.op = "edit"
      BY DEF Reading
    <3>. QED  BY <2>4, <3>1 DEF EditRead, Begin
  <2>. QED  BY <2>1, <2>2, <2>3, <2>4
<1>. QED  BY <1>2, QuietIInv

(* The deletes of an edit only read what they delete.                        *)
LEMMA EditDeleteIInv ==
  ASSUME IInv, NEW r \in Requests, EditDelete(r)
  PROVE  IInv'
<1>. USE DEF IInv
<1>. DEFINE i == req[r].inv
            e == [op |-> "restate", inv |-> i, party |-> req[r].party,
                  amount |-> req[r].amount, stale |-> vouchers[invoice[i].voucher].lines]
<1>1. /\ req[r] \in Reading /\ req[r].op = "edit" /\ i \in Live
      /\ UNCHANGED books /\ req' = [req EXCEPT ![r] = e]
  BY DEF EditDelete, TypeOK, Idle
<1>2. i \in Invoices /\ req[r].party \in Parties /\ req[r].amount \in Amounts
  BY <1>1 DEF Reading
<1>3. vouchers[invoice[i].voucher].lines \subseteq Line
  <2>1. invoice[i].voucher \in DOMAIN vouchers
    BY <1>1, RowFacts DEF Row, VoucherIds
  <2>2. vouchers[invoice[i].voucher] \in Voucher
    BY <2>1 DEF TypeOK
  <2>. QED  BY <2>2 DEF Voucher
<1>4. e \in Reading /\ e.op = "restate"
  BY <1>2, <1>3 DEF Reading
<1>. HIDE DEF e
<1>. QED  BY <1>1, <1>4, QuietIInv

(* A request that ends leaves the books alone.                               *)
LEMMA AbandonIInv ==
  ASSUME IInv, NEW r \in Requests, Abandon(r)
  PROVE  IInv'
BY QuietIInv DEF Abandon, End, Idle

(* A removal lists vouchers of its invoice and of documents on it.           *)
LEMMA RemoveReadIInv ==
  ASSUME IInv, NEW r \in Requests, NEW i \in Invoices, RemoveRead(r, i)
  PROVE  IInv'
<1>. USE DEF IInv
<1>. DEFINE listed == {invoice[i].voucher} \cup VoucherRefs(PaymentsOf(i))
                                           \cup VoucherRefs(NotesOf(i))
            e == [op |-> "remove", inv |-> i, ids |-> listed]
<1>1. i \in Live /\ i \in Created /\ UNCHANGED books /\ req' = [req EXCEPT ![r] = e]
  BY RowFacts DEF RemoveRead, Begin
<1>2. \A v \in listed : \/ v = invoice[i].voucher
                        \/ \E d \in Applied : d.voucher = v /\ d.invoice = i
  BY DEF VoucherRefs, PaymentsOf, NotesOf, Applied
<1>3. listed \subseteq VoucherIds
  BY <1>1, <1>2, RowFacts DEF Row
<1>4. e \in Reading /\ e.op = "remove" /\ e.inv = i /\ e.ids = listed
  BY <1>3 DEF Reading
<1>. HIDE DEF e, listed
<1>5. ListedOK(e)
  <2>1. \A j \in Created : invoice[j].voucher \in listed => j = i
    BY <1>1, <1>2 DEF Owned
  <2>2. \A d \in Applied : d.voucher \in listed => d.invoice = i
    BY <1>1, <1>2 DEF Owned
  <2>. QED  BY <1>1, <1>4, <2>1, <2>2 DEF ListedOK
<1>. QED  BY <1>1, <1>4, <1>5, QuietIInv

(* The deletes of a removal find documents of its invoice.                   *)
LEMMA RemoveDeleteIInv ==
  ASSUME IInv, NEW r \in Requests, RemoveDelete(r)
  PROVE  IInv'
<1>. USE DEF IInv
<1>. DEFINE i == req[r].inv
            seen == VoucherRefs(PaymentsOf(i) \cup NotesOf(i))
            e == [op |-> "unwind", inv |-> i, ids |-> req[r].ids, deleted |-> seen]
<1>1. /\ req[r] \in Reading /\ req[r].op = "remove" /\ i \in Live
      /\ UNCHANGED books /\ req' = [req EXCEPT ![r] = e] /\ ListedOK(req[r])
  BY DEF RemoveDelete, TypeOK, Idle, Planned
<1>2. i \in Invoices /\ req[r].ids \subseteq VoucherIds
  BY <1>1 DEF Reading
<1>3. /\ seen \subseteq VoucherIds
      /\ \A d \in Applied : d.invoice = i => d.voucher \in seen
  BY RowFacts DEF VoucherRefs, PaymentsOf, NotesOf, Applied
<1>4. /\ e \in Reading /\ e.op = "unwind" /\ e.inv = i /\ e.ids = req[r].ids
      /\ e.deleted = seen
  BY <1>2, <1>3 DEF Reading
<1>. HIDE DEF e, seen
<1>5. ListedOK(e)
  BY <1>1, <1>3, <1>4 DEF ListedOK
<1>. QED  BY <1>1, <1>4, <1>5, QuietIInv
(* Cancelling one voucher, or restating its lines, in the cases below.        *)
LEMMA VoucherFacts ==
  ASSUME TypeOK, NEW v \in VoucherIds, NEW x \in Voucher,
         x.status \in {vouchers[v].status, "CANCELLED"},
         vouchers' = [vouchers EXCEPT ![v] = x]
  PROVE  /\ vouchers' \in Seq(Voucher) /\ VoucherIds' = VoucherIds
         /\ \A w \in VoucherIds : vouchers'[w].status \in {vouchers[w].status, "CANCELLED"}
         /\ vouchers'[v] = x
BY DEF TypeOK, VoucherIds

(* Cancelling a voucher by itself.                                           *)
LEMMA VoucherCancelIInv ==
  ASSUME IInv, NEW r \in Requests, NEW v \in VoucherIds, VoucherCancel(r, v)
  PROVE  IInv'
<1>. DEFINE x == [vouchers[v] EXCEPT !.status = "CANCELLED"]
<1>. USE DEF IInv
<1>1. vouchers[v] \in Voucher
  BY DEF TypeOK, VoucherIds
<1>2. x \in Voucher /\ x.status = "CANCELLED"
  BY <1>1 DEF Voucher
<1>3. vouchers' = [vouchers EXCEPT ![v] = x] /\ UNCHANGED <<invoice, payments, notes, req>>
  BY DEF VoucherCancel
<1>. HIDE DEF x
<1>4. /\ vouchers' \in Seq(Voucher) /\ VoucherIds' = VoucherIds
      /\ \A w \in VoucherIds : vouchers'[w].status \in {vouchers[w].status, "CANCELLED"}
  BY <1>2, <1>3, VoucherFacts
<1>. QED  BY <1>3, <1>4, RewriteIInv DEF TypeOK

(* Cancelling a note with its voucher.                                       *)
LEMMA NoteCancelIInv ==
  ASSUME IInv, NEW r \in Requests, NEW n \in notes, NoteCancel(r, n)
  PROVE  IInv'
<1>. DEFINE v == n.voucher
            x == [vouchers[v] EXCEPT !.status = "CANCELLED"]
            m == [n EXCEPT !.status = "CANCELLED"]
<1>. USE DEF IInv
<1>1. v \in VoucherIds /\ vouchers[v] \in Voucher
  BY DEF TypeOK, VoucherIds
<1>2. x \in Voucher /\ x.status = "CANCELLED"
  BY <1>1 DEF Voucher
<1>3. /\ vouchers' = [vouchers EXCEPT ![v] = x] /\ UNCHANGED <<invoice, payments, req>>
      /\ notes' = (notes \ {n}) \cup {m}
  BY DEF NoteCancel
<1>4. /\ m \in [voucher : VoucherIds, invoice : Invoices \cup {None}, amount : Amounts,
                status : {"ISSUED", "CANCELLED"}]
      /\ m.voucher = n.voucher /\ m.invoice = n.invoice
  BY DEF TypeOK
<1>. HIDE DEF x, m, v
<1>5. /\ vouchers' \in Seq(Voucher) /\ VoucherIds' = VoucherIds
      /\ \A w \in VoucherIds : vouchers'[w].status \in {vouchers[w].status, "CANCELLED"}
  BY <1>1, <1>2, <1>3, VoucherFacts
<1>6. /\ notes' \subseteq [voucher : VoucherIds, invoice : Invoices \cup {None},
                           amount : Amounts, status : {"ISSUED", "CANCELLED"}]
      /\ \A k \in notes' : \E l \in notes : k.voucher = l.voucher /\ k.invoice = l.invoice
  BY <1>3, <1>4 DEF TypeOK
<1>. QED  BY <1>3, <1>5, <1>6, RewriteIInv DEF TypeOK

(* Cancelling an invoice with its voucher.                                   *)
LEMMA CancelCommitIInv ==
  ASSUME IInv, NEW r \in Requests, CancelCommit(r)
  PROVE  IInv'
<1>. DEFINE i == req[r].inv
            v == invoice[i].voucher
            x == [vouchers[v] EXCEPT !.status = "CANCELLED"]
<1>. USE DEF IInv
<1>1. /\ i \in Live /\ i \in Created /\ i \in Invoices
      /\ vouchers' = [vouchers EXCEPT ![v] = x]
      /\ invoice' = [invoice EXCEPT ![i].status = "CANCELLED"]
      /\ req' = [req EXCEPT ![r] = Idle] /\ UNCHANGED <<payments, notes>>
  BY RowFacts DEF CancelCommit, End, Live
<1>2. invoice[i] \in Row /\ v \in VoucherIds
  BY <1>1, RowFacts DEF Row
<1>3. vouchers[v] \in Voucher
  BY <1>2 DEF TypeOK, VoucherIds
<1>4. x \in Voucher /\ x.status = "CANCELLED"
  BY <1>3 DEF Voucher
<1>. HIDE DEF x
<1>5. /\ vouchers' \in Seq(Voucher) /\ VoucherIds' = VoucherIds
      /\ \A w \in VoucherIds : vouchers'[w].status \in {vouchers[w].status, "CANCELLED"}
      /\ vouchers'[v].status = "CANCELLED"
  BY <1>1, <1>2, <1>4, VoucherFacts
<1>6. /\ invoice' \in [Invoices -> Row \cup {NoInvoice}]
      /\ \A j \in Invoices :
           /\ invoice'[j].voucher = invoice[j].voucher
           /\ \/ invoice'[j].status = invoice[j].status
              \/ /\ j \in Live /\ invoice'[j].status = "CANCELLED"
                 /\ vouchers'[invoice[j].voucher].status = "CANCELLED"
  BY <1>1, <1>2, <1>5 DEF TypeOK, Row
<1>7. /\ \A s \in Requests : req'[s] = req[s] \/ req'[s] = Idle
      /\ req' \in [Requests -> Reading \cup {Idle}]
  BY <1>1 DEF TypeOK
<1>. QED  BY <1>1, <1>5, <1>6, <1>7, RewriteIInv DEF TypeOK

(* Restating a voucher: its status is not written.                           *)
LEMMA EditCommitIInv ==
  ASSUME IInv, NEW r \in Requests, EditCommit(r)
  PROVE  IInv'
<1>. DEFINE i == req[r].inv
            v == invoice[i].voucher
            q == req[r]
            x == [vouchers[v] EXCEPT
                    !.rev = @ + 1,
                    !.lines = (@ \ q.stale) \cup Lines(vouchers[v].rev + 1, q.party, q.amount)]
<1>. USE DEF IInv
<1>1. /\ i \in Live /\ i \in Created /\ i \in Invoices
      /\ q \in Reading /\ q.op = "restate"
      /\ invoice' = [invoice EXCEPT ![i].party = q.party, ![i].total = q.amount]
      /\ req' = [req EXCEPT ![r] = Idle] /\ UNCHANGED <<payments, notes>>
  BY RowFacts DEF EditCommit, End, Live, TypeOK, Idle
<1>2. q.party \in Parties /\ q.amount \in Amounts
  BY <1>1 DEF Reading
<1>3. invoice[i] \in Row /\ v \in VoucherIds
  BY <1>1, RowFacts DEF Row
<1>4. vouchers[v] \in Voucher
  BY <1>3 DEF TypeOK, VoucherIds
<1>5. x \in Voucher /\ x.status = vouchers[v].status
  <2>1. Lines(vouchers[v].rev + 1, q.party, q.amount) \subseteq Line
    BY <1>2, <1>4 DEF Voucher, Lines, Line
  <2>. DEFINE n == vouchers[v].rev + 1
              L == (vouchers[v].lines \ q.stale) \cup Lines(n, q.party, q.amount)
  <2>2. n \in Nat /\ L \in SUBSET Line
    BY <1>4, <2>1 DEF Voucher
  <2>3. x = [vouchers[v] EXCEPT !.rev = n, !.lines = L]
    OBVIOUS
  <2>. HIDE DEF n, L, x
  <2>. QED  BY <1>4, <2>2, <2>3 DEF Voucher
<1>6. vouchers' = [vouchers EXCEPT ![v] = x]
  BY <1>3, <1>4 DEF EditCommit, Restated, TypeOK, VoucherIds, Voucher
<1>. HIDE DEF x
<1>7. /\ vouchers' \in Seq(Voucher) /\ VoucherIds' = VoucherIds
      /\ \A w \in VoucherIds : vouchers'[w].status \in {vouchers[w].status, "CANCELLED"}
  BY <1>3, <1>5, <1>6, VoucherFacts
<1>8. /\ invoice' \in [Invoices -> Row \cup {NoInvoice}]
      /\ \A j \in Invoices : /\ invoice'[j].voucher = invoice[j].voucher
                             /\ invoice'[j].status = invoice[j].status
  BY <1>1, <1>2, <1>3 DEF TypeOK, Row
<1>9. /\ \A s \in Requests : req'[s] = req[s] \/ req'[s] = Idle
      /\ req' \in [Requests -> Reading \cup {Idle}]
  BY <1>1 DEF TypeOK
<1>. QED  BY <1>1, <1>7, <1>8, <1>9, RewriteIInv DEF TypeOK
(* A new invoice stands on the voucher posted with it.                       *)
LEMMA CreateIInv ==
  ASSUME IInv, NEW r \in Requests, NEW i \in Invoices, NEW p \in Parties, NEW a \in Amounts,
         Create(r, i, p, a)
  PROVE  IInv'
<1>. USE DEF IInv
<1>. DEFINE x == [status |-> "ISSUED", party |-> p, total |-> a, voucher |-> NewVoucher]
<1>1. /\ i \notin Created /\ i \notin Live /\ Post(DocumentVoucher, p, a)
      /\ invoice' = [invoice EXCEPT ![i] = x]
      /\ UNCHANGED <<payments, notes, req>>
  BY DEF Create, Created, Live
<1>2. /\ vouchers' \in Seq(Voucher) /\ VoucherIds \subseteq VoucherIds'
      /\ NewVoucher \in VoucherIds' /\ NewVoucher \notin VoucherIds
      /\ \A v \in VoucherIds : vouchers'[v] = vouchers[v]
      /\ vouchers'[NewVoucher].status = "ACTIVE"
  BY <1>1, PostFacts
<1>3. x \in Row' /\ x.status = "ISSUED" /\ x.voucher = NewVoucher
  BY <1>2 DEF Row
<1>. HIDE DEF x
<1>4. /\ invoice'[i] = x /\ \A j \in Invoices \ {i} : invoice'[j] = invoice[j]
      /\ Created' = Created \cup {i} /\ Live' = Live \cup {i} /\ Applied' = Applied
      /\ i \notin Created
  BY <1>1, <1>3 DEF TypeOK, Created, Live, Applied
<1>5. /\ \A j \in Created : invoice[j].voucher \in VoucherIds
      /\ \A e \in Applied : e.voucher \in VoucherIds
      /\ Live \subseteq Created /\ Created \subseteq Invoices
  BY RowFacts DEF Row, Created
<1>6. TypeOK'
  <2>1. invoice' \in [Invoices -> Row' \cup {NoInvoice}]
    BY <1>1, <1>2, <1>3, ReadingGrows DEF TypeOK
  <2>2. req' \in [Requests -> Reading' \cup {Idle}]
    BY <1>1, <1>2, ReadingGrows DEF TypeOK
  <2>3. /\ payments' \subseteq [voucher : VoucherIds', invoice : Invoices, amount : Amounts]
        /\ notes' \subseteq [voucher : VoucherIds', invoice : Invoices \cup {None},
                             amount : Amounts, status : {"ISSUED", "CANCELLED"}]
    BY <1>1, <1>2 DEF TypeOK
  <2>. QED  BY <1>2, <2>1, <2>2, <2>3 DEF TypeOK
<1>7. CancelledIsOutOfBooks'
  BY <1>2, <1>3, <1>4, <1>5, RowFacts DEF CancelledIsOutOfBooks
<1>8. DocumentsKeepTheirVoucher'
  <2>1. \A j \in Live' : vouchers'[invoice'[j].voucher].status # "GONE"
    BY <1>2, <1>3, <1>4, <1>5 DEF DocumentsKeepTheirVoucher
  <2>2. \A e \in Applied : vouchers'[e.voucher].status # "GONE"
    BY <1>2, <1>5 DEF DocumentsKeepTheirVoucher, Applied
  <2>. QED  BY <1>4, <2>1, <2>2 DEF DocumentsKeepTheirVoucher, Applied
<1>9. Owned'
  <2>1. \A j, k \in Created' : invoice'[j].voucher = invoice'[k].voucher => j = k
    BY <1>2, <1>3, <1>4, <1>5 DEF Owned
  <2>2. \A j \in Created', d \in Applied : d.voucher # invoice'[j].voucher
    BY <1>2, <1>3, <1>4, <1>5 DEF Owned
  <2>. QED  BY <1>4, <2>1, <2>2 DEF Owned
<1>10. Planned'
  <2>. SUFFICES ASSUME NEW s \in Requests, req[s].op \in {"remove", "unwind"}
                PROVE  ListedOK(req[s])'
    BY <1>1 DEF Planned
  <2>1. ListedOK(req[s]) /\ req[s].ids \subseteq VoucherIds
    BY DEF Planned, TypeOK, Reading, Idle
  <2>2. req[s].inv \in Created /\ req[s].inv # i
    BY <2>1, <1>1 DEF ListedOK
  <2>. QED  BY <2>1, <2>2, <1>1, <1>2, <1>3, <1>4, <1>5 DEF ListedOK
<1>. QED  BY <1>6, <1>7, <1>8, <1>9, <1>10

(* A payment stands on the voucher posted with it.                           *)
LEMMA PayCommitIInv ==
  ASSUME IInv, NEW r \in Requests, PayCommit(r)
  PROVE  IInv'
<1>. USE DEF IInv
<1>. DEFINE q == req[r]
            d == [voucher |-> NewVoucher, invoice |-> q.inv, amount |-> q.amount]
<1>1. /\ q \in Reading /\ q.op = "pay" /\ Post(PaymentVoucher, q.party, q.amount)
      /\ payments' = payments \cup {d} /\ End(r) /\ UNCHANGED <<invoice, notes>>
  BY DEF PayCommit, TypeOK, Idle
<1>2. q.inv \in Invoices /\ q.party \in Parties /\ q.amount \in Amounts
  BY <1>1 DEF Reading
<1>3. VoucherIds \subseteq VoucherIds' /\ NewVoucher \in VoucherIds'
  BY <1>1, <1>2, PostFacts
<1>4. /\ payments' \subseteq [voucher : VoucherIds', invoice : Invoices, amount : Amounts]
      /\ notes' \subseteq [voucher : VoucherIds', invoice : Invoices \cup {None},
                           amount : Amounts, status : {"ISSUED", "CANCELLED"}]
      /\ Applied' = Applied \cup {d} /\ d.voucher = NewVoucher
  BY <1>1, <1>2, <1>3 DEF TypeOK, Applied
<1>. HIDE DEF d
<1>. QED  BY <1>1, <1>2, <1>4, DocumentIInv

(* A note stands on the voucher posted with it.                              *)
LEMMA NoteCommitIInv ==
  ASSUME IInv, NEW r \in Requests, NoteCommit(r)
  PROVE  IInv'
<1>. USE DEF IInv
<1>. DEFINE q == req[r]
            d == [voucher |-> NewVoucher, invoice |-> q.inv, amount |-> q.amount,
                  status |-> "ISSUED"]
<1>1. /\ q \in Reading /\ q.op = "note" /\ Post(NoteVoucher, q.party, q.amount)
      /\ notes' = notes \cup {d} /\ End(r) /\ UNCHANGED <<invoice, payments>>
  BY DEF NoteCommit, TypeOK, Idle
<1>2. q.inv \in Invoices /\ q.party \in Parties /\ q.amount \in Amounts
  BY <1>1 DEF Reading
<1>3. VoucherIds \subseteq VoucherIds' /\ NewVoucher \in VoucherIds'
  BY <1>1, <1>2, PostFacts
<1>4. /\ payments' \subseteq [voucher : VoucherIds', invoice : Invoices, amount : Amounts]
      /\ notes' \subseteq [voucher : VoucherIds', invoice : Invoices \cup {None},
                           amount : Amounts, status : {"ISSUED", "CANCELLED"}]
      /\ Applied' = Applied \cup {d} /\ d.voucher = NewVoucher
  BY <1>1, <1>2, <1>3 DEF TypeOK, Applied
<1>. HIDE DEF d
<1>. QED  BY <1>1, <1>2, <1>4, DocumentIInv
(* The documents a removal leaves stand on vouchers it did not list: payments *)
(* because they are of other invoices, notes because the deletes did not see  *)
(* them and the list, which is older than the deletes, cannot have them.      *)
LEMMA RemoveCommitIInv ==
  ASSUME IInv, NEW r \in Requests, RemoveCommit(r)
  PROVE  IInv'
<1>. USE DEF IInv
<1>. DEFINE q == req[r]
            i == q.inv
            After(n) == IF n.invoice = i THEN None ELSE n.invoice
<1>1. /\ q \in Reading /\ q.op = "unwind" /\ i \in Live /\ i \in Created
      /\ ListedOK(q)
      /\ vouchers' = Unwound(q.ids)
      /\ payments' = payments \ PaymentsOf(i)
      /\ notes' = Detached(i, q.deleted)
      /\ invoice' = [invoice EXCEPT ![i].status = "GONE"]
      /\ req' = [req EXCEPT ![r] = Idle]
  BY RowFacts DEF RemoveCommit, End, TypeOK, Idle, Planned
<1>2. /\ \A j \in Created : invoice[j].voucher \in q.ids => j = i
      /\ \A d \in Applied : d.voucher \in q.ids => d.invoice = i
      /\ \A d \in Applied : d.voucher \in q.ids => d.voucher \in q.deleted
  BY <1>1 DEF ListedOK
<1>3. /\ \A j \in Created : invoice[j].voucher \in VoucherIds
      /\ \A d \in Applied : d.voucher \in VoucherIds
      /\ Live \subseteq Created /\ Created \subseteq Invoices
      /\ i \in Invoices /\ invoice[i] \in Row
  BY <1>1, RowFacts DEF Row, Created
<1>4. /\ vouchers' \in Seq(Voucher) /\ VoucherIds' = VoucherIds
      /\ \A v \in VoucherIds : /\ v \notin q.ids => vouchers'[v] = vouchers[v]
                               /\ v \in q.ids => vouchers'[v].status = "GONE"
  <2>1. \A v \in VoucherIds : /\ vouchers[v] \in Voucher
                              /\ [vouchers[v] EXCEPT !.status = "GONE", !.lines = {}] \in Voucher
    <3>. SUFFICES ASSUME NEW v \in VoucherIds
                  PROVE  /\ vouchers[v] \in Voucher
                         /\ [vouchers[v] EXCEPT !.status = "GONE", !.lines = {}] \in Voucher
      OBVIOUS
    <3>1. vouchers[v] \in Voucher
      BY DEF TypeOK, VoucherIds
    <3>2. {} \in SUBSET Line
      OBVIOUS
    <3>. QED  BY <3>1, <3>2 DEF Voucher
  <2>2. VoucherIds = 1..Len(vouchers) /\ Len(vouchers) \in Nat
    BY DEF TypeOK, VoucherIds
  <2>3. vouchers' \in [1..Len(vouchers) -> Voucher]
    BY <1>1, <2>1, <2>2 DEF Unwound, VoucherIds
  <2>4. vouchers' \in Seq(Voucher) /\ VoucherIds' = VoucherIds
    BY <2>2, <2>3 DEF VoucherIds
  <2>5. \A v \in VoucherIds :
          vouchers'[v] = IF v \in q.ids
                         THEN [vouchers[v] EXCEPT !.status = "GONE", !.lines = {}]
                         ELSE vouchers[v]
    BY <1>1 DEF Unwound, VoucherIds
  <2>. QED  BY <2>1, <2>4, <2>5 DEF Voucher
<1>5. /\ invoice' \in [Invoices -> Row \cup {NoInvoice}]
      /\ \A j \in Invoices : invoice'[j].voucher = invoice[j].voucher
      /\ \A j \in Invoices \ {i} : invoice'[j] = invoice[j]
      /\ invoice'[i].status = "GONE"
  BY <1>1, <1>3 DEF TypeOK, Row
<1>6. Created' = Created /\ Live' = Live \ {i}
  BY <1>1, <1>3, <1>5 DEF Created, Live
<1>7. \A m \in Applied' : \E n \in Applied : /\ m.voucher = n.voucher /\ m.invoice = After(n)
                                       /\ n.voucher \notin q.ids
  <2>1. ASSUME NEW p \in payments'
        PROVE  p \in Applied /\ p.invoice # i
    BY <1>1 DEF PaymentsOf, Applied
  <2>2. ASSUME NEW m \in notes'
        PROVE  \E n \in notes : /\ m.voucher = n.voucher /\ m.invoice = After(n)
                                /\ n.voucher \notin q.deleted
    <3>1. PICK n \in notes : /\ n.voucher \notin q.deleted
                             /\ m = IF n.invoice = i THEN [n EXCEPT !.invoice = None] ELSE n
      BY <1>1 DEF Detached
    <3>2. m.voucher = n.voucher /\ m.invoice = After(n)
      BY <3>1 DEF TypeOK
    <3>. QED  BY <3>1, <3>2
  <2>. QED  BY <2>1, <2>2, <1>2 DEF Applied
<1>8. TypeOK'
  <2>1. req' \in [Requests -> Reading' \cup {Idle}]
    BY <1>1, <1>4, ReadingGrows DEF TypeOK
  <2>2. notes' \subseteq [voucher : VoucherIds, invoice : Invoices \cup {None},
                          amount : Amounts, status : {"ISSUED", "CANCELLED"}]
    BY <1>1 DEF TypeOK, Detached
  <2>3. payments' \subseteq payments
    BY <1>1
  <2>4. Row' = Row
    BY <1>4 DEF Row
  <2>. QED  BY <1>4, <1>5, <2>1, <2>2, <2>3, <2>4 DEF TypeOK
<1>9. CancelledIsOutOfBooks'
  <2>. SUFFICES ASSUME NEW j \in Invoices, invoice'[j].status = "CANCELLED"
                PROVE  vouchers'[invoice'[j].voucher].status # "ACTIVE"
    BY DEF CancelledIsOutOfBooks
  <2>1. j # i /\ invoice'[j] = invoice[j] /\ j \in Created /\ invoice[j].voucher \notin q.ids
    BY <1>2, <1>3, <1>5, RowFacts
  <2>. QED  BY <2>1, <1>3, <1>4 DEF CancelledIsOutOfBooks
<1>10. DocumentsKeepTheirVoucher'
  <2>1. ASSUME NEW j \in Live' PROVE vouchers'[invoice'[j].voucher].status # "GONE"
    <3>1. j # i /\ invoice'[j] = invoice[j] /\ j \in Live /\ j \in Created
          /\ invoice[j].voucher \notin q.ids
      BY <1>2, <1>3, <1>5, <1>6
    <3>. QED  BY <3>1, <1>3, <1>4 DEF DocumentsKeepTheirVoucher
  <2>2. \A m \in Applied' : vouchers'[m.voucher].status # "GONE"
    BY <1>3, <1>4, <1>7 DEF DocumentsKeepTheirVoucher, Applied
  <2>. QED  BY <2>1, <2>2 DEF DocumentsKeepTheirVoucher, Applied
<1>11. Owned'
  <2>1. \A j, k \in Created : invoice'[j].voucher = invoice'[k].voucher => j = k
    BY <1>3, <1>5 DEF Owned
  <2>2. \A j \in Created, d \in Applied' : d.voucher # invoice'[j].voucher
    BY <1>3, <1>5, <1>7 DEF Owned
  <2>3. ASSUME NEW d \in Applied', NEW e \in Applied', d.voucher = e.voucher
        PROVE  d.invoice = e.invoice
    BY <2>3, <1>7 DEF Owned
  <2>. QED  BY <1>6, <2>1, <2>2, <2>3 DEF Owned
<1>12. Planned'
  <2>. SUFFICES ASSUME NEW s \in Requests, req'[s].op \in {"remove", "unwind"}
                PROVE  ListedOK(req[s])'
    BY DEF Planned
  <2>. DEFINE k == req[s].inv
  <2>1. req'[s] = req[s] /\ ListedOK(req[s]) /\ k \in Created
    BY <1>1 DEF Planned, ListedOK, Idle, TypeOK
  <2>2. CASE k = i
    BY <2>1, <2>2, <1>6 DEF ListedOK
  <2>3. CASE k # i /\ k \in Live
    <3>1. \A j \in Created : invoice'[j].voucher \in req[s].ids => j = k
      BY <2>1, <2>3, <1>3, <1>5 DEF ListedOK
    <3>2. ASSUME NEW d \in Applied', d.voucher \in req[s].ids
          PROVE  /\ d.invoice = k
                 /\ req[s].op = "unwind" => d.voucher \in req[s].deleted
      <4>1. PICK n \in Applied : d.voucher = n.voucher /\ d.invoice = After(n)
        BY <1>7
      <4>2. /\ n.invoice = k
            /\ req[s].op = "unwind" => n.voucher \in req[s].deleted
        BY <2>1, <2>3, <3>2, <4>1 DEF ListedOK
      <4>. QED  BY <2>3, <4>1, <4>2
    <3>. QED  BY <2>1, <3>1, <3>2, <1>6 DEF ListedOK
  <2>4. CASE k \notin Live
    BY <2>1, <2>4, <1>6 DEF ListedOK
  <2>. QED  BY <2>2, <2>3, <2>4
<1>. QED  BY <1>8, <1>9, <1>10, <1>11, <1>12

(* Every step preserves the invariant.                                       *)
LEMMA NextIInv == IInv /\ [Next]_vars => IInv'
<1>. SUFFICES ASSUME IInv, [Next]_vars PROVE IInv'
  OBVIOUS
<1>1. CASE UNCHANGED vars
  <2>1. Reading' = Reading /\ Row' = Row /\ VoucherIds' = VoucherIds
    BY <1>1 DEF vars, Reading, Row, VoucherIds
  <2>. QED  BY <1>1, <2>1 DEF vars, IInv, TypeOK, CancelledIsOutOfBooks,
              DocumentsKeepTheirVoucher, Owned, Planned, ListedOK, Live, Applied, Created
<1>2. ASSUME NEW r \in Requests, NEW i \in Invoices, NEW p \in Parties, NEW a \in Amounts,
             Create(r, i, p, a) \/ EditRead(r, i, p, a)
      PROVE  IInv'
  BY <1>2, CreateIInv, ReadsIInv
<1>3. ASSUME NEW r \in Requests, NEW i \in Invoices, NEW a \in Amounts, PayRead(r, i, a)
      PROVE  IInv'
  <2>1. invoice[i].party \in Parties
    BY <1>3 DEF PayRead, IInv, TypeOK, Row, NoInvoice
  <2>. QED  BY <1>3, <2>1, ReadsIInv
<1>4. ASSUME NEW r \in Requests, NEW i \in Invoices, NEW a \in Amounts, NoteRead(r, i, a)
      PROVE  IInv'
  <2>1. invoice[i].party \in Parties
    BY <1>4 DEF NoteRead, IInv, TypeOK, Row, NoInvoice
  <2>. QED  BY <1>4, <2>1, ReadsIInv
<1>5. ASSUME NEW r \in Requests, NEW i \in Invoices, CancelRead(r, i)
      PROVE  IInv'
  <2>1. invoice[i].party \in Parties /\ invoice[i].total \in Amounts
    BY <1>5 DEF CancelRead, Unsettled, IInv, TypeOK, Row, NoInvoice
  <2>. QED  BY <1>5, <2>1, ReadsIInv
<1>6. ASSUME NEW r \in Requests, NEW i \in Invoices, RemoveRead(r, i)
      PROVE  IInv'
  BY <1>6, RemoveReadIInv
<1>7. ASSUME NEW r \in Requests,
             \/ PayCommit(r) \/ NoteCommit(r) \/ CancelCommit(r) \/ EditDelete(r)
             \/ EditCommit(r) \/ RemoveDelete(r) \/ RemoveCommit(r) \/ Abandon(r)
      PROVE  IInv'
  BY <1>7, PayCommitIInv, NoteCommitIInv, CancelCommitIInv, EditDeleteIInv,
     EditCommitIInv, RemoveDeleteIInv, RemoveCommitIInv, AbandonIInv
<1>8. ASSUME NEW r \in Requests, NEW n \in notes, NoteCancel(r, n)
      PROVE  IInv'
  BY <1>8, NoteCancelIInv
<1>9. ASSUME NEW r \in Requests, NEW v \in VoucherIds, VoucherCancel(r, v)
      PROVE  IInv'
  BY <1>9, VoucherCancelIInv
<1>. QED  BY <1>1, <1>2, <1>3, <1>4, <1>5, <1>6, <1>7, <1>8, <1>9 DEF Next, VoucherIds

-----------------------------------------------------------------------------
(* The strengthened invariant of the invoice service: a voucher belongs to   *)
(* one document, and a removal in flight lists vouchers of its invoice only. *)
THEOREM SpecIInv == Spec => []IInv
BY InitIInv, NextIInv, PTL DEF Spec

(* Rows, documents and readings stay well typed under any interleaving.       *)
THEOREM TypeCorrect == Spec => []TypeOK
<1>1. IInv => TypeOK
  BY DEF IInv
<1>. QED  BY <1>1, SpecIInv, PTL

(* Whatever was in flight when an invoice was cancelled, its voucher stays    *)
(* out of the books.                                                          *)
THEOREM CancelledStaysOutOfBooks == Spec => []CancelledIsOutOfBooks
<1>1. IInv => CancelledIsOutOfBooks
  BY DEF IInv
<1>. QED  BY <1>1, SpecIInv, PTL

(* A removal never deletes the voucher of a document that survives it,        *)
(* however many payments, notes and removals race with it.                    *)
THEOREM VouchersOutliveNoDocument == Spec => []DocumentsKeepTheirVoucher
<1>1. IInv => DocumentsKeepTheirVoucher
  BY DEF IInv
<1>. QED  BY <1>1, SpecIInv, PTL

(* No step brings a cancelled or a removed invoice back.                      *)
LEMMA StatusStep ==
  ASSUME IInv, [Next]_vars, NEW i \in Invoices
  PROVE  /\ invoice[i].status = "CANCELLED" => invoice'[i].status \in {"CANCELLED", "GONE"}
         /\ invoice[i].status = "GONE" => invoice'[i].status = "GONE"
<1>. USE DEF IInv
<1>1. ASSUME NEW r \in Requests, NEW j \in Invoices, NEW p \in Parties, NEW a \in Amounts,
             Create(r, j, p, a)
      PROVE  invoice'[i] = invoice[i] \/ invoice[i].status = "NONE"
  BY <1>1 DEF Create, TypeOK
<1>2. ASSUME NEW r \in Requests, CancelCommit(r)
      PROVE  invoice'[i] = invoice[i] \/ (i \in Live /\ invoice'[i].status = "CANCELLED")
  BY <1>2 DEF CancelCommit, TypeOK, Row, NoInvoice, Live
<1>3. ASSUME NEW r \in Requests, EditCommit(r)
      PROVE  invoice'[i].status = invoice[i].status
  BY <1>3 DEF EditCommit, TypeOK, Row, NoInvoice, Live
<1>4. ASSUME NEW r \in Requests, RemoveCommit(r)
      PROVE  invoice'[i] = invoice[i] \/ invoice'[i].status = "GONE"
  BY <1>4 DEF RemoveCommit, TypeOK, Row, NoInvoice, Live
<1>5. \/ \E r \in Requests, j \in Invoices, p \in Parties, a \in Amounts : Create(r, j, p, a)
      \/ \E r \in Requests : CancelCommit(r) \/ EditCommit(r) \/ RemoveCommit(r)
      \/ UNCHANGED invoice
  <2>1. ASSUME NEW r \in Requests, NEW j \in Invoices, NEW p \in Parties, NEW a \in Amounts,
               EditRead(r, j, p, a)
        PROVE  UNCHANGED invoice
    BY <2>1 DEF EditRead, Begin, books
  <2>2. ASSUME NEW r \in Requests, NEW j \in Invoices, NEW a \in Amounts,
               PayRead(r, j, a) \/ NoteRead(r, j, a)
        PROVE  UNCHANGED invoice
    BY <2>2 DEF PayRead, NoteRead, Begin, books
  <2>3. ASSUME NEW r \in Requests, NEW j \in Invoices, CancelRead(r, j) \/ RemoveRead(r, j)
        PROVE  UNCHANGED invoice
    BY <2>3 DEF CancelRead, RemoveRead, Begin, books
  <2>4. ASSUME NEW r \in Requests,
               \/ PayCommit(r) \/ NoteCommit(r) \/ EditDelete(r) \/ RemoveDelete(r)
               \/ Abandon(r)
               \/ \E n \in notes : NoteCancel(r, n)
               \/ \E v \in DOMAIN vouchers : VoucherCancel(r, v)
        PROVE  UNCHANGED invoice
    BY <2>4 DEF PayCommit, NoteCommit, EditDelete, RemoveDelete, Abandon, NoteCancel,
                VoucherCancel, books
  <2>. QED  BY <2>1, <2>2, <2>3, <2>4 DEF Next, vars
<1>. QED  BY <1>1, <1>2, <1>3, <1>4, <1>5 DEF Live

(* A cancellation and a removal are final.                                    *)
THEOREM StatusIsFinal == Spec => StatusOnlyMovesForward
<1>1. IInv /\ [Next]_vars =>
        [\A i \in Invoices :
           /\ invoice[i].status = "CANCELLED" => invoice'[i].status \in {"CANCELLED", "GONE"}
           /\ invoice[i].status = "GONE" => invoice'[i].status = "GONE"]_vars
  BY StatusStep
<1>. QED  BY <1>1, SpecIInv, PTL DEF Spec, StatusOnlyMovesForward

-----------------------------------------------------------------------------
(* Amounts can be added: there are finitely many payments and notes.         *)
Countable == IsFiniteSet(payments) /\ IsFiniteSet(notes)

(* Documents whose amounts can be added.                                     *)
Priced(docs) == IsFiniteSet(docs) /\ \A d \in docs : d.amount \in Nat

(* The amounts of documents, with one more, with one less, and of none.      *)
LEMMA AmountFacts ==
  ASSUME NEW docs, Priced(docs)
  PROVE  /\ Amount(docs) \in Nat
         /\ \A d \in docs : d.amount <= Amount(docs) /\ Amount(docs \ {d}) = Amount(docs) - d.amount
         /\ \A d : d \notin docs /\ d.amount \in Nat => Amount(docs \cup {d}) = Amount(docs) + d.amount
<1>. DEFINE f(S) == [d \in S |-> d.amount]
<1>1. \A d \in docs : f(docs)[d] = d.amount /\ f(docs)[d] \in Nat /\ f(docs)[d] \in Int
  BY DEF Priced
<1>2. IsFiniteSet(docs)
  BY DEF Priced
<1>3. Amount(docs) = SumFunctionOnSet(f(docs), docs)
  BY DEF Amount
<1>4. Amount(docs) \in Nat /\ \A d \in docs : d.amount <= Amount(docs)
  <2>. HIDE DEF f
  <2>. QED  BY <1>1, <1>2, <1>3, SumNat
<1>5. ASSUME NEW d \in docs  PROVE Amount(docs \ {d}) = Amount(docs) - d.amount
  <2>1. IsFiniteSet(docs \ {d})
    BY <1>2, FS_RemoveElement
  <2>2. \A e \in docs \ {d} : f(docs \ {d})[e] = f(docs)[e]
    OBVIOUS
  <2>3. Amount(docs \ {d}) = SumFunctionOnSet(f(docs \ {d}), docs \ {d})
    BY DEF Amount
  <2>. HIDE DEF f
  <2>4. SumFunctionOnSet(f(docs \ {d}), docs \ {d}) = SumFunctionOnSet(f(docs), docs \ {d})
    BY <2>1, <2>2, SumSame
  <2>5. SumFunctionOnSet(f(docs), docs) = f(docs)[d] + SumFunctionOnSet(f(docs), docs \ {d})
    BY <1>1, <1>2, SumRemove
  <2>6. SumFunctionOnSet(f(docs), docs \ {d}) \in Int
    BY <1>1, <2>1, SumInt
  <2>7. d.amount \in Int
    BY <1>1
  <2>. QED  BY <1>1, <1>3, <2>3, <2>4, <2>5, <2>6, <2>7
<1>6. ASSUME NEW d, d \notin docs, d.amount \in Nat
      PROVE  Amount(docs \cup {d}) = Amount(docs) + d.amount
  <2>. DEFINE more == docs \cup {d}
  <2>1. \A e \in docs : f(more)[e] = f(docs)[e]
    OBVIOUS
  <2>2. f(more)[d] = d.amount /\ \A e \in more : f(more)[e] \in Int
    BY <1>1, <1>6
  <2>3. Amount(more) = SumFunctionOnSet(f(more), docs \cup {d})
    BY DEF Amount
  <2>4. docs \cup {d} = more
    OBVIOUS
  <2>. HIDE DEF f, more
  <2>5. SumFunctionOnSet(f(more), docs \cup {d}) = SumFunctionOnSet(f(more), docs) + f(more)[d]
    BY <1>2, <1>6, <2>2, <2>4, SumAdd
  <2>6. SumFunctionOnSet(f(more), docs) = SumFunctionOnSet(f(docs), docs)
    BY <1>2, <2>1, SumSame
  <2>. QED  BY <1>3, <2>2, <2>3, <2>4, <2>5, <2>6
<1>. QED  BY <1>4, <1>5, <1>6

(* No documents, no amount.                                                  *)
LEMMA AmountOfNone == Amount({}) = 0
BY SumEmpty DEF Amount

(* The payments and the notes of each invoice can be added.                  *)
LEMMA DocumentsPriced ==
  ASSUME TypeOK, Countable
  PROVE  /\ \A docs \in SUBSET payments : Priced(docs)
         /\ \A docs \in SUBSET notes : Priced(docs)
         /\ \A i : Paid(i) \in Nat /\ Noted(i) \in Nat
<1>1. \A docs \in SUBSET payments : Priced(docs)
  BY FS_Subset, BoundsAssumption DEF Countable, Priced, TypeOK, Amounts
<1>2. \A docs \in SUBSET notes : Priced(docs)
  BY FS_Subset, BoundsAssumption DEF Countable, Priced, TypeOK, Amounts
<1>3. \A i : PaymentsOf(i) \subseteq payments /\ IssuedNotesOf(i) \subseteq notes
  BY DEF PaymentsOf, IssuedNotesOf, NotesOf
<1>. QED  BY <1>1, <1>2, <1>3, AmountFacts DEF Paid, Noted

(* No step makes infinitely many documents.                                  *)
LEMMA CountableInductive ==
  ASSUME Countable, [Next]_vars
  PROVE  Countable'
<1>1. ASSUME NEW d, payments' = payments \cup {d}, UNCHANGED notes  PROVE Countable'
  BY <1>1, FS_AddElement DEF Countable
<1>2. ASSUME NEW d, notes' = notes \cup {d}, UNCHANGED payments  PROVE Countable'
  BY <1>2, FS_AddElement DEF Countable
<1>3. ASSUME NEW r \in Requests, PayCommit(r)  PROVE Countable'
  BY <1>1, <1>3 DEF PayCommit
<1>4. ASSUME NEW r \in Requests, NoteCommit(r)  PROVE Countable'
  BY <1>2, <1>4 DEF NoteCommit
<1>5. ASSUME NEW r \in Requests, NEW n \in notes, NoteCancel(r, n)  PROVE Countable'
  <2>1. IsFiniteSet(notes \ {n})
    BY FS_RemoveElement DEF Countable
  <2>2. \A e : IsFiniteSet((notes \ {n}) \cup {e})
    BY <2>1, FS_AddElement
  <2>. QED  BY <1>5, <2>2 DEF NoteCancel, Countable
<1>6. ASSUME NEW r \in Requests, RemoveCommit(r)  PROVE Countable'
  <2>1. PICK i : payments' = payments \ PaymentsOf(i) /\ notes' = Detached(i, req[r].deleted)
    BY <1>6 DEF RemoveCommit
  <2>2. IsFiniteSet(payments')
    <3>1. payments' \subseteq payments
      BY <2>1
    <3>. QED  BY <3>1, FS_Subset DEF Countable
  <2>3. IsFiniteSet(notes')
    <3>. DEFINE kept == {m \in notes : m.voucher \notin req[r].deleted}
                h == [n \in kept |-> IF n.invoice = i THEN [n EXCEPT !.invoice = None] ELSE n]
    <3>1. kept \subseteq notes
      OBVIOUS
    <3>2. IsFiniteSet(kept)
      BY <3>1, FS_Subset DEF Countable
    <3>3. notes' = {h[n] : n \in kept}
      BY <2>1 DEF Detached
    <3>4. h \in Surjection(kept, notes')
      BY <3>3 DEF Surjection
    <3>. HIDE DEF kept, h
    <3>. QED  BY <3>2, <3>4, FS_Surjection
  <2>. QED  BY <2>2, <2>3 DEF Countable
<1>7. ASSUME UNCHANGED <<payments, notes>>  PROVE Countable'
  BY <1>7 DEF Countable
<1>8. \/ UNCHANGED <<payments, notes>>
      \/ \E r \in Requests : \/ PayCommit(r) \/ NoteCommit(r) \/ RemoveCommit(r)
                             \/ \E n \in notes : NoteCancel(r, n)
  <2>1. \A r \in Requests, i \in Invoices, p \in Parties, a \in Amounts :
          Create(r, i, p, a) \/ EditRead(r, i, p, a) => UNCHANGED <<payments, notes>>
    BY DEF Create, EditRead, Begin, books
  <2>2. \A r \in Requests, i \in Invoices, a \in Amounts :
          PayRead(r, i, a) \/ NoteRead(r, i, a) => UNCHANGED <<payments, notes>>
    BY DEF PayRead, NoteRead, Begin, books
  <2>3. \A r \in Requests, i \in Invoices :
          CancelRead(r, i) \/ RemoveRead(r, i) => UNCHANGED <<payments, notes>>
    BY DEF CancelRead, RemoveRead, Begin, books
  <2>4. \A r \in Requests : CancelCommit(r) \/ EditDelete(r) \/ EditCommit(r) \/ RemoveDelete(r)
                              \/ Abandon(r) => UNCHANGED <<payments, notes>>
    BY DEF CancelCommit, EditDelete, EditCommit, RemoveDelete, Abandon, books
  <2>5. \A r \in Requests, v \in DOMAIN vouchers : VoucherCancel(r, v) => UNCHANGED <<payments, notes>>
    BY DEF VoucherCancel
  <2>6. UNCHANGED vars => UNCHANGED <<payments, notes>>
    BY DEF vars
  <2>. QED  BY <2>1, <2>2, <2>3, <2>4, <2>5, <2>6 DEF Next
<1>. QED  BY <1>3, <1>4, <1>5, <1>6, <1>7, <1>8

(* What the commit of a payment adds, and to whom.                           *)
LEMMA PaymentAdds ==
  ASSUME IInv, Countable, NEW r \in Requests, PayCommit(r)
  PROVE  \E d : /\ payments' = payments \cup {d} /\ d \notin payments
                /\ d.invoice = req[r].inv /\ d.amount = req[r].amount
                /\ req[r].inv \in Invoices /\ req[r].amount \in Amounts
                /\ Paid(d.invoice)' = Paid(d.invoice) + d.amount
                /\ \A j : j # d.invoice => Paid(j)' = Paid(j)
<1>1. PICK d : d = [voucher |-> NewVoucher, invoice |-> req[r].inv, amount |-> req[r].amount]
  OBVIOUS
<1>2. payments' = payments \cup {d}
  BY <1>1 DEF PayCommit
<1>3. d.voucher = NewVoucher /\ d.invoice = req[r].inv /\ d.amount = req[r].amount
  BY <1>1
<1>4. req[r].inv \in Invoices /\ req[r].amount \in Amounts /\ d.amount \in Nat
  BY <1>3, BoundsAssumption DEF PayCommit, IInv, TypeOK, Reading, Idle, Amounts
<1>5. d \notin payments
  <2>1. Len(vouchers) \in Nat /\ VoucherIds = 1..Len(vouchers)
    BY DEF IInv, TypeOK, VoucherIds
  <2>2. NewVoucher \notin VoucherIds
    BY <2>1 DEF NewVoucher
  <2>. QED  BY <1>3, <2>2, RowFacts DEF IInv, Applied
<1>6. PaymentsOf(d.invoice)' = PaymentsOf(d.invoice) \cup {d} /\ d \notin PaymentsOf(d.invoice)
  BY <1>2, <1>5 DEF PaymentsOf
<1>7. Priced(PaymentsOf(d.invoice))
  <2>1. PaymentsOf(d.invoice) \subseteq payments
    BY DEF PaymentsOf
  <2>. QED  BY <2>1, DocumentsPriced DEF IInv
<1>8. Paid(d.invoice)' = Paid(d.invoice) + d.amount
  BY <1>4, <1>6, <1>7, AmountFacts DEF Paid
<1>9. \A j : j # d.invoice => PaymentsOf(j)' = PaymentsOf(j)
  BY <1>2 DEF PaymentsOf
<1>10. \A j : j # d.invoice => Paid(j)' = Paid(j)
  BY <1>9 DEF Paid
<1>. QED  BY <1>2, <1>3, <1>4, <1>5, <1>8, <1>10

(* Only the commit of a payment adds to the payments.                        *)
LEMMA PaymentStep ==
  ASSUME IInv, Countable, [Next]_vars, NEW p \in payments' \ payments
  PROVE  Outstanding(p.invoice)' >= 0
<1>1. PICK r \in Requests : PayCommit(r)
  <2>1. payments' # payments
    OBVIOUS
  <2>2. \A r \in Requests : ~ RemoveCommit(r)
    BY DEF RemoveCommit
  <2>3. \A r \in Requests, i \in Invoices, x \in Parties, a \in Amounts :
          Create(r, i, x, a) \/ EditRead(r, i, x, a) => UNCHANGED payments
    BY DEF Create, EditRead, Begin, books
  <2>4. \A r \in Requests, i \in Invoices, a \in Amounts : PayRead(r, i, a) \/ NoteRead(r, i, a) => UNCHANGED payments
    BY DEF PayRead, NoteRead, Begin, books
  <2>5. \A r \in Requests, i \in Invoices : CancelRead(r, i) \/ RemoveRead(r, i) => UNCHANGED payments
    BY DEF CancelRead, RemoveRead, Begin, books
  <2>6. \A r \in Requests : NoteCommit(r) \/ CancelCommit(r) \/ EditDelete(r) \/ EditCommit(r) => UNCHANGED payments
    BY DEF NoteCommit, CancelCommit, EditDelete, EditCommit, books
  <2>7. \A r \in Requests : RemoveDelete(r) \/ Abandon(r) => UNCHANGED payments
    BY DEF RemoveDelete, Abandon, books
  <2>8. /\ \A r \in Requests, n \in notes : NoteCancel(r, n) => UNCHANGED payments
        /\ \A r \in Requests, v \in DOMAIN vouchers : VoucherCancel(r, v) => UNCHANGED payments
    BY DEF NoteCancel, VoucherCancel
  <2>. QED  BY <2>1, <2>2, <2>3, <2>4, <2>5, <2>6, <2>7, <2>8 DEF Next, vars
<1>2. PICK d : /\ payments' = payments \cup {d}
               /\ d.invoice = req[r].inv /\ d.amount = req[r].amount
               /\ d.invoice \in Invoices /\ d.amount \in Amounts
               /\ Paid(d.invoice)' = Paid(d.invoice) + d.amount
  BY <1>1, PaymentAdds
<1>3. p = d
  BY <1>2
<1>4. d.amount <= Outstanding(d.invoice) /\ UNCHANGED invoice /\ UNCHANGED notes
  BY <1>1, <1>2 DEF PayCommit
<1>5. Noted(d.invoice)' = Noted(d.invoice)
  BY <1>4 DEF Noted, IssuedNotesOf, NotesOf
<1>6. invoice[d.invoice].total \in Int /\ d.amount \in Int
  <2>1. invoice[d.invoice] \in Row \cup {NoInvoice}
    BY <1>2 DEF IInv, TypeOK
  <2>. QED  BY <1>2, <2>1, BoundsAssumption DEF Row, NoInvoice, Amounts
<1>7. Paid(d.invoice) \in Nat /\ Noted(d.invoice) \in Nat
  BY DocumentsPriced DEF IInv
<1>8. Outstanding(d.invoice)' = invoice[d.invoice].total - (Paid(d.invoice) + d.amount) - Noted(d.invoice)
  BY <1>2, <1>4, <1>5 DEF Outstanding
<1>9. Outstanding(d.invoice)' >= 0
  BY <1>4, <1>6, <1>7, <1>8 DEF Outstanding
<1>. QED  BY <1>3, <1>9

(* Under any interleaving of any number of requests a payment never takes an
   invoice beyond its total, the payments and the notes of its commit counted: the
   lock and the second look of recordPayment are enough. *)
THEOREM PaymentsWithinBalance == Spec => PaymentWithinBalance
<1>1. Init => IInv /\ Countable
  BY InitIInv, FS_EmptySet DEF Init, Countable
<1>2. IInv /\ Countable /\ [Next]_vars => IInv' /\ Countable'
  BY NextIInv, CountableInductive
<1>3. IInv /\ Countable /\ [Next]_vars => [\A p \in payments' \ payments : Outstanding(p.invoice)' >= 0]_vars
  BY PaymentStep
<1>. QED  BY <1>1, <1>2, <1>3, PTL DEF Spec, PaymentWithinBalance

-----------------------------------------------------------------------------
(* Requests are served one at a time if there is no second one.              *)
OneAtATime == \A r, s \in Requests : r = s

(* What counts: the payments, and the notes not cancelled.                   *)
Counted == payments \cup {n \in notes : n.status = "ISSUED"}
IssuedInvoices == {i \in Invoices : invoice[i].status = "ISSUED"}

(* Only an issued invoice has been paid or returned.                         *)
SettledOnlyWhenIssued ==
  \A i \in Invoices \ IssuedInvoices : PaymentsOf(i) = {} /\ IssuedNotesOf(i) = {}

VouchersOf(i) == {invoice[i].voucher} \cup VoucherRefs(PaymentsOf(i)) \cup VoucherRefs(NotesOf(i))

(* What the one request has read is still so.                                *)
Seen(q) ==
  /\ q.op \in {"pay", "note"} => q.party = invoice[q.inv].party
  /\ q.op = "note" => /\ invoice[q.inv].status = "ISSUED"
                      /\ q.amount <= invoice[q.inv].total - Noted(q.inv)
  /\ q.op \in {"cancel", "edit", "restate"} => Unsettled(q.inv)
  /\ q.op = "restate" => q.stale = vouchers[invoice[q.inv].voucher].lines
  /\ q.op \in {"remove", "unwind"} => q.ids = VouchersOf(q.inv)
  /\ q.op = "unwind" => q.deleted = VoucherRefs(PaymentsOf(q.inv) \cup NotesOf(q.inv))

AllSeen == \A r \in Requests : Seen(req[r])

(* A voucher has one line, to a party.                                       *)
States(v, p, a) == \E rev \in Nat : vouchers[v].lines = Lines(rev, p, a)

(* The voucher of what counts states it, to the party of the invoice.        *)
InvoicesStated ==
  \A i \in IssuedInvoices :
    /\ vouchers[invoice[i].voucher].type = DocumentVoucher
    /\ States(invoice[i].voucher, invoice[i].party, invoice[i].total)

CountedStated ==
  \A d \in Counted :
    /\ d.invoice \in Invoices
    /\ vouchers[d.voucher].type # DocumentVoucher
    /\ States(d.voucher, invoice[d.invoice].party, d.amount)

(* An active voucher is of something that counts, ...                        *)
NoOrphans ==
  \A v \in VoucherIds : vouchers[v].status = "ACTIVE" =>
    \/ \E i \in IssuedInvoices : invoice[i].voucher = v
    \/ \E d \in Counted : d.voucher = v

(* ... of one document.                                                      *)
VouchersApart == \A d, e \in Applied : d.voucher = e.voucher => d = e

CalmInv == /\ SettledOnlyWhenIssued /\ AllSeen
           /\ InvoicesStated /\ CountedStated /\ NoOrphans /\ VouchersApart

(* The empty books are calm.                                                 *)
LEMMA InitCalm == Init => CalmInv
BY DEF Init, CalmInv, SettledOnlyWhenIssued, AllSeen, Seen, InvoicesStated, CountedStated, NoOrphans,
       VouchersApart, IssuedInvoices, Counted, PaymentsOf, IssuedNotesOf, NotesOf, Applied, NoInvoice, Idle,
       VoucherIds

(* The one request reads on, or ends.                                        *)
LEMMA SeenByOne ==
  ASSUME OneAtATime, IInv, NEW r \in Requests, NEW q, req' = [req EXCEPT ![r] = q], Seen(q)'
  PROVE  AllSeen'
<1>1. req'[r] = q /\ \A s \in Requests : s = r
  BY DEF OneAtATime, IInv, TypeOK
<1>2. ASSUME NEW s \in Requests  PROVE Seen(req[s])'
  <2>1. req'[s] = q
    BY <1>1
  <2>. QED  BY <2>1
<1>. QED  BY <1>2 DEF AllSeen

(* An idle request has read nothing that could go stale.                     *)
LEMMA SeenByNone ==
  ASSUME OneAtATime, IInv, NEW r \in Requests, req'[r] = Idle
  PROVE  AllSeen'
<1>1. Seen(Idle)'
  BY DEF Seen, Idle
<1>2. ASSUME NEW s \in Requests  PROVE Seen(req[s])'
  <2>1. req'[s] = Idle
    BY DEF OneAtATime
  <2>. QED  BY <1>1, <2>1
<1>. QED  BY <1>2 DEF AllSeen

(* Rows of documents that count, and of invoices that are issued.            *)
LEMMA CountedFacts ==
  ASSUME IInv
  PROVE  /\ Counted \subseteq Applied /\ IssuedInvoices \subseteq Created /\ IssuedInvoices \subseteq Live
         /\ \A d \in Counted : d.voucher \in VoucherIds /\ d.amount \in Amounts
         /\ \A i \in IssuedInvoices : /\ invoice[i].voucher \in VoucherIds /\ invoice[i].party \in Parties
                                      /\ invoice[i].total \in Amounts
         /\ \A i \in Live : invoice[i].voucher \in VoucherIds
<1>1. Counted \subseteq Applied /\ IssuedInvoices \subseteq Created /\ IssuedInvoices \subseteq Live
  BY DEF Counted, Applied, IssuedInvoices, Created, Live
<1>2. \A d \in Counted : d.voucher \in VoucherIds /\ d.amount \in Amounts
  BY <1>1, RowFacts DEF IInv, TypeOK, Counted
<1>3. \A i \in Created : /\ invoice[i].voucher \in VoucherIds /\ invoice[i].party \in Parties
                         /\ invoice[i].total \in Amounts
  BY RowFacts DEF IInv, Row
<1>. QED  BY <1>1, <1>2, <1>3, RowFacts DEF IInv

WritesStatus(i, s) == invoice' = [invoice EXCEPT ![i].status = s]
Restates(i, p, a) == invoice' = [invoice EXCEPT ![i].party = p, ![i].total = a]

(* What a handler that writes the status of an invoice leaves of the rows.    *)
LEMMA StatusWritten ==
  ASSUME TypeOK, NEW i \in Invoices, NEW s, WritesStatus(i, s)
  PROVE  /\ \A j \in Invoices : /\ invoice'[j].voucher = invoice[j].voucher
                                 /\ invoice'[j].party = invoice[j].party
                                 /\ invoice'[j].total = invoice[j].total
         /\ invoice'[i].status = s
         /\ \A j \in Invoices \ {i} : invoice'[j] = invoice[j]
<1>1. PICK x : x = invoice[i]
  OBVIOUS
<1>2. PICK y : y = [x EXCEPT !.status = s]
  OBVIOUS
<1>3. x \in Row \cup {NoInvoice}
  BY <1>1 DEF TypeOK
<1>4. y.status = s /\ y.voucher = x.voucher /\ y.party = x.party /\ y.total = x.total
  BY <1>2, <1>3 DEF Row, NoInvoice
<1>5. \A j \in Invoices : invoice'[j] = IF j = i THEN y ELSE invoice[j]
  BY <1>1, <1>2 DEF TypeOK, WritesStatus
<1>. QED  BY <1>1, <1>4, <1>5

(* What an edit leaves of them.                                              *)
LEMMA RowRestated ==
  ASSUME TypeOK, NEW i \in Invoices, NEW p, NEW a, Restates(i, p, a)
  PROVE  /\ \A j \in Invoices : invoice'[j].voucher = invoice[j].voucher /\ invoice'[j].status = invoice[j].status
         /\ invoice'[i].party = p /\ invoice'[i].total = a
         /\ \A j \in Invoices \ {i} : invoice'[j] = invoice[j]
<1>1. PICK x : x = invoice[i]
  OBVIOUS
<1>2. PICK y : y = [x EXCEPT !.party = p, !.total = a]
  OBVIOUS
<1>3. x \in Row \cup {NoInvoice}
  BY <1>1 DEF TypeOK
<1>4. y.status = x.status /\ y.voucher = x.voucher /\ y.party = p /\ y.total = a
  BY <1>2, <1>3 DEF Row, NoInvoice
<1>5. \A j \in Invoices : invoice'[j] = IF j = i THEN y ELSE invoice[j]
  BY <1>1, <1>2 DEF TypeOK, Restates
<1>. QED  BY <1>1, <1>4, <1>5

(* Documents that count stay, no invoice is settled that was not.             *)
LEMMA CountedOf ==
  ASSUME IInv, SettledOnlyWhenIssued, CountedStated
  PROVE  \A d \in Counted : d.invoice \in IssuedInvoices
<1>1. ASSUME NEW d \in Counted, d.invoice \notin IssuedInvoices  PROVE FALSE
  <2>1. d.invoice \in Invoices
    BY DEF CountedStated
  <2>2. d \in PaymentsOf(d.invoice) \/ d \in IssuedNotesOf(d.invoice)
    BY DEF Counted, PaymentsOf, IssuedNotesOf, NotesOf
  <2>. QED  BY <1>1, <2>1, <2>2 DEF SettledOnlyWhenIssued
<1>. QED  BY <1>1

-----------------------------------------------------------------------------
(* Reads, and requests that end, leave the books as they are.                *)
LEMMA ReadCalm ==
  ASSUME OneAtATime, IInv, CalmInv, NEW r \in Requests, NEW q, req' = [req EXCEPT ![r] = q],
         UNCHANGED books, Seen(q)
  PROVE  CalmInv'
<1>1. UNCHANGED invoice /\ UNCHANGED payments /\ UNCHANGED notes /\ UNCHANGED vouchers
  BY DEF books
<1>2. Seen(q)'
  BY <1>1 DEF Seen, Unsettled, PaymentsOf, IssuedNotesOf, NotesOf, VouchersOf, Noted
<1>3. AllSeen'
  BY <1>2, SeenByOne
<1>4. SettledOnlyWhenIssued'
  BY <1>1 DEF CalmInv, SettledOnlyWhenIssued, IssuedInvoices, PaymentsOf, IssuedNotesOf, NotesOf
<1>5. InvoicesStated' /\ CountedStated' /\ NoOrphans' /\ VouchersApart'
  BY <1>1 DEF CalmInv, InvoicesStated, CountedStated, NoOrphans, VouchersApart, IssuedInvoices, Counted,
              States, Applied, VoucherIds
<1>. QED  BY <1>3, <1>4, <1>5 DEF CalmInv

(* The first read of a handler: what it notes is so.                         *)
LEMMA ReadsCalm ==
  ASSUME OneAtATime, IInv, CalmInv, NEW r \in Requests, NEW i \in Invoices, NEW p \in Parties, NEW a \in Amounts,
         \/ PayRead(r, i, a) \/ NoteRead(r, i, a) \/ CancelRead(r, i) \/ EditRead(r, i, p, a) \/ RemoveRead(r, i)
  PROVE  CalmInv'
<1>1. CASE PayRead(r, i, a)
  <2>1. PICK q : q = [op |-> "pay", inv |-> i, party |-> invoice[i].party, amount |-> a]
    OBVIOUS
  <2>2. Seen(q)
    BY <2>1 DEF Seen
  <2>. QED  BY <1>1, <2>1, <2>2, ReadCalm DEF PayRead, Begin
<1>2. CASE NoteRead(r, i, a)
  <2>1. PICK q : q = [op |-> "note", inv |-> i, party |-> invoice[i].party, amount |-> a]
    OBVIOUS
  <2>2. Seen(q)
    BY <1>2, <2>1 DEF Seen, NoteRead
  <2>. QED  BY <1>2, <2>1, <2>2, ReadCalm DEF NoteRead, Begin
<1>3. CASE CancelRead(r, i)
  <2>1. PICK q : q = [op |-> "cancel", inv |-> i]
    OBVIOUS
  <2>2. Seen(q)
    BY <1>3, <2>1 DEF Seen, CancelRead
  <2>. QED  BY <1>3, <2>1, <2>2, ReadCalm DEF CancelRead, Begin
<1>4. CASE EditRead(r, i, p, a)
  <2>1. PICK q : q = [op |-> "edit", inv |-> i, party |-> p, amount |-> a]
    OBVIOUS
  <2>2. Seen(q)
    BY <1>4, <2>1 DEF Seen, EditRead
  <2>. QED  BY <1>4, <2>1, <2>2, ReadCalm DEF EditRead, Begin
<1>5. CASE RemoveRead(r, i)
  <2>1. PICK q : q = [op |-> "remove", inv |-> i,
               ids |-> {invoice[i].voucher} \cup VoucherRefs(PaymentsOf(i))
                                            \cup VoucherRefs(NotesOf(i))]
    OBVIOUS
  <2>2. Seen(q)
    BY <2>1 DEF Seen, VouchersOf
  <2>. QED  BY <1>5, <2>1, <2>2, ReadCalm DEF RemoveRead, Begin
<1>. QED  BY <1>1, <1>2, <1>3, <1>4, <1>5

(* The deletes of an edit and of a removal.                                  *)
LEMMA DeletesCalm ==
  ASSUME OneAtATime, IInv, CalmInv, NEW r \in Requests, EditDelete(r) \/ RemoveDelete(r)
  PROVE  CalmInv'
<1>. PICK i : i = req[r].inv
  OBVIOUS
<1>1. Seen(req[r])
  BY DEF CalmInv, AllSeen
<1>2. CASE EditDelete(r)
  <2>1. PICK q : q = [op |-> "restate", inv |-> i, party |-> req[r].party, amount |-> req[r].amount,
                      stale |-> vouchers[invoice[i].voucher].lines]
    OBVIOUS
  <2>2. Seen(q)
    BY <1>1, <1>2, <2>1 DEF Seen, EditDelete
  <2>. QED  BY <1>2, <2>1, <2>2, ReadCalm DEF EditDelete
<1>3. CASE RemoveDelete(r)
  <2>1. PICK q : q = [op |-> "unwind", inv |-> i, ids |-> req[r].ids,
                      deleted |-> VoucherRefs(PaymentsOf(i) \cup NotesOf(i))]
    OBVIOUS
  <2>2. Seen(q)
    BY <1>1, <1>3, <2>1 DEF Seen, RemoveDelete
  <2>. QED  BY <1>3, <2>1, <2>2, ReadCalm DEF RemoveDelete
<1>. QED  BY <1>2, <1>3

(* A request that ends without a commit leaves the books as they were.       *)
LEMMA AbandonCalm ==
  ASSUME OneAtATime, IInv, CalmInv, NEW r \in Requests, Abandon(r)
  PROVE  CalmInv'
<1>1. Seen(Idle)
  BY DEF Seen, Idle
<1>. QED  BY <1>1, ReadCalm DEF Abandon, End

-----------------------------------------------------------------------------
(* A voucher posted states what it was posted for; the others stay.           *)
LEMMA Posted ==
  ASSUME IInv, NEW type, NEW p, NEW a, Post(type, p, a)
  PROVE  /\ VoucherIds' = VoucherIds \cup {NewVoucher} /\ NewVoucher \notin VoucherIds
         /\ \A v \in VoucherIds : vouchers'[v] = vouchers[v]
         /\ vouchers'[NewVoucher].type = type /\ vouchers'[NewVoucher].status = "ACTIVE"
         /\ vouchers'[NewVoucher].lines = Lines(0, p, a)
<1>1. PICK x : x = [type |-> type, status |-> "ACTIVE", rev |-> 0, lines |-> Lines(0, p, a)]
  OBVIOUS
<1>2. vouchers' = Append(vouchers, x) /\ vouchers \in Seq(Voucher)
  BY <1>1 DEF Post, IInv, TypeOK
<1>3. Len(vouchers) \in Nat /\ DOMAIN vouchers = 1..Len(vouchers)
  BY <1>2
<1>4. /\ DOMAIN vouchers' = 1..(Len(vouchers) + 1)
      /\ \A v \in 1..Len(vouchers) : vouchers'[v] = vouchers[v]
      /\ vouchers'[Len(vouchers) + 1] = x
  BY <1>2
<1>. QED  BY <1>1, <1>3, <1>4 DEF VoucherIds, NewVoucher

(* An invoice created is stated by the voucher posted with it.               *)
LEMMA CreateCalm ==
  ASSUME OneAtATime, IInv, CalmInv, NEW r \in Requests, NEW i \in Invoices, NEW p \in Parties,
         NEW t \in Amounts, Create(r, i, p, t)
  PROVE  CalmInv'
<1>1. PICK row : row = [status |-> "ISSUED", party |-> p, total |-> t, voucher |-> NewVoucher]
  OBVIOUS
<1>2. /\ invoice' = [invoice EXCEPT ![i] = row] /\ invoice[i].status = "NONE"
      /\ UNCHANGED payments /\ UNCHANGED notes /\ req'[r] = Idle /\ Post(DocumentVoucher, p, t)
  BY <1>1 DEF Create
<1>3. row.status = "ISSUED" /\ row.party = p /\ row.total = t /\ row.voucher = NewVoucher
  BY <1>1
<1>4. invoice'[i] = row /\ \A j \in Invoices \ {i} : invoice'[j] = invoice[j]
  BY <1>2 DEF IInv, TypeOK
<1>5. IssuedInvoices' = IssuedInvoices \cup {i} /\ i \notin IssuedInvoices
  BY <1>2, <1>3, <1>4 DEF IssuedInvoices
<1>6. UNCHANGED Counted /\ UNCHANGED Applied
  BY <1>2 DEF Counted, Applied
<1>7. AllSeen'
  BY <1>2, SeenByNone
<1>8. SettledOnlyWhenIssued'
  BY <1>2, <1>5 DEF CalmInv, SettledOnlyWhenIssued, PaymentsOf, IssuedNotesOf, NotesOf
<1>9. InvoicesStated'
  <2>2. ASSUME NEW j \in IssuedInvoices
        PROVE  /\ invoice'[j] = invoice[j]
               /\ vouchers'[invoice[j].voucher] = vouchers[invoice[j].voucher]
    BY <1>2, <1>4, <1>5, Posted, CountedFacts DEF IssuedInvoices
  <2>3. ASSUME NEW j \in IssuedInvoices'
        PROVE  /\ vouchers'[invoice'[j].voucher].type = DocumentVoucher
               /\ \E rev \in Nat : vouchers'[invoice'[j].voucher].lines = Lines(rev, invoice'[j].party, invoice'[j].total)
    <3>1. CASE j = i
      BY <1>2, <1>3, <1>4, <3>1, Posted
    <3>2. CASE j # i
      BY <1>5, <2>2, <3>2 DEF CalmInv, InvoicesStated, States
    <3>. QED  BY <3>1, <3>2
  <2>. QED  BY <2>3 DEF InvoicesStated, States
<1>10. CountedStated'
  <2>. SUFFICES ASSUME NEW d \in Counted
                PROVE  /\ d.invoice \in Invoices /\ vouchers'[d.voucher].type # DocumentVoucher
                       /\ \E rev \in Nat : vouchers'[d.voucher].lines = Lines(rev, invoice'[d.invoice].party, d.amount)
    BY <1>6 DEF CountedStated, States
  <2>1. d.invoice \in IssuedInvoices
    BY CountedOf DEF CalmInv
  <2>2. invoice'[d.invoice] = invoice[d.invoice] /\ vouchers'[d.voucher] = vouchers[d.voucher]
    BY <1>2, <1>4, <1>5, <2>1, Posted, CountedFacts DEF IssuedInvoices
  <2>. QED  BY <2>2 DEF CalmInv, CountedStated, States
<1>11. NoOrphans'
  <2>. SUFFICES ASSUME NEW v \in VoucherIds', vouchers'[v].status = "ACTIVE"
                PROVE  (\E j \in IssuedInvoices' : invoice'[j].voucher = v) \/ \E d \in Counted : d.voucher = v
    BY <1>6 DEF NoOrphans
  <2>1. CASE v = NewVoucher
    BY <1>3, <1>4, <1>5, <2>1
  <2>2. CASE v # NewVoucher
    BY <1>2, <1>4, <1>5, <2>2, Posted DEF CalmInv, NoOrphans, IssuedInvoices
  <2>. QED  BY <2>1, <2>2
<1>12. VouchersApart'
  BY <1>6 DEF CalmInv, VouchersApart
<1>. QED  BY <1>7, <1>8, <1>9, <1>10, <1>11, <1>12 DEF CalmInv

(* A payment or a note, on an issued invoice, to its party.                  *)
LEMMA DocumentCalm ==
  ASSUME OneAtATime, IInv, CalmInv, NEW r \in Requests, NEW i \in IssuedInvoices, NEW a \in Amounts,
         NEW type, type # DocumentVoucher, Post(type, invoice[i].party, a),
         UNCHANGED invoice, End(r), NEW d, d.voucher = NewVoucher, d.invoice = i, d.amount = a,
         Counted' = Counted \cup {d}, Applied' = Applied \cup {d},
         \A j \in Invoices \ {i} : UNCHANGED PaymentsOf(j) /\ UNCHANGED IssuedNotesOf(j)
  PROVE  CalmInv'
<1>1. UNCHANGED IssuedInvoices
  BY DEF IssuedInvoices
<1>2. AllSeen'
  BY SeenByNone DEF End, IInv, TypeOK
<1>3. SettledOnlyWhenIssued'
  BY <1>1 DEF CalmInv, SettledOnlyWhenIssued
<1>4. /\ VoucherIds' = VoucherIds \cup {NewVoucher} /\ NewVoucher \notin VoucherIds
      /\ \A v \in VoucherIds : vouchers'[v] = vouchers[v]
      /\ vouchers'[NewVoucher].type = type
      /\ vouchers'[NewVoucher].lines = Lines(0, invoice[i].party, a)
  BY Posted
<1>5. InvoicesStated'
  <2>1. \A j \in IssuedInvoices : vouchers'[invoice[j].voucher] = vouchers[invoice[j].voucher]
    BY <1>4, CountedFacts
  <2>. QED  BY <1>1, <2>1 DEF CalmInv, InvoicesStated, States
<1>6. CountedStated'
  <2>. SUFFICES ASSUME NEW e \in Counted'
                PROVE  /\ e.invoice \in Invoices /\ vouchers'[e.voucher].type # DocumentVoucher
                       /\ \E rev \in Nat : vouchers'[e.voucher].lines = Lines(rev, invoice[e.invoice].party, e.amount)
    BY DEF CountedStated, States
  <2>1. CASE e = d
    BY <1>4, <2>1 DEF IssuedInvoices
  <2>2. CASE e # d
    BY <1>4, <2>2, CountedFacts DEF CalmInv, CountedStated, States
  <2>. QED  BY <2>1, <2>2
<1>7. NoOrphans'
  <2>. SUFFICES ASSUME NEW v \in VoucherIds', vouchers'[v].status = "ACTIVE"
                PROVE  (\E j \in IssuedInvoices : invoice[j].voucher = v) \/ \E e \in Counted' : e.voucher = v
    BY <1>1 DEF NoOrphans
  <2>. QED  BY <1>4 DEF CalmInv, NoOrphans
<1>8. VouchersApart'
  BY <1>4, RowFacts DEF CalmInv, VouchersApart, IInv
<1>. QED  BY <1>2, <1>3, <1>5, <1>6, <1>7, <1>8 DEF CalmInv

(* A payment is stated by its voucher, to the party still on the invoice.    *)
LEMMA PayCalm ==
  ASSUME OneAtATime, IInv, CalmInv, NEW r \in Requests, PayCommit(r)
  PROVE  CalmInv'
<1>1. PICK i : i = req[r].inv
  OBVIOUS
<1>2. PICK a : a = req[r].amount
  OBVIOUS
<1>3. i \in IssuedInvoices /\ a \in Amounts /\ req[r].party = invoice[i].party
  <2>1. i \in Invoices /\ a \in Amounts
    BY <1>1, <1>2 DEF PayCommit, IInv, TypeOK, Reading, Idle
  <2>2. invoice[i].status = "ISSUED"
    BY <1>1 DEF PayCommit
  <2>3. req[r].party = invoice[i].party
    BY <1>1 DEF CalmInv, AllSeen, Seen, PayCommit
  <2>. QED  BY <2>1, <2>2, <2>3 DEF IssuedInvoices
<1>4. PICK d : d = [voucher |-> NewVoucher, invoice |-> i, amount |-> a]
  OBVIOUS
<1>5. d.voucher = NewVoucher /\ d.invoice = i /\ d.amount = a
  BY <1>4
<1>6. /\ payments' = payments \cup {d} /\ UNCHANGED notes /\ UNCHANGED invoice /\ End(r)
      /\ Post(PaymentVoucher, invoice[i].party, a)
  BY <1>1, <1>2, <1>3, <1>4 DEF PayCommit
<1>7. Counted' = Counted \cup {d} /\ Applied' = Applied \cup {d}
  BY <1>6 DEF Counted, Applied
<1>8. \A j \in Invoices \ {i} : PaymentsOf(j)' = PaymentsOf(j) /\ IssuedNotesOf(j)' = IssuedNotesOf(j)
  BY <1>5, <1>6 DEF PaymentsOf, IssuedNotesOf, NotesOf
<1>9. PaymentVoucher # DocumentVoucher
  BY TypesAssumption
<1>. QED  BY <1>3, <1>5, <1>6, <1>7, <1>8, <1>9, DocumentCalm

(* So is a credit note.                                                      *)
LEMMA NoteCalm ==
  ASSUME OneAtATime, IInv, CalmInv, NEW r \in Requests, NoteCommit(r)
  PROVE  CalmInv'
<1>1. PICK i : i = req[r].inv
  OBVIOUS
<1>2. PICK a : a = req[r].amount
  OBVIOUS
<1>3. i \in IssuedInvoices /\ a \in Amounts /\ req[r].party = invoice[i].party
  <2>1. i \in Invoices /\ a \in Amounts
    BY <1>1, <1>2 DEF NoteCommit, IInv, TypeOK, Reading, Idle
  <2>2. invoice[i].status = "ISSUED" /\ req[r].party = invoice[i].party
    BY <1>1 DEF CalmInv, AllSeen, Seen, NoteCommit
  <2>. QED  BY <2>1, <2>2 DEF IssuedInvoices
<1>4. PICK d : d = [voucher |-> NewVoucher, invoice |-> i, amount |-> a, status |-> "ISSUED"]
  OBVIOUS
<1>5. d.voucher = NewVoucher /\ d.invoice = i /\ d.amount = a /\ d.status = "ISSUED"
  BY <1>4
<1>6. /\ notes' = notes \cup {d} /\ UNCHANGED payments /\ UNCHANGED invoice /\ End(r)
      /\ Post(NoteVoucher, invoice[i].party, a)
  BY <1>1, <1>2, <1>3, <1>4 DEF NoteCommit
<1>7. Counted' = Counted \cup {d} /\ Applied' = Applied \cup {d}
  BY <1>5, <1>6 DEF Counted, Applied
<1>8. \A j \in Invoices \ {i} : PaymentsOf(j)' = PaymentsOf(j) /\ IssuedNotesOf(j)' = IssuedNotesOf(j)
  BY <1>5, <1>6 DEF PaymentsOf, IssuedNotesOf, NotesOf
<1>9. NoteVoucher # DocumentVoucher
  BY TypesAssumption
<1>. QED  BY <1>3, <1>5, <1>6, <1>7, <1>8, <1>9, DocumentCalm

(* One voucher leaves the books, and with it what it was of.                  *)
Leaves(v) ==
  /\ vouchers' = [vouchers EXCEPT ![v].status = "CANCELLED"]
  /\ \A i \in Invoices : /\ invoice'[i].voucher = invoice[i].voucher
                         /\ invoice'[i].party = invoice[i].party
                         /\ invoice'[i].total = invoice[i].total
  /\ IssuedInvoices' \subseteq IssuedInvoices /\ Counted' \subseteq Counted
  /\ \A i \in IssuedInvoices : i \in IssuedInvoices' \/ invoice[i].voucher = v
  /\ \A d \in Counted : d \in Counted' \/ d.voucher = v

(* A document is cancelled with its voucher, and the books are calm after it. *)
LEMMA CancelledCalm ==
  ASSUME OneAtATime, IInv, CalmInv, NEW r \in Requests, req'[r] = Idle, NEW v \in VoucherIds, Leaves(v),
         SettledOnlyWhenIssued', VouchersApart'
  PROVE  CalmInv'
<1>. USE DEF Leaves
<1>1. AllSeen'
  BY SeenByNone
<1>2. /\ VoucherIds' = VoucherIds /\ vouchers'[v].status = "CANCELLED"
      /\ \A w \in VoucherIds : /\ w # v => vouchers'[w] = vouchers[w]
                               /\ vouchers'[w].type = vouchers[w].type /\ vouchers'[w].lines = vouchers[w].lines
  <2>1. PICK x : x = vouchers[v]
    OBVIOUS
  <2>2. PICK y : y = [x EXCEPT !.status = "CANCELLED"]
    OBVIOUS
  <2>3. x \in Voucher
    BY <2>1 DEF IInv, TypeOK, VoucherIds
  <2>4. y.status = "CANCELLED" /\ y.type = x.type /\ y.lines = x.lines
    BY <2>2, <2>3 DEF Voucher
  <2>5. DOMAIN vouchers' = DOMAIN vouchers /\ \A w \in DOMAIN vouchers : vouchers'[w] = IF w = v THEN y ELSE vouchers[w]
    BY <2>1, <2>2 DEF VoucherIds
  <2>. QED  BY <2>1, <2>4, <2>5 DEF VoucherIds
<1>3. InvoicesStated'
  <2>. SUFFICES ASSUME NEW i \in IssuedInvoices'
                PROVE  /\ vouchers'[invoice'[i].voucher].type = DocumentVoucher
                       /\ \E rev \in Nat : vouchers'[invoice'[i].voucher].lines = Lines(rev, invoice'[i].party, invoice'[i].total)
    BY DEF InvoicesStated, States
  <2>1. i \in IssuedInvoices /\ i \in Invoices
    BY DEF IssuedInvoices
  <2>. QED  BY <1>2, <2>1, CountedFacts DEF CalmInv, InvoicesStated, States
<1>4. CountedStated'
  <2>. SUFFICES ASSUME NEW d \in Counted'
                PROVE  /\ d.invoice \in Invoices /\ vouchers'[d.voucher].type # DocumentVoucher
                       /\ \E rev \in Nat : vouchers'[d.voucher].lines = Lines(rev, invoice'[d.invoice].party, d.amount)
    BY DEF CountedStated, States
  <2>1. d \in Counted /\ d.invoice \in Invoices
    BY DEF CalmInv, CountedStated
  <2>. QED  BY <1>2, <2>1, CountedFacts DEF CalmInv, CountedStated, States
<1>5. NoOrphans'
  <2>. SUFFICES ASSUME NEW w \in VoucherIds, vouchers'[w].status = "ACTIVE"
                PROVE  (\E i \in IssuedInvoices' : invoice'[i].voucher = w) \/ \E d \in Counted' : d.voucher = w
    BY <1>2 DEF NoOrphans
  <2>1. w # v /\ vouchers[w].status = "ACTIVE"
    BY <1>2
  <2>2. CASE \E i \in IssuedInvoices : invoice[i].voucher = w
    BY <2>1, <2>2 DEF IssuedInvoices
  <2>3. CASE \E d \in Counted : d.voucher = w
    BY <2>1, <2>3
  <2>. QED  BY <2>1, <2>2, <2>3 DEF CalmInv, NoOrphans
<1>. QED  BY <1>1, <1>3, <1>4, <1>5 DEF CalmInv

(* A voucher cancelled behind its document keeps its lines.                  *)
LEMMA VoucherCancelCalm ==
  ASSUME OneAtATime, IInv, CalmInv, NEW r \in Requests, NEW v \in VoucherIds, VoucherCancel(r, v)
  PROVE  CalmInv'
<1>1. /\ vouchers' = [vouchers EXCEPT ![v].status = "CANCELLED"] /\ req'[r] = Idle
      /\ UNCHANGED invoice /\ UNCHANGED payments /\ UNCHANGED notes
  BY DEF VoucherCancel
<1>2. UNCHANGED IssuedInvoices /\ UNCHANGED Counted /\ UNCHANGED Applied
  BY <1>1 DEF IssuedInvoices, Counted, Applied
<1>3. SettledOnlyWhenIssued'
  BY <1>1, <1>2 DEF CalmInv, SettledOnlyWhenIssued, PaymentsOf, IssuedNotesOf, NotesOf
<1>4. VouchersApart'
  BY <1>2 DEF CalmInv, VouchersApart
<1>5. Leaves(v)
  BY <1>1, <1>2 DEF Leaves
<1>. QED  BY <1>1, <1>3, <1>4, <1>5, CancelledCalm

(* An invoice cancelled was unsettled, and takes its voucher with it.        *)
LEMMA CancelCommitCalm ==
  ASSUME OneAtATime, IInv, CalmInv, NEW r \in Requests, CancelCommit(r)
  PROVE  CalmInv'
<1>1. PICK i : i = req[r].inv
  OBVIOUS
<1>2. /\ vouchers' = [vouchers EXCEPT ![invoice[i].voucher].status = "CANCELLED"]
      /\ invoice' = [invoice EXCEPT ![i].status = "CANCELLED"]
      /\ i \in Live /\ UNCHANGED payments /\ UNCHANGED notes /\ req' = [req EXCEPT ![r] = Idle]
  BY <1>1 DEF CancelCommit, End
<1>3. req'[r] = Idle
  BY <1>2 DEF IInv, TypeOK
<1>4. PaymentsOf(i) = {} /\ IssuedNotesOf(i) = {}
  BY <1>1 DEF CalmInv, AllSeen, Seen, Unsettled, CancelCommit
<1>5. i \in Invoices /\ invoice[i].voucher \in VoucherIds
  BY <1>2, CountedFacts DEF Live
<1>6. \A j \in Invoices : /\ invoice'[j].voucher = invoice[j].voucher
                          /\ invoice'[j].party = invoice[j].party
                          /\ invoice'[j].total = invoice[j].total
                          /\ j = i => invoice'[j].status = "CANCELLED"
                          /\ j # i => invoice'[j].status = invoice[j].status
  <2>1. TypeOK /\ i \in Invoices
    BY <1>2, <1>5 DEF IInv, Live
  <2>2. WritesStatus(i, "CANCELLED")
    BY <1>2, <1>5 DEF WritesStatus
  <2>. QED  BY <2>1, <2>2, StatusWritten
<1>7. IssuedInvoices' = IssuedInvoices \ {i}
  BY <1>6 DEF IssuedInvoices
<1>8. UNCHANGED Counted /\ UNCHANGED Applied
  BY <1>2 DEF Counted, Applied
<1>9. SettledOnlyWhenIssued'
  BY <1>2, <1>4, <1>7 DEF CalmInv, SettledOnlyWhenIssued, PaymentsOf, IssuedNotesOf, NotesOf
<1>10. VouchersApart'
  BY <1>8 DEF CalmInv, VouchersApart
<1>11. PICK v \in VoucherIds : v = invoice[i].voucher
  BY <1>5
<1>12. Leaves(v)
  BY <1>2, <1>6, <1>7, <1>8, <1>11 DEF Leaves
<1>. QED  BY <1>3, <1>9, <1>10, <1>11, <1>12, CancelledCalm

(* A note is no payment: it has a status.                                    *)
LEMMA NoteOrPayment ==
  ASSUME TypeOK
  PROVE  payments \cap notes = {}
<1>1. \A p \in payments : DOMAIN p = {"voucher", "invoice", "amount"}
  BY DEF TypeOK
<1>2. \A n \in notes : "status" \in DOMAIN n
  BY DEF TypeOK
<1>. QED  BY <1>1, <1>2

(* A note cancelled takes its voucher with it.                               *)
LEMMA NoteCancelCalm ==
  ASSUME OneAtATime, IInv, CalmInv, NEW r \in Requests, NEW n \in notes, NoteCancel(r, n)
  PROVE  CalmInv'
<1>1. PICK m : m = [n EXCEPT !.status = "CANCELLED"]
  OBVIOUS
<1>2. n \in [voucher : VoucherIds, invoice : Invoices \cup {None}, amount : Amounts, status : {"ISSUED", "CANCELLED"}]
  BY DEF IInv, TypeOK
<1>3. m.status = "CANCELLED" /\ m.voucher = n.voucher /\ n.voucher \in VoucherIds
  BY <1>1, <1>2
<1>4. /\ notes' = (notes \ {n}) \cup {m} /\ UNCHANGED payments /\ UNCHANGED invoice /\ req'[r] = Idle
      /\ vouchers' = [vouchers EXCEPT ![n.voucher].status = "CANCELLED"]
  BY <1>1 DEF NoteCancel
<1>5. n \notin payments
  BY NoteOrPayment DEF IInv
<1>6. UNCHANGED IssuedInvoices
  BY <1>4 DEF IssuedInvoices
<1>7. Counted' \subseteq Counted /\ \A d \in Counted : d \in Counted' \/ d.voucher = n.voucher
  BY <1>3, <1>4 DEF Counted
<1>8. SettledOnlyWhenIssued'
  <2>1. \A j : PaymentsOf(j)' = PaymentsOf(j) /\ IssuedNotesOf(j)' \subseteq IssuedNotesOf(j)
    BY <1>3, <1>4 DEF PaymentsOf, IssuedNotesOf, NotesOf
  <2>. QED  BY <1>6, <2>1 DEF CalmInv, SettledOnlyWhenIssued
<1>9. VouchersApart'
  <2>1. Applied' = (Applied \ {n}) \cup {m}
    BY <1>4, <1>5 DEF Applied
  <2>2. n \in Applied
    BY DEF Applied
  <2>3. \A d, e \in Applied' : d.voucher = e.voucher => d = e
    BY <1>3, <2>1, <2>2 DEF CalmInv, VouchersApart
  <2>. QED  BY <2>3 DEF VouchersApart
<1>10. PICK v \in VoucherIds : v = n.voucher
  BY <1>3
<1>11. Leaves(v)
  BY <1>4, <1>6, <1>7, <1>10 DEF Leaves
<1>. QED  BY <1>4, <1>8, <1>9, <1>10, <1>11, CancelledCalm

(* An edit replaces the one line, and no document has the old party.         *)
LEMMA EditCommitCalm ==
  ASSUME OneAtATime, IInv, CalmInv, NEW r \in Requests, EditCommit(r)
  PROVE  CalmInv'
<1>1. PICK i : i = req[r].inv
  OBVIOUS
<1>. PICK v : v = invoice[i].voucher
  OBVIOUS
<1>. PICK p : p = req[r].party
  OBVIOUS
<1>. PICK a : a = req[r].amount
  OBVIOUS
<1>. PICK stale : stale = req[r].stale
  OBVIOUS
<1>2. /\ vouchers' = Restated(v, stale, p, a)
      /\ invoice' = [invoice EXCEPT ![i].party = p, ![i].total = a]
      /\ i \in Live /\ UNCHANGED payments /\ UNCHANGED notes /\ req' = [req EXCEPT ![r] = Idle]
  BY <1>1 DEF EditCommit, End
<1>3. req'[r] = Idle
  BY <1>2 DEF IInv, TypeOK
<1>4. invoice[i].status = "ISSUED" /\ PaymentsOf(i) = {} /\ IssuedNotesOf(i) = {} /\ stale = vouchers[v].lines
  BY <1>1 DEF CalmInv, AllSeen, Seen, Unsettled, EditCommit
<1>5. i \in IssuedInvoices /\ i \in Invoices /\ v \in VoucherIds
  BY <1>2, <1>4, CountedFacts DEF Live, IssuedInvoices
<1>6. /\ invoice'[i].voucher = v /\ invoice'[i].party = p /\ invoice'[i].total = a
      /\ invoice'[i].status = "ISSUED"
      /\ \A j \in Invoices \ {i} : invoice'[j] = invoice[j]
  <2>1. TypeOK /\ i \in Invoices
    BY <1>2, <1>4, <1>5 DEF IInv, Live
  <2>2. Restates(i, p, a)
    BY <1>2, <1>4, <1>5 DEF Restates
  <2>3. /\ \A j \in Invoices : invoice'[j].voucher = invoice[j].voucher /\ invoice'[j].status = invoice[j].status
        /\ invoice'[i].party = p /\ invoice'[i].total = a
        /\ \A j \in Invoices \ {i} : invoice'[j] = invoice[j]
    BY <2>1, <2>2, RowRestated
  <2>. QED  BY <2>1, <2>3, <1>2, <1>4, <1>5
<1>7. /\ VoucherIds' = VoucherIds /\ \A w \in VoucherIds \ {v} : vouchers'[w] = vouchers[w]
      /\ vouchers'[v].status = vouchers[v].status /\ vouchers'[v].type = vouchers[v].type
      /\ \E rev \in Nat : vouchers'[v].lines = Lines(rev, p, a)
  <2>1. PICK x : x = vouchers[v]
    OBVIOUS
  <2>2. PICK y : y = [x EXCEPT !.rev = @ + 1, !.lines = (@ \ stale) \cup Lines(x.rev + 1, p, a)]
    OBVIOUS
  <2>3. x \in Voucher
    BY <1>5, <2>1 DEF IInv, TypeOK, VoucherIds
  <2>4. /\ y.status = x.status /\ y.type = x.type
        /\ y.lines = (x.lines \ stale) \cup Lines(x.rev + 1, p, a) /\ x.rev + 1 \in Nat
    BY <2>2, <2>3 DEF Voucher
  <2>5. y.lines = Lines(x.rev + 1, p, a)
    BY <1>4, <2>1, <2>4
  <2>6. DOMAIN vouchers' = DOMAIN vouchers /\ \A w \in DOMAIN vouchers : vouchers'[w] = IF w = v THEN y ELSE vouchers[w]
    BY <1>2, <1>5, <2>1, <2>2 DEF VoucherIds, Restated
  <2>. QED  BY <1>5, <2>1, <2>4, <2>5, <2>6 DEF VoucherIds
<1>8. UNCHANGED IssuedInvoices /\ UNCHANGED Counted /\ UNCHANGED Applied
  BY <1>2, <1>4, <1>6 DEF IssuedInvoices, Counted, Applied
<1>9. AllSeen'
  BY <1>3, SeenByNone
<1>10. SettledOnlyWhenIssued'
  BY <1>2, <1>8 DEF CalmInv, SettledOnlyWhenIssued, PaymentsOf, IssuedNotesOf, NotesOf
<1>11. InvoicesStated'
  <2>. SUFFICES ASSUME NEW j \in IssuedInvoices
                PROVE  /\ vouchers'[invoice'[j].voucher].type = DocumentVoucher
                       /\ \E rev \in Nat : vouchers'[invoice'[j].voucher].lines = Lines(rev, invoice'[j].party, invoice'[j].total)
    BY <1>8 DEF InvoicesStated, States
  <2>1. CASE j = i
    BY <1>5, <1>6, <1>7, <2>1 DEF CalmInv, InvoicesStated
  <2>2. CASE j # i
    <3>1. invoice'[j] = invoice[j] /\ invoice[j].voucher \in VoucherIds \ {v}
      BY <1>5, <1>6, <2>2, CountedFacts DEF IssuedInvoices, IInv, Owned
    <3>. QED  BY <1>7, <3>1 DEF CalmInv, InvoicesStated, States
  <2>. QED  BY <2>1, <2>2
<1>12. CountedStated'
  <2>. SUFFICES ASSUME NEW d \in Counted
                PROVE  /\ d.invoice \in Invoices /\ vouchers'[d.voucher].type # DocumentVoucher
                       /\ \E rev \in Nat : vouchers'[d.voucher].lines = Lines(rev, invoice'[d.invoice].party, d.amount)
    BY <1>8 DEF CountedStated, States
  <2>1. d.invoice \in Invoices /\ d.invoice # i
    <3>1. d \in PaymentsOf(d.invoice) \/ d \in IssuedNotesOf(d.invoice)
      BY DEF Counted, PaymentsOf, IssuedNotesOf, NotesOf
    <3>. QED  BY <1>4, <3>1 DEF CalmInv, CountedStated
  <2>2. d.voucher \in VoucherIds \ {v}
    BY <1>5, CountedFacts DEF IInv, Owned
  <2>. QED  BY <1>6, <1>7, <2>1, <2>2 DEF CalmInv, CountedStated, States
<1>13. NoOrphans'
  <2>. SUFFICES ASSUME NEW w \in VoucherIds, vouchers'[w].status = "ACTIVE"
                PROVE  (\E j \in IssuedInvoices : invoice'[j].voucher = w) \/ \E d \in Counted : d.voucher = w
    BY <1>7, <1>8 DEF NoOrphans
  <2>1. vouchers[w].status = "ACTIVE"
    BY <1>7
  <2>2. \A j \in IssuedInvoices : invoice'[j].voucher = invoice[j].voucher
    BY <1>6 DEF IssuedInvoices
  <2>. QED  BY <2>1, <2>2 DEF CalmInv, NoOrphans
<1>14. VouchersApart'
  BY <1>8 DEF CalmInv, VouchersApart
<1>. QED  BY <1>9, <1>10, <1>11, <1>12, <1>13, <1>14 DEF CalmInv

(* A removal that nobody overtakes takes all of the invoice's documents.      *)
LEMMA RemovedDocuments ==
  ASSUME IInv, CalmInv, NEW r \in Requests, RemoveCommit(r)
  PROVE  /\ payments' = {d \in payments : d.invoice # req[r].inv}
         /\ notes' = {d \in notes : d.invoice # req[r].inv}
<1>1. PICK i : i = req[r].inv
  OBVIOUS
<1>2. PICK deleted : deleted = req[r].deleted
  OBVIOUS
<1>3. payments' = payments \ PaymentsOf(i) /\ notes' = Detached(i, deleted)
  BY <1>1, <1>2 DEF RemoveCommit
<1>4. deleted = VoucherRefs(PaymentsOf(i) \cup NotesOf(i))
  BY <1>1, <1>2 DEF CalmInv, AllSeen, Seen, RemoveCommit
<1>5. \A m \in notes : m.voucher \in deleted <=> m.invoice = i
  <2>. SUFFICES ASSUME NEW m \in notes  PROVE m.voucher \in deleted <=> m.invoice = i
    OBVIOUS
  <2>1. m.invoice = i => m.voucher \in deleted
    BY <1>4 DEF VoucherRefs, NotesOf
  <2>2. ASSUME m.voucher \in deleted  PROVE m.invoice = i
    <3>1. PICK d \in PaymentsOf(i) \cup NotesOf(i) : d.voucher = m.voucher
      BY <1>4, <2>2 DEF VoucherRefs
    <3>2. d \in Applied /\ m \in Applied /\ d.invoice = i
      BY <3>1 DEF Applied, PaymentsOf, NotesOf
    <3>. QED  BY <3>1, <3>2 DEF CalmInv, VouchersApart
  <2>. QED  BY <2>1, <2>2
<1>6. notes' = {d \in notes : d.invoice # i}
  BY <1>3, <1>5 DEF Detached
<1>7. payments' = {d \in payments : d.invoice # i}
  BY <1>3 DEF PaymentsOf
<1>. QED  BY <1>1, <1>6, <1>7

(* A removal unwinds the vouchers of just the documents it deletes.          *)
LEMMA RemoveCommitCalm ==
  ASSUME OneAtATime, IInv, CalmInv, NEW r \in Requests, RemoveCommit(r)
  PROVE  CalmInv'
<1>1. PICK i : i = req[r].inv
  OBVIOUS
<1>. PICK ids : ids = req[r].ids
  OBVIOUS
<1>2. /\ vouchers' = Unwound(ids)
      /\ invoice' = [invoice EXCEPT ![i].status = "GONE"]
      /\ i \in Live /\ req' = [req EXCEPT ![r] = Idle]
  BY <1>1 DEF RemoveCommit, End
<1>3. req'[r] = Idle
  BY <1>2 DEF IInv, TypeOK
<1>4. payments' = {d \in payments : d.invoice # i} /\ notes' = {d \in notes : d.invoice # i}
  BY <1>1, RemovedDocuments
<1>5. ids = VouchersOf(i)
  BY <1>1 DEF CalmInv, AllSeen, Seen, RemoveCommit
<1>6. i \in Invoices /\ i \in Created
  BY <1>2, RowFacts DEF Live, IInv
<1>7. /\ \A j \in Created \ {i} : invoice[j].voucher \notin ids
      /\ \A d \in Applied : d.voucher \in ids => d.invoice = i
  <2>1. \A w \in ids : w = invoice[i].voucher \/ \E d \in Applied : d.voucher = w /\ d.invoice = i
    BY <1>5 DEF VouchersOf, VoucherRefs, PaymentsOf, NotesOf, Applied
  <2>. QED  BY <1>6, <2>1 DEF IInv, Owned
<1>8. invoice'[i].status = "GONE" /\ \A j \in Invoices \ {i} : invoice'[j] = invoice[j]
  <2>1. TypeOK /\ i \in Invoices
    BY <1>2, <1>6 DEF IInv, Live
  <2>2. WritesStatus(i, "GONE")
    BY <1>2, <1>6 DEF WritesStatus
  <2>. QED  BY <2>1, <2>2, StatusWritten
<1>9. /\ VoucherIds' = VoucherIds
      /\ \A w \in VoucherIds \ ids : vouchers'[w] = vouchers[w]
      /\ \A w \in VoucherIds \cap ids : vouchers'[w].status = "GONE"
  <2>1. \A w \in VoucherIds \cap ids : vouchers'[w].status = "GONE"
    <3>. SUFFICES ASSUME NEW w \in VoucherIds \cap ids  PROVE vouchers'[w].status = "GONE"
      OBVIOUS
    <3>1. PICK x : x = vouchers[w]
      OBVIOUS
    <3>2. PICK y : y = [x EXCEPT !.status = "GONE", !.lines = {}]
      OBVIOUS
    <3>3. x \in Voucher
      BY <3>1 DEF IInv, TypeOK, VoucherIds
    <3>4. y.status = "GONE"
      BY <3>2, <3>3 DEF Voucher
    <3>. QED  BY <1>2, <3>1, <3>2, <3>4 DEF Unwound, VoucherIds
  <2>. QED  BY <1>2, <2>1 DEF Unwound, VoucherIds
<1>10. /\ IssuedInvoices' = IssuedInvoices \ {i}
       /\ Counted' = {d \in Counted : d.invoice # i} /\ Applied' = {d \in Applied : d.invoice # i}
  BY <1>4, <1>8 DEF IssuedInvoices, Counted, Applied
<1>11. AllSeen'
  BY <1>3, SeenByNone
<1>12. SettledOnlyWhenIssued'
  <2>1. PaymentsOf(i)' = {} /\ IssuedNotesOf(i)' = {}
    BY <1>4 DEF PaymentsOf, IssuedNotesOf, NotesOf
  <2>2. \A j \in Invoices : PaymentsOf(j)' \subseteq PaymentsOf(j) /\ IssuedNotesOf(j)' \subseteq IssuedNotesOf(j)
    BY <1>4 DEF PaymentsOf, IssuedNotesOf, NotesOf
  <2>. QED  BY <1>10, <2>1, <2>2 DEF CalmInv, SettledOnlyWhenIssued
<1>13. InvoicesStated'
  <2>. SUFFICES ASSUME NEW j \in IssuedInvoices \ {i}
                PROVE  /\ vouchers'[invoice'[j].voucher].type = DocumentVoucher
                       /\ \E rev \in Nat : vouchers'[invoice'[j].voucher].lines = Lines(rev, invoice'[j].party, invoice'[j].total)
    BY <1>10 DEF InvoicesStated, States
  <2>1. invoice'[j] = invoice[j] /\ invoice[j].voucher \in VoucherIds \ ids
    BY <1>7, <1>8, CountedFacts DEF IssuedInvoices
  <2>. QED  BY <1>9, <2>1 DEF CalmInv, InvoicesStated, States
<1>14. CountedStated'
  <2>. SUFFICES ASSUME NEW d \in Counted, d.invoice # i
                PROVE  /\ d.invoice \in Invoices /\ vouchers'[d.voucher].type # DocumentVoucher
                       /\ \E rev \in Nat : vouchers'[d.voucher].lines = Lines(rev, invoice'[d.invoice].party, d.amount)
    BY <1>10 DEF CountedStated, States
  <2>1. d.invoice \in Invoices /\ d.voucher \in VoucherIds \ ids
    BY <1>7, CountedFacts DEF CalmInv, CountedStated
  <2>. QED  BY <1>8, <1>9, <2>1 DEF CalmInv, CountedStated, States
<1>15. NoOrphans'
  <2>. SUFFICES ASSUME NEW w \in VoucherIds, vouchers'[w].status = "ACTIVE"
                PROVE  \/ \E j \in IssuedInvoices \ {i} : invoice'[j].voucher = w
                       \/ \E d \in Counted : d.invoice # i /\ d.voucher = w
    BY <1>9, <1>10 DEF NoOrphans
  <2>1. w \notin ids /\ vouchers[w].status = "ACTIVE"
    BY <1>9
  <2>2. ASSUME NEW j \in IssuedInvoices, invoice[j].voucher = w
        PROVE  j # i /\ invoice'[j].voucher = w
    BY <1>5, <1>8, <2>1, <2>2 DEF VouchersOf, IssuedInvoices
  <2>3. ASSUME NEW d \in Counted, d.voucher = w  PROVE d.invoice # i
    BY <1>5, <2>1, <2>3 DEF VouchersOf, VoucherRefs, Counted, PaymentsOf, NotesOf
  <2>. QED  BY <2>1, <2>2, <2>3 DEF CalmInv, NoOrphans
<1>16. VouchersApart'
  <2>1. \A d, e \in Applied' : d.voucher = e.voucher => d = e
    BY <1>10 DEF CalmInv, VouchersApart
  <2>. QED  BY <2>1 DEF VouchersApart
<1>. QED  BY <1>11, <1>12, <1>13, <1>14, <1>15, <1>16 DEF CalmInv

(* Every step of requests served one at a time leaves the books calm.        *)
LEMMA NextCalm ==
  ASSUME OneAtATime, IInv, CalmInv, [Next]_vars
  PROVE  CalmInv'
<1>1. CASE UNCHANGED <<invoice, payments, notes, vouchers, req>>
  <2>1. UNCHANGED books /\ UNCHANGED req
    BY <1>1 DEF books
  <2>2. CASE Requests = {}
    <3>1. AllSeen'
      BY <2>2 DEF AllSeen
    <3>. QED
      BY <1>1, <3>1 DEF CalmInv, SettledOnlyWhenIssued, InvoicesStated, CountedStated, NoOrphans, VouchersApart,
         IssuedInvoices, Counted, PaymentsOf, IssuedNotesOf, NotesOf, States, Applied, VoucherIds
  <2>3. CASE Requests # {}
    <3>1. PICK r \in Requests : TRUE
      BY <2>3
    <3>2. PICK q : q = req[r]
      OBVIOUS
    <3>3. req' = [req EXCEPT ![r] = q] /\ Seen(q)
      BY <2>1, <3>2 DEF IInv, TypeOK, CalmInv, AllSeen
    <3>. QED  BY <2>1, <3>3, ReadCalm
  <2>. QED  BY <2>2, <2>3
<1>2. ASSUME NEW r \in Requests, NEW i \in Invoices, NEW p \in Parties, NEW a \in Amounts,
             Create(r, i, p, a) \/ EditRead(r, i, p, a)
      PROVE  CalmInv'
  BY <1>2, CreateCalm, ReadsCalm
<1>3. ASSUME NEW r \in Requests, NEW i \in Invoices, NEW a \in Amounts, PayRead(r, i, a) \/ NoteRead(r, i, a)
      PROVE  CalmInv'
  <2>1. invoice[i].status = "ISSUED"
    BY <1>3 DEF PayRead, NoteRead
  <2>2. invoice[i].party \in Parties
    BY <2>1, CountedFacts DEF IssuedInvoices
  <2>. QED  BY <1>3, <2>2, ReadsCalm
<1>4. ASSUME NEW r \in Requests, NEW i \in Invoices, CancelRead(r, i) \/ RemoveRead(r, i)
      PROVE  CalmInv'
  <2>1. i \in Live
    BY <1>4 DEF CancelRead, RemoveRead, Unsettled, Live
  <2>2. invoice[i].party \in Parties /\ invoice[i].total \in Amounts
    BY <2>1, RowFacts DEF IInv, Row
  <2>. QED  BY <1>4, <2>2, ReadsCalm
<1>5. ASSUME NEW r \in Requests, PayCommit(r) \/ NoteCommit(r) \/ CancelCommit(r) \/ EditCommit(r) \/ RemoveCommit(r)
      PROVE  CalmInv'
  BY <1>5, PayCalm, NoteCalm, CancelCommitCalm, EditCommitCalm, RemoveCommitCalm
<1>6. ASSUME NEW r \in Requests, EditDelete(r) \/ RemoveDelete(r) \/ Abandon(r)
      PROVE  CalmInv'
  BY <1>6, DeletesCalm, AbandonCalm
<1>7. ASSUME NEW r \in Requests, NEW n \in notes, NoteCancel(r, n)
      PROVE  CalmInv'
  BY <1>7, NoteCancelCalm
<1>8. ASSUME NEW r \in Requests, NEW v \in DOMAIN vouchers, VoucherCancel(r, v)
      PROVE  CalmInv'
  BY <1>8, VoucherCancelCalm DEF VoucherIds
<1>. QED
  BY <1>1, <1>2, <1>3, <1>4, <1>5, <1>6, <1>7, <1>8 DEF Next, vars

-----------------------------------------------------------------------------
(* Steps that change neither total nor status of an invoice, nor a document
   that counts, change no account. *)
LEMMA AccountStutters ==
  ASSUME \A i \in Invoices : /\ invoice'[i].total = invoice[i].total /\ invoice'[i].status = invoice[i].status
                             /\ Paid(i)' = Paid(i) /\ Noted(i)' = Noted(i)
  PROVE  UNCHANGED Account!vars
BY DEF Account!vars

(* Each commit is one operation on an account: a payment, ...                *)
LEMMA AccountPays ==
  ASSUME IInv, Countable, NEW r \in Requests, PayCommit(r)
  PROVE  \E i \in Invoices, a \in Amounts : Account!RecordPayment(i, a)
<1>1. PICK d : /\ payments' = payments \cup {d}
               /\ d.invoice = req[r].inv /\ d.amount = req[r].amount
               /\ d.invoice \in Invoices /\ d.amount \in Amounts
               /\ Paid(d.invoice)' = Paid(d.invoice) + d.amount
               /\ \A j : j # d.invoice => Paid(j)' = Paid(j)
  BY PaymentAdds
<1>2. PICK i \in Invoices : i = d.invoice
  BY <1>1
<1>3. PICK a \in Amounts : a = d.amount
  BY <1>1
<1>4. /\ invoice[i].status = "ISSUED" /\ a <= Outstanding(i) /\ UNCHANGED invoice /\ UNCHANGED notes
  BY <1>1, <1>2, <1>3 DEF PayCommit
<1>5. \A j : Noted(j)' = Noted(j)
  BY <1>4 DEF Noted, IssuedNotesOf, NotesOf
<1>6. Account!RecordPayment(i, a)
  BY <1>1, <1>2, <1>3, <1>4, <1>5 DEF Account!RecordPayment, Account!Outstanding, Outstanding
<1>. QED  BY <1>6

(* The accounts of the empty books are empty.                                *)
LEMMA InitAccount == Init => Account!Init
<1>1. ASSUME Init  PROVE \A i : Paid(i) = 0 /\ Noted(i) = 0
  <2>1. \A i : PaymentsOf(i) = {} /\ IssuedNotesOf(i) = {}
    BY <1>1 DEF Init, PaymentsOf, IssuedNotesOf, NotesOf
  <2>. QED  BY <2>1, AmountOfNone DEF Paid, Noted
<1>. QED  BY <1>1 DEF Init, Account!Init, NoInvoice

(* ... a creation, ...                                                       *)
LEMMA AccountCreates ==
  ASSUME IInv, NEW r \in Requests, NEW i \in Invoices, NEW p \in Parties, NEW t \in Amounts, Create(r, i, p, t)
  PROVE  Account!Create(i, t)
<1>1. PICK row : row = [status |-> "ISSUED", party |-> p, total |-> t, voucher |-> NewVoucher]
  OBVIOUS
<1>2. /\ invoice' = [invoice EXCEPT ![i] = row] /\ invoice[i].status = "NONE"
      /\ UNCHANGED payments /\ UNCHANGED notes
  BY <1>1 DEF Create
<1>3. row.status = "ISSUED" /\ row.total = t
  BY <1>1
<1>4. invoice'[i] = row /\ \A j \in Invoices \ {i} : invoice'[j] = invoice[j]
  BY <1>2 DEF IInv, TypeOK
<1>5. \A j : Paid(j)' = Paid(j) /\ Noted(j)' = Noted(j)
  BY <1>2 DEF Paid, Noted, PaymentsOf, IssuedNotesOf, NotesOf
<1>6. \A j \in Invoices : /\ invoice'[j].status = IF j = i THEN "ISSUED" ELSE invoice[j].status
                          /\ invoice'[j].total = IF j = i THEN t ELSE invoice[j].total
  BY <1>3, <1>4
<1>7. [j \in Invoices |-> invoice'[j].status] = [[j \in Invoices |-> invoice[j].status] EXCEPT ![i] = "ISSUED"]
  BY <1>6
<1>8. [j \in Invoices |-> invoice'[j].total] = [[j \in Invoices |-> invoice[j].total] EXCEPT ![i] = t]
  BY <1>6
<1>. QED  BY <1>2, <1>5, <1>7, <1>8 DEF Account!Create

(* ... a note issued or cancelled, ...                                       *)
LEMMA AccountNotes ==
  ASSUME IInv, CalmInv, Countable, NEW r \in Requests, NoteCommit(r)
  PROVE  \E i \in Invoices, a \in Amounts : Account!IssueNote(i, a)
<1>1. PICK i \in Invoices : i = req[r].inv
  BY DEF NoteCommit, IInv, TypeOK, Reading, Idle
<1>2. PICK a \in Amounts : a = req[r].amount
  BY DEF NoteCommit, IInv, TypeOK, Reading, Idle
<1>3. invoice[i].status = "ISSUED" /\ a <= invoice[i].total - Noted(i)
  BY <1>1, <1>2 DEF CalmInv, AllSeen, Seen, NoteCommit
<1>4. PICK d : d = [voucher |-> NewVoucher, invoice |-> i, amount |-> a, status |-> "ISSUED"]
  OBVIOUS
<1>5. d.voucher = NewVoucher /\ d.invoice = i /\ d.amount = a /\ d.status = "ISSUED"
  BY <1>4
<1>6. notes' = notes \cup {d} /\ UNCHANGED payments /\ UNCHANGED invoice
  BY <1>1, <1>2, <1>4 DEF NoteCommit
<1>7. d \notin notes
  <2>1. Len(vouchers) \in Nat /\ VoucherIds = 1..Len(vouchers)
    BY DEF IInv, TypeOK, VoucherIds
  <2>2. NewVoucher \notin VoucherIds
    BY <2>1 DEF NewVoucher
  <2>. QED  BY <1>5, <2>2, RowFacts DEF IInv, Applied
<1>8. IssuedNotesOf(i)' = IssuedNotesOf(i) \cup {d} /\ d \notin IssuedNotesOf(i)
  BY <1>5, <1>6, <1>7 DEF IssuedNotesOf, NotesOf
<1>9. Noted(i)' = Noted(i) + a
  <2>1. Priced(IssuedNotesOf(i))
    <3>1. IssuedNotesOf(i) \subseteq notes
      BY DEF IssuedNotesOf, NotesOf
    <3>. QED  BY <3>1, DocumentsPriced DEF IInv
  <2>2. d.amount \in Nat
    BY <1>5, BoundsAssumption DEF Amounts
  <2>. QED  BY <1>5, <1>8, <2>1, <2>2, AmountFacts DEF Noted
<1>10. \A j : Paid(j)' = Paid(j) /\ (j # i => Noted(j)' = Noted(j))
  <2>1. \A j : j # i => IssuedNotesOf(j)' = IssuedNotesOf(j)
    BY <1>5, <1>6 DEF IssuedNotesOf, NotesOf
  <2>. QED  BY <1>6, <2>1 DEF Paid, Noted, PaymentsOf
<1>11. Account!IssueNote(i, a)
  BY <1>3, <1>6, <1>9, <1>10 DEF Account!IssueNote
<1>. QED  BY <1>11

(* A note that was detached is of no invoice, and cancelling it of no account. *)
LEMMA AccountCancelsNote ==
  ASSUME IInv, CalmInv, Countable, NEW r \in Requests, NEW n \in notes, NoteCancel(r, n)
  PROVE  \E i \in Invoices, a \in Amounts : Account!CancelNote(i, a)
<1>1. PICK m : m = [n EXCEPT !.status = "CANCELLED"]
  OBVIOUS
<1>2. n \in [voucher : VoucherIds, invoice : Invoices \cup {None}, amount : Amounts, status : {"ISSUED", "CANCELLED"}]
  BY DEF IInv, TypeOK
<1>3. m.status = "CANCELLED" /\ n.amount \in Amounts /\ n.status = "ISSUED"
  BY <1>1, <1>2 DEF NoteCancel
<1>4. notes' = (notes \ {n}) \cup {m} /\ UNCHANGED payments /\ UNCHANGED invoice
  BY <1>1 DEF NoteCancel
<1>5. n \in Counted
  BY <1>3 DEF Counted
<1>6. PICK i \in IssuedInvoices : i = n.invoice
  BY <1>5, CountedOf DEF CalmInv
<1>7. PICK a \in Amounts : a = n.amount
  BY <1>3
<1>8. IssuedNotesOf(i)' = IssuedNotesOf(i) \ {n} /\ n \in IssuedNotesOf(i)
  BY <1>3, <1>4, <1>6 DEF IssuedNotesOf, NotesOf
<1>9. Noted(i)' = Noted(i) - a /\ a <= Noted(i)
  <2>1. Priced(IssuedNotesOf(i))
    <3>1. IssuedNotesOf(i) \subseteq notes
      BY DEF IssuedNotesOf, NotesOf
    <3>. QED  BY <3>1, DocumentsPriced DEF IInv
  <2>. QED  BY <1>7, <1>8, <2>1, AmountFacts DEF Noted
<1>10. \A j : Paid(j)' = Paid(j) /\ (j # i => Noted(j)' = Noted(j))
  <2>1. \A j : j # i => IssuedNotesOf(j)' = IssuedNotesOf(j)
    BY <1>3, <1>4, <1>6 DEF IssuedNotesOf, NotesOf
  <2>. QED  BY <1>4, <2>1 DEF Paid, Noted, PaymentsOf
<1>11. Account!CancelNote(i, a) /\ i \in Invoices
  BY <1>4, <1>6, <1>9, <1>10 DEF Account!CancelNote, IssuedInvoices
<1>. QED  BY <1>11

(* What is unsettled has nothing paid and nothing returned.                  *)
LEMMA UnsettledAccount ==
  ASSUME NEW i \in Invoices, Unsettled(i)
  PROVE  Account!Unsettled(i)
<1>1. Paid(i) = 0 /\ Noted(i) = 0
  BY AmountOfNone DEF Unsettled, Paid, Noted
<1>. QED  BY <1>1 DEF Account!Unsettled, Unsettled

(* ... a cancellation, ...                                                   *)
LEMMA AccountCancels ==
  ASSUME IInv, CalmInv, NEW r \in Requests, CancelCommit(r)
  PROVE  \E i \in Invoices : Account!Cancel(i)
<1>1. PICK i \in Invoices : i = req[r].inv
  BY DEF CancelCommit, Live
<1>2. Account!Unsettled(i)
  <2>1. Unsettled(i)
    BY <1>1 DEF CalmInv, AllSeen, Seen, CancelCommit
  <2>. QED  BY <2>1, UnsettledAccount
<1>3. invoice' = [invoice EXCEPT ![i].status = "CANCELLED"] /\ UNCHANGED payments /\ UNCHANGED notes
  BY <1>1 DEF CancelCommit
<1>4. \A j \in Invoices : /\ invoice'[j].total = invoice[j].total
                          /\ j = i => invoice'[j].status = "CANCELLED"
                          /\ j # i => invoice'[j].status = invoice[j].status
  <2>1. TypeOK /\ i \in Invoices
    BY <1>3 DEF IInv, Live
  <2>2. WritesStatus(i, "CANCELLED")
    BY <1>3 DEF WritesStatus
  <2>. QED  BY <2>1, <2>2, StatusWritten
<1>5. \A j : Paid(j)' = Paid(j) /\ Noted(j)' = Noted(j)
  BY <1>3 DEF Paid, Noted, PaymentsOf, IssuedNotesOf, NotesOf
<1>6. Account!Cancel(i)
  BY <1>2, <1>4, <1>5 DEF Account!Cancel
<1>. QED  BY <1>6

(* ... an edit, ...                                                          *)
LEMMA AccountEdits ==
  ASSUME IInv, CalmInv, NEW r \in Requests, EditCommit(r)
  PROVE  \E i \in Invoices, t \in Amounts : Account!Edit(i, t)
<1>1. PICK i \in Invoices : i = req[r].inv
  BY DEF EditCommit, Live
<1>2. PICK t \in Amounts : t = req[r].amount
  BY DEF EditCommit, IInv, TypeOK, Reading, Idle
<1>3. Account!Unsettled(i)
  <2>1. Unsettled(i)
    BY <1>1 DEF CalmInv, AllSeen, Seen, EditCommit
  <2>. QED  BY <2>1, UnsettledAccount
<1>4. PICK p : p = req[r].party
  OBVIOUS
<1>5. invoice' = [invoice EXCEPT ![i].party = p, ![i].total = t] /\ UNCHANGED payments /\ UNCHANGED notes
  BY <1>1, <1>2, <1>4 DEF EditCommit
<1>6. \A j \in Invoices : /\ invoice'[j].status = invoice[j].status
                          /\ j = i => invoice'[j].total = t
                          /\ j # i => invoice'[j].total = invoice[j].total
  <2>1. TypeOK /\ i \in Invoices
    BY <1>5 DEF IInv, Live
  <2>2. Restates(i, p, t)
    BY <1>5 DEF Restates
  <2>3. /\ \A j \in Invoices : invoice'[j].voucher = invoice[j].voucher /\ invoice'[j].status = invoice[j].status
        /\ invoice'[i].party = p /\ invoice'[i].total = t
        /\ \A j \in Invoices \ {i} : invoice'[j] = invoice[j]
    BY <2>1, <2>2, RowRestated
  <2>. QED  BY <2>1, <2>3, <1>5
<1>7. \A j : Paid(j)' = Paid(j) /\ Noted(j)' = Noted(j)
  BY <1>5 DEF Paid, Noted, PaymentsOf, IssuedNotesOf, NotesOf
<1>8. Account!Edit(i, t)
  BY <1>3, <1>6, <1>7 DEF Account!Edit
<1>. QED  BY <1>8

(* ... and a removal, which empties the account.                             *)
LEMMA AccountRemoves ==
  ASSUME IInv, CalmInv, NEW r \in Requests, RemoveCommit(r)
  PROVE  \E i \in Invoices : Account!Remove(i)
<1>1. PICK i \in Invoices : i = req[r].inv
  BY DEF RemoveCommit, Live
<1>2. invoice[i].status \in {"ISSUED", "CANCELLED"} /\ invoice' = [invoice EXCEPT ![i].status = "GONE"]
  BY <1>1 DEF RemoveCommit, Live
<1>3. payments' = {d \in payments : d.invoice # i} /\ notes' = {d \in notes : d.invoice # i}
  BY <1>1, RemovedDocuments
<1>4. \A j \in Invoices : /\ invoice'[j].total = invoice[j].total
                          /\ j = i => invoice'[j].status = "GONE"
                          /\ j # i => invoice'[j].status = invoice[j].status
  <2>1. TypeOK /\ i \in Invoices
    BY <1>2 DEF IInv, Live
  <2>2. WritesStatus(i, "GONE")
    BY <1>2 DEF WritesStatus
  <2>. QED  BY <2>1, <2>2, StatusWritten
<1>5. /\ PaymentsOf(i)' = {} /\ IssuedNotesOf(i)' = {}
      /\ \A j : j # i => PaymentsOf(j)' = PaymentsOf(j) /\ IssuedNotesOf(j)' = IssuedNotesOf(j)
  BY <1>3 DEF PaymentsOf, IssuedNotesOf, NotesOf
<1>6. /\ Paid(i)' = 0 /\ Noted(i)' = 0
      /\ \A j : j # i => Paid(j)' = Paid(j) /\ Noted(j)' = Noted(j)
  BY <1>5, AmountOfNone DEF Paid, Noted
<1>7. Account!Remove(i)
  BY <1>2, <1>4, <1>6 DEF Account!Remove
<1>. QED  BY <1>7

(* Every step of the service is a step of the accounts, or a stutter.        *)
LEMMA AccountStep ==
  ASSUME IInv, CalmInv, Countable, [Next]_vars
  PROVE  [Account!Next]_(Account!vars)
<1>1. ASSUME UNCHANGED <<invoice, payments, notes>>
      PROVE  UNCHANGED Account!vars
  <2>1. \A j : Paid(j)' = Paid(j) /\ Noted(j)' = Noted(j)
    BY <1>1 DEF Paid, Noted, PaymentsOf, IssuedNotesOf, NotesOf
  <2>. QED  BY <1>1, <2>1, AccountStutters
<1>2. ASSUME NEW r \in Requests, NEW i \in Invoices, NEW p \in Parties, NEW a \in Amounts, Create(r, i, p, a)
      PROVE  Account!Next
  BY <1>2, AccountCreates DEF Account!Next, Amounts, Account!Amounts
<1>3. ASSUME NEW r \in Requests, PayCommit(r)
      PROVE  Account!Next
  BY <1>3, AccountPays DEF Account!Next, Amounts, Account!Amounts
<1>4. ASSUME NEW r \in Requests, NoteCommit(r)
      PROVE  Account!Next
  BY <1>4, AccountNotes DEF Account!Next, Amounts, Account!Amounts
<1>5. ASSUME NEW r \in Requests, NEW n \in notes, NoteCancel(r, n)
      PROVE  Account!Next
  BY <1>5, AccountCancelsNote DEF Account!Next, Amounts, Account!Amounts
<1>6. ASSUME NEW r \in Requests, EditCommit(r)
      PROVE  Account!Next
  BY <1>6, AccountEdits DEF Account!Next, Amounts, Account!Amounts
<1>7. ASSUME NEW r \in Requests, CancelCommit(r)
      PROVE  Account!Next
  BY <1>7, AccountCancels DEF Account!Next
<1>8. ASSUME NEW r \in Requests, RemoveCommit(r)
      PROVE  Account!Next
  BY <1>8, AccountRemoves DEF Account!Next
<1>9. \A r \in Requests, i \in Invoices, p \in Parties, a \in Amounts :
        EditRead(r, i, p, a) => UNCHANGED <<invoice, payments, notes>>
  BY DEF EditRead, Begin, books
<1>10. \A r \in Requests, i \in Invoices, a \in Amounts :
         PayRead(r, i, a) \/ NoteRead(r, i, a) => UNCHANGED <<invoice, payments, notes>>
  BY DEF PayRead, NoteRead, Begin, books
<1>11. \A r \in Requests, i \in Invoices :
         CancelRead(r, i) \/ RemoveRead(r, i) => UNCHANGED <<invoice, payments, notes>>
  BY DEF CancelRead, RemoveRead, Begin, books
<1>12. \A r \in Requests : EditDelete(r) \/ RemoveDelete(r) \/ Abandon(r) => UNCHANGED <<invoice, payments, notes>>
  BY DEF EditDelete, RemoveDelete, Abandon, books
<1>13. \A r \in Requests, v \in DOMAIN vouchers : VoucherCancel(r, v) => UNCHANGED <<invoice, payments, notes>>
  BY DEF VoucherCancel
<1>14. UNCHANGED vars => UNCHANGED <<invoice, payments, notes>>
  BY DEF vars
<1>15. Account!Next \/ UNCHANGED <<invoice, payments, notes>>
  BY <1>2, <1>3, <1>4, <1>5, <1>6, <1>7, <1>8, <1>9, <1>10, <1>11, <1>12, <1>13, <1>14 DEF Next
<1>. QED  BY <1>1, <1>15

(* Requests served one at a time settle each invoice as module Settlement
   specifies: every handler is one of its operations, or changes no account. *)
THEOREM OneAtATimeSettles == ASSUME OneAtATime PROVE Spec => Settles
<1>1. Init => IInv /\ CalmInv /\ Countable
  BY InitIInv, InitCalm, FS_EmptySet DEF Init, Countable
<1>2. IInv /\ CalmInv /\ Countable /\ [Next]_vars => IInv' /\ CalmInv' /\ Countable'
  BY NextIInv, NextCalm, CountableInductive
<1>3. IInv /\ CalmInv /\ Countable /\ [Next]_vars => [Account!Next]_(Account!vars)
  BY AccountStep
<1>. QED  BY <1>1, <1>2, <1>3, InitAccount, PTL DEF Spec, Settles, Account!Spec

-----------------------------------------------------------------------------
(* What counts has its voucher in the books.                                 *)
InBooks ==
  /\ \A i \in IssuedInvoices : vouchers[invoice[i].voucher].status = "ACTIVE"
  /\ \A d \in Counted : vouchers[d.voucher].status = "ACTIVE"

(* One voucher leaves the books, and nothing that counts stands on it.        *)
LEMMA OneLeaves ==
  ASSUME IInv, InBooks, NEW v \in VoucherIds, vouchers' = [vouchers EXCEPT ![v].status = "CANCELLED"],
         \A i \in IssuedInvoices' : /\ i \in IssuedInvoices /\ invoice'[i].voucher = invoice[i].voucher
                                    /\ invoice[i].voucher # v,
         \A d \in Counted' : d \in Counted /\ d.voucher # v
  PROVE  InBooks'
<1>1. \A w \in VoucherIds \ {v} : vouchers'[w] = vouchers[w]
  BY DEF VoucherIds
<1>. QED  BY <1>1, CountedFacts DEF InBooks

(* A voucher is posted, and one that counts stands on it.                    *)
LEMMA OnePosted ==
  ASSUME IInv, InBooks, NEW type, NEW p, NEW a, Post(type, p, a),
         \A i \in IssuedInvoices' : \/ invoice'[i].voucher = NewVoucher
                                    \/ i \in IssuedInvoices /\ invoice'[i].voucher = invoice[i].voucher,
         \A d \in Counted' : d \in Counted \/ d.voucher = NewVoucher
  PROVE  InBooks'
<1>1. /\ \A v \in VoucherIds : vouchers'[v] = vouchers[v]
      /\ vouchers'[NewVoucher].status = "ACTIVE"
  BY Posted
<1>. QED  BY <1>1, CountedFacts DEF InBooks

(* Handler by handler: what counts after a commit has an active voucher.     *)
LEMMA CreateInBooks ==
  ASSUME IInv, VouchersApart, InBooks, NEW r \in Requests, NEW i \in Invoices, NEW p \in Parties,
         NEW t \in Amounts, Create(r, i, p, t)
  PROVE  VouchersApart' /\ InBooks'
<1>1. PICK row : row = [status |-> "ISSUED", party |-> p, total |-> t, voucher |-> NewVoucher]
  OBVIOUS
<1>2. /\ invoice' = [invoice EXCEPT ![i] = row] /\ row.voucher = NewVoucher
      /\ UNCHANGED payments /\ UNCHANGED notes /\ Post(DocumentVoucher, p, t)
  BY <1>1 DEF Create
<1>3. \A j \in Invoices : invoice'[j] = IF j = i THEN row ELSE invoice[j]
  BY <1>2 DEF IInv, TypeOK
<1>4. UNCHANGED Counted /\ UNCHANGED Applied
  BY <1>2 DEF Counted, Applied
<1>5. InBooks'
  <2>1. \A j \in IssuedInvoices' : \/ invoice'[j].voucher = NewVoucher
                                   \/ j \in IssuedInvoices /\ invoice'[j].voucher = invoice[j].voucher
    BY <1>2, <1>3 DEF IssuedInvoices
  <2>. QED  BY <1>2, <1>4, <2>1, OnePosted
<1>. QED  BY <1>4, <1>5 DEF VouchersApart

(* A document that counts from now on, with the voucher just posted.         *)
LEMMA DocumentInBooks ==
  ASSUME IInv, VouchersApart, InBooks, NEW type, NEW p, NEW a, Post(type, p, a), UNCHANGED invoice,
         NEW d, d.voucher = NewVoucher, Applied' = Applied \cup {d}, Counted' = Counted \cup {d}
  PROVE  VouchersApart' /\ InBooks'
<1>1. VouchersApart'
  <2>1. NewVoucher \notin VoucherIds
    BY Posted
  <2>. QED  BY <2>1, RowFacts DEF VouchersApart, IInv
<1>2. UNCHANGED IssuedInvoices
  BY DEF IssuedInvoices
<1>. QED  BY <1>1, <1>2, OnePosted

(* A payment or a note committed is such a document.                         *)
LEMMA CommitsInBooks ==
  ASSUME IInv, VouchersApart, InBooks, NEW r \in Requests, PayCommit(r) \/ NoteCommit(r)
  PROVE  VouchersApart' /\ InBooks'
<1>1. CASE PayCommit(r)
  <2>1. PICK d : d = [voucher |-> NewVoucher, invoice |-> req[r].inv, amount |-> req[r].amount]
    OBVIOUS
  <2>2. /\ payments' = payments \cup {d} /\ UNCHANGED notes /\ UNCHANGED invoice /\ d.voucher = NewVoucher
        /\ Post(PaymentVoucher, req[r].party, req[r].amount)
    BY <1>1, <2>1 DEF PayCommit
  <2>3. Applied' = Applied \cup {d} /\ Counted' = Counted \cup {d}
    BY <2>2 DEF Applied, Counted
  <2>. QED  BY <2>2, <2>3, DocumentInBooks
<1>2. CASE NoteCommit(r)
  <2>1. PICK d : d = [voucher |-> NewVoucher, invoice |-> req[r].inv, amount |-> req[r].amount, status |-> "ISSUED"]
    OBVIOUS
  <2>2. /\ notes' = notes \cup {d} /\ UNCHANGED payments /\ UNCHANGED invoice /\ d.voucher = NewVoucher
        /\ d.status = "ISSUED" /\ Post(NoteVoucher, req[r].party, req[r].amount)
    BY <1>2, <2>1 DEF NoteCommit
  <2>3. Applied' = Applied \cup {d} /\ Counted' = Counted \cup {d}
    BY <2>2 DEF Applied, Counted
  <2>. QED  BY <2>2, <2>3, DocumentInBooks
<1>. QED  BY <1>1, <1>2

(* A note whose voucher leaves the books counts no longer, ...               *)
LEMMA NoteCancelInBooks ==
  ASSUME IInv, VouchersApart, InBooks, NEW r \in Requests, NEW n \in notes, NoteCancel(r, n)
  PROVE  VouchersApart' /\ InBooks'
<1>1. PICK m : m = [n EXCEPT !.status = "CANCELLED"]
  OBVIOUS
<1>2. n \in [voucher : VoucherIds, invoice : Invoices \cup {None}, amount : Amounts, status : {"ISSUED", "CANCELLED"}]
  BY DEF IInv, TypeOK
<1>3. m.status = "CANCELLED" /\ m.voucher = n.voucher /\ n.voucher \in VoucherIds
  BY <1>1, <1>2
<1>4. /\ notes' = (notes \ {n}) \cup {m} /\ UNCHANGED payments /\ UNCHANGED invoice
      /\ vouchers' = [vouchers EXCEPT ![n.voucher].status = "CANCELLED"]
  BY <1>1 DEF NoteCancel
<1>5. n \notin payments
  BY NoteOrPayment DEF IInv
<1>6. Applied' = (Applied \ {n}) \cup {m} /\ n \in Applied
  BY <1>4, <1>5 DEF Applied
<1>7. VouchersApart'
  <2>1. \A d, e \in Applied' : d.voucher = e.voucher => d = e
    BY <1>3, <1>6 DEF VouchersApart
  <2>. QED  BY <2>1 DEF VouchersApart
<1>8. \A d \in Counted' : d \in Counted /\ d.voucher # n.voucher
  <2>1. \A d \in Counted' : d \in Counted /\ d # n
    BY <1>3, <1>4, <1>5 DEF Counted
  <2>. QED  BY <1>6, <2>1, CountedFacts DEF VouchersApart
<1>9. \A i \in IssuedInvoices' : /\ i \in IssuedInvoices /\ invoice'[i].voucher = invoice[i].voucher
                                 /\ invoice[i].voucher # n.voucher
  BY <1>4, <1>6, CountedFacts DEF IssuedInvoices, IInv, Owned
<1>. QED  BY <1>3, <1>4, <1>7, <1>8, <1>9, OneLeaves

(* ... nor does an invoice.                                                  *)
LEMMA CancelCommitInBooks ==
  ASSUME IInv, VouchersApart, InBooks, NEW r \in Requests, CancelCommit(r)
  PROVE  VouchersApart' /\ InBooks'
<1>1. PICK i : i = req[r].inv
  OBVIOUS
<1>2. /\ vouchers' = [vouchers EXCEPT ![invoice[i].voucher].status = "CANCELLED"]
      /\ invoice' = [invoice EXCEPT ![i].status = "CANCELLED"]
      /\ i \in Live /\ UNCHANGED payments /\ UNCHANGED notes
  BY <1>1 DEF CancelCommit
<1>3. i \in Created /\ i \in Invoices /\ invoice[i].voucher \in VoucherIds
  BY <1>2, RowFacts, CountedFacts DEF Live, IInv
<1>4. \A j \in Invoices : /\ invoice'[j].voucher = invoice[j].voucher
                          /\ j = i => invoice'[j].status = "CANCELLED"
                          /\ j # i => invoice'[j].status = invoice[j].status
  <2>1. TypeOK /\ i \in Invoices
    BY <1>2, <1>3 DEF IInv, Live
  <2>2. WritesStatus(i, "CANCELLED")
    BY <1>2, <1>3 DEF WritesStatus
  <2>. QED  BY <2>1, <2>2, StatusWritten
<1>5. UNCHANGED Counted /\ UNCHANGED Applied
  BY <1>2 DEF Counted, Applied
<1>6. \A j \in IssuedInvoices' : /\ j \in IssuedInvoices /\ invoice'[j].voucher = invoice[j].voucher
                                 /\ invoice[j].voucher # invoice[i].voucher
  <2>1. \A j \in IssuedInvoices' : j \in IssuedInvoices /\ j # i /\ invoice'[j].voucher = invoice[j].voucher
    BY <1>4 DEF IssuedInvoices
  <2>. QED  BY <1>3, <2>1, CountedFacts DEF IInv, Owned
<1>7. \A d \in Counted' : d \in Counted /\ d.voucher # invoice[i].voucher
  BY <1>3, <1>5, CountedFacts DEF IInv, Owned
<1>8. InBooks'
  BY <1>2, <1>3, <1>6, <1>7, OneLeaves
<1>. QED  BY <1>5, <1>8 DEF VouchersApart

(* An edit writes no voucher's status.                                       *)
LEMMA EditCommitInBooks ==
  ASSUME IInv, VouchersApart, InBooks, NEW r \in Requests, EditCommit(r)
  PROVE  VouchersApart' /\ InBooks'
<1>1. PICK i : i = req[r].inv
  OBVIOUS
<1>. PICK v : v = invoice[i].voucher
  OBVIOUS
<1>. PICK p : p = req[r].party
  OBVIOUS
<1>. PICK a : a = req[r].amount
  OBVIOUS
<1>. PICK stale : stale = req[r].stale
  OBVIOUS
<1>2. /\ vouchers' = Restated(v, stale, p, a)
      /\ invoice' = [invoice EXCEPT ![i].party = p, ![i].total = a]
      /\ i \in Live /\ UNCHANGED payments /\ UNCHANGED notes
  BY <1>1 DEF EditCommit
<1>3. i \in Invoices /\ v \in VoucherIds
  BY <1>2, CountedFacts DEF Live
<1>4. \A j \in Invoices : invoice'[j].voucher = invoice[j].voucher /\ invoice'[j].status = invoice[j].status
  <2>1. TypeOK /\ i \in Invoices
    BY <1>2, <1>3 DEF IInv, Live
  <2>2. Restates(i, p, a)
    BY <1>2, <1>3 DEF Restates
  <2>3. /\ \A j \in Invoices : invoice'[j].voucher = invoice[j].voucher /\ invoice'[j].status = invoice[j].status
        /\ invoice'[i].party = p /\ invoice'[i].total = a
        /\ \A j \in Invoices \ {i} : invoice'[j] = invoice[j]
    BY <2>1, <2>2, RowRestated
  <2>. QED  BY <2>1, <2>3, <1>2, <1>3
<1>5. \A w \in VoucherIds : vouchers'[w].status = vouchers[w].status
  <2>1. PICK x : x = vouchers[v]
    OBVIOUS
  <2>2. PICK y : y = [x EXCEPT !.rev = @ + 1, !.lines = (@ \ stale) \cup Lines(x.rev + 1, p, a)]
    OBVIOUS
  <2>3. x \in Voucher
    BY <1>3, <2>1 DEF IInv, TypeOK, VoucherIds
  <2>4. y.status = x.status
    BY <2>2, <2>3 DEF Voucher
  <2>5. \A w \in DOMAIN vouchers : vouchers'[w] = IF w = v THEN y ELSE vouchers[w]
    BY <1>2, <1>3, <2>1, <2>2 DEF VoucherIds, Restated
  <2>. QED  BY <2>1, <2>4, <2>5 DEF VoucherIds
<1>6. UNCHANGED IssuedInvoices /\ UNCHANGED Counted /\ UNCHANGED Applied
  BY <1>2, <1>4 DEF IssuedInvoices, Counted, Applied
<1>7. /\ \A j \in IssuedInvoices : vouchers'[invoice'[j].voucher].status = "ACTIVE"
      /\ \A d \in Counted : vouchers'[d.voucher].status = "ACTIVE"
  BY <1>4, <1>5, CountedFacts DEF InBooks, IssuedInvoices
<1>. QED  BY <1>6, <1>7 DEF VouchersApart, InBooks

(* What a removal unwinds, whatever was recorded since it listed it.         *)
LEMMA RemoveCommitInBooks ==
  ASSUME IInv, VouchersApart, InBooks, NEW r \in Requests, RemoveCommit(r)
  PROVE  VouchersApart' /\ InBooks'
<1>1. PICK i : i = req[r].inv
  OBVIOUS
<1>. PICK ids : ids = req[r].ids
  OBVIOUS
<1>. PICK deleted : deleted = req[r].deleted
  OBVIOUS
<1>2. /\ vouchers' = Unwound(ids) /\ payments' = payments \ PaymentsOf(i) /\ notes' = Detached(i, deleted)
      /\ invoice' = [invoice EXCEPT ![i].status = "GONE"] /\ i \in Live
  BY <1>1 DEF RemoveCommit
<1>3. /\ \A j \in Created : invoice[j].voucher \in ids => j = i
      /\ \A d \in Applied : d.voucher \in ids => d.invoice = i /\ d.voucher \in deleted
  BY <1>1, <1>2 DEF IInv, Planned, ListedOK, RemoveCommit
<1>4. invoice'[i].status = "GONE" /\ \A j \in Invoices \ {i} : invoice'[j] = invoice[j]
  <2>1. TypeOK /\ i \in Invoices
    BY <1>2 DEF IInv, Live
  <2>2. WritesStatus(i, "GONE")
    BY <1>2 DEF WritesStatus
  <2>. QED  BY <2>1, <2>2, StatusWritten
<1>5. \A w \in VoucherIds \ ids : vouchers'[w] = vouchers[w]
  BY <1>2 DEF Unwound, VoucherIds
<1>6. ASSUME NEW m \in notes'
      PROVE  \E n \in notes : /\ m.voucher = n.voucher /\ m.status = n.status
                              /\ n.voucher \notin deleted
                              /\ m = IF n.invoice = i THEN [n EXCEPT !.invoice = None] ELSE n
  <2>1. PICK n \in notes : /\ n.voucher \notin deleted
                           /\ m = IF n.invoice = i THEN [n EXCEPT !.invoice = None] ELSE n
    BY <1>2 DEF Detached
  <2>2. n \in [voucher : VoucherIds, invoice : Invoices \cup {None}, amount : Amounts, status : {"ISSUED", "CANCELLED"}]
    BY DEF IInv, TypeOK
  <2>. QED  BY <2>1, <2>2
<1>7. \A d \in Applied' : \E e \in Applied : /\ d.voucher = e.voucher /\ d \in Counted' => e \in Counted
                                      /\ d.voucher = e.voucher
                                      /\ e.voucher \notin ids
                                      /\ d = IF e.invoice = i THEN [e EXCEPT !.invoice = None] ELSE e
  <2>. SUFFICES ASSUME NEW d \in Applied'
                PROVE  \E e \in Applied : /\ d.voucher = e.voucher /\ d \in Counted' => e \in Counted
                                       /\ d.voucher = e.voucher
                                       /\ e.voucher \notin ids
                                       /\ d = IF e.invoice = i THEN [e EXCEPT !.invoice = None] ELSE e
    OBVIOUS
  <2>1. CASE d \in payments'
    <3>1. d \in payments /\ d.invoice # i
      BY <1>2, <2>1 DEF PaymentsOf
    <3>2. d \in Applied /\ d \in Counted
      BY <3>1 DEF Applied, Counted
    <3>. QED  BY <1>3, <3>1, <3>2
  <2>2. CASE d \in notes' /\ d \notin payments'
    <3>1. PICK n \in notes : /\ d.voucher = n.voucher /\ d.status = n.status
                             /\ n.voucher \notin deleted
                             /\ d = IF n.invoice = i THEN [n EXCEPT !.invoice = None] ELSE n
      BY <1>6, <2>2
    <3>2. n \in Applied /\ (d \in Counted' => n \in Counted)
      BY <2>2, <3>1 DEF Applied, Counted
    <3>3. n.voucher \notin ids
      BY <1>3, <3>1, <3>2
    <3>. QED  BY <3>1, <3>2, <3>3
  <2>. QED  BY <2>1, <2>2 DEF Applied
<1>8. VouchersApart'
  <2>1. \A d, e \in Applied' : d.voucher = e.voucher => d = e
    BY <1>7 DEF VouchersApart
  <2>. QED  BY <2>1 DEF VouchersApart
<1>9. \A d \in Counted' : vouchers'[d.voucher].status = "ACTIVE"
  <2>. SUFFICES ASSUME NEW d \in Counted'  PROVE vouchers'[d.voucher].status = "ACTIVE"
    OBVIOUS
  <2>1. d \in Applied'
    BY DEF Counted, Applied
  <2>2. PICK e \in Counted : d.voucher = e.voucher /\ e.voucher \notin ids
    BY <1>7, <2>1
  <2>. QED  BY <1>5, <2>2, CountedFacts DEF InBooks
<1>10. \A j \in IssuedInvoices' : vouchers'[invoice'[j].voucher].status = "ACTIVE"
  <2>1. \A j \in IssuedInvoices' : j \in IssuedInvoices /\ j # i /\ invoice'[j] = invoice[j]
    BY <1>4 DEF IssuedInvoices
  <2>2. \A j \in IssuedInvoices' : invoice[j].voucher \in VoucherIds \ ids
    BY <1>3, <2>1, CountedFacts
  <2>. QED  BY <1>5, <2>1, <2>2 DEF InBooks
<1>. QED  BY <1>8, <1>9, <1>10 DEF InBooks

(* No handler but the cancellation of a voucher strands what counts.         *)
LEMMA InBooksStep ==
  ASSUME "cancelVoucher" \notin Ops, IInv, VouchersApart, InBooks, [Next]_vars
  PROVE  VouchersApart' /\ InBooks'
<1>1. ASSUME UNCHANGED <<invoice, payments, notes, vouchers>>
      PROVE  VouchersApart' /\ InBooks'
  BY <1>1 DEF VouchersApart, InBooks, Applied, Counted, IssuedInvoices
<1>2. \A r \in Requests, i \in Invoices, p \in Parties, a \in Amounts :
        EditRead(r, i, p, a) => UNCHANGED <<invoice, payments, notes, vouchers>>
  BY DEF EditRead, Begin, books
<1>3. \A r \in Requests, i \in Invoices, a \in Amounts :
         PayRead(r, i, a) \/ NoteRead(r, i, a) => UNCHANGED <<invoice, payments, notes, vouchers>>
  BY DEF PayRead, NoteRead, Begin, books
<1>4. \A r \in Requests, i \in Invoices :
         CancelRead(r, i) \/ RemoveRead(r, i) => UNCHANGED <<invoice, payments, notes, vouchers>>
  BY DEF CancelRead, RemoveRead, Begin, books
<1>5. \A r \in Requests :
        EditDelete(r) \/ RemoveDelete(r) \/ Abandon(r) => UNCHANGED <<invoice, payments, notes, vouchers>>
  BY DEF EditDelete, RemoveDelete, Abandon, books
<1>6. \A r \in Requests, v \in DOMAIN vouchers : ~ VoucherCancel(r, v)
  BY DEF VoucherCancel
<1>7. UNCHANGED vars => UNCHANGED <<invoice, payments, notes, vouchers>>
  BY DEF vars
<1>. QED  BY <1>1, <1>2, <1>3, <1>4, <1>5, <1>6, <1>7, CreateInBooks, CommitsInBooks, NoteCancelInBooks,
             CancelCommitInBooks, EditCommitInBooks, RemoveCommitInBooks DEF Next

(* Where vouchers are not cancelled by themselves, everything that counts stays in
   the books: no interleaving of cancellations, removals and new documents takes
   down the voucher of an issued invoice, of a payment or of an issued note. *)
THEOREM CountedStaysInBooks == ASSUME "cancelVoucher" \notin Ops PROVE Spec => []InBooks
<1>1. Init => IInv /\ VouchersApart /\ InBooks
  <2>1. Init => VouchersApart /\ InBooks
    BY DEF Init, VouchersApart, InBooks, Applied, Counted, IssuedInvoices, NoInvoice
  <2>. QED  BY <2>1, InitIInv
<1>2. IInv /\ VouchersApart /\ InBooks /\ [Next]_vars => IInv' /\ VouchersApart' /\ InBooks'
  BY NextIInv, InBooksStep
<1>. QED  BY <1>1, <1>2, PTL DEF Spec

(* The comment of remove holds of requests served one at a time: no active voucher
   outlives its document. *)
THEOREM OneAtATimeLeavesNoOrphan == ASSUME OneAtATime PROVE Spec => []NoOrphanVouchers
<1>1. Init => IInv /\ CalmInv
  BY InitIInv, InitCalm
<1>2. IInv /\ CalmInv /\ [Next]_vars => IInv' /\ CalmInv'
  BY NextIInv, NextCalm
<1>3. IInv /\ CalmInv => NoOrphanVouchers
  <2>. SUFFICES ASSUME IInv, CalmInv, NEW v \in VoucherIds, vouchers[v].status = "ACTIVE"
                PROVE  v \in {invoice[i].voucher : i \in Live} \cup VoucherRefs(payments)
                               \cup VoucherRefs({n \in notes : n.invoice # None})
    BY DEF NoOrphanVouchers
  <2>1. CASE \E i \in IssuedInvoices : invoice[i].voucher = v
    BY <2>1, CountedFacts
  <2>2. CASE \E d \in Counted : d.voucher = v
    <3>1. PICK d \in Counted : d.voucher = v
      BY <2>2
    <3>2. d.invoice # None
      BY NoneAssumption DEF CalmInv, CountedStated
    <3>. QED  BY <3>1, <3>2 DEF Counted, VoucherRefs
  <2>. QED  BY <2>1, <2>2 DEF CalmInv, NoOrphans
<1>. QED  BY <1>1, <1>2, <1>3, PTL DEF Spec
-----------------------------------------------------------------------------
(* The sums, when requests come one at a time.                               *)
Moved(p) == [v \in VoucherIds |-> Amount(LinesOf(v, p))]

(* What a voucher moves of a party's ledger: its one line, or nothing.        *)
LEMMA OneLine ==
  ASSUME NEW v \in VoucherIds, NEW q, NEW a \in Nat, States(v, q, a), NEW p
  PROVE  Moved(p)[v] = IF q = p THEN a ELSE 0
<1>1. PICK rev \in Nat : vouchers[v].lines = Lines(rev, q, a)
  BY DEF States
<1>2. PICK l : l = [rev |-> rev, party |-> q, amount |-> a]
  OBVIOUS
<1>3. vouchers[v].lines = {l} /\ l.party = q /\ l.amount = a
  BY <1>1, <1>2 DEF Lines
<1>4. Moved(p)[v] = Amount(LinesOf(v, p))
  BY DEF Moved
<1>5. CASE q = p
  <2>1. LinesOf(v, p) = {} \cup {l} /\ l \notin {}
    BY <1>3, <1>5 DEF LinesOf
  <2>2. Priced({})
    BY FS_EmptySet DEF Priced
  <2>3. Amount({} \cup {l}) = Amount({}) + l.amount
    BY <1>3, <2>2, AmountFacts
  <2>. QED  BY <1>3, <1>4, <1>5, <2>1, <2>3, AmountOfNone
<1>6. CASE q # p
  <2>1. LinesOf(v, p) = {}
    BY <1>3, <1>6 DEF LinesOf
  <2>. QED  BY <1>4, <1>6, <2>1, AmountOfNone
<1>. QED  BY <1>5, <1>6

(* The vouchers in the books: those of the issued invoices, and of what counts. *)
LEMMA VouchersInBooks ==
  ASSUME IInv, CalmInv, InBooks
  PROVE  /\ ActiveSales = {invoice[i].voucher : i \in IssuedInvoices}
         /\ ActiveVouchers \ ActiveSales = {d.voucher : d \in Counted}
<1>1. \A i \in IssuedInvoices : invoice[i].voucher \in ActiveSales
  BY CountedFacts DEF InBooks, CalmInv, InvoicesStated, ActiveSales, ActiveVouchers
<1>2. \A d \in Counted : d.voucher \in ActiveVouchers \ ActiveSales
  BY CountedFacts DEF InBooks, CalmInv, CountedStated, ActiveSales, ActiveVouchers
<1>3. \A v \in ActiveVouchers : \/ \E i \in IssuedInvoices : invoice[i].voucher = v
                               \/ \E d \in Counted : d.voucher = v
  BY DEF CalmInv, NoOrphans, ActiveVouchers
<1>4. ActiveSales \subseteq ActiveVouchers
  BY DEF ActiveSales
<1>. QED  BY <1>1, <1>2, <1>3, <1>4

(* The sales vouchers move what the issued invoices of the party state.       *)
LEMMA SalesTie ==
  ASSUME IInv, CalmInv, InBooks, IsFiniteSet(Invoices), NEW p
  PROVE  SumFunctionOnSet(Moved(p), ActiveSales) = SumFunctionOnSet([i \in Invoices |-> invoice[i].total], IssuedTo(p))
<1>. DEFINE U == IssuedInvoices
            name == [i \in U |-> invoice[i].voucher]
            total == [i \in Invoices |-> invoice[i].total]
            g == [i \in U |-> IF invoice[i].party = p THEN total[i] ELSE 0]
<1>1. IsFiniteSet(U)
  BY FS_Subset DEF IssuedInvoices
<1>2. \A i \in U : i \in Invoices /\ total[i] \in Nat /\ invoice[i].voucher \in VoucherIds
  BY CountedFacts, BoundsAssumption DEF IssuedInvoices, Amounts
<1>3. \A i, j \in U : name[i] = name[j] => i = j
  BY CountedFacts DEF IInv, Owned
<1>4. \A i \in U : g[i] \in Int
  BY <1>2
<1>5. ASSUME NEW i \in U  PROVE Moved(p)[name[i]] = g[i]
  <2>1. States(invoice[i].voucher, invoice[i].party, invoice[i].total) /\ total[i] = invoice[i].total
    BY <1>2 DEF CalmInv, InvoicesStated
  <2>2. invoice[i].total \in Nat /\ invoice[i].voucher \in VoucherIds
    BY <1>2, <2>1
  <2>3. Moved(p)[invoice[i].voucher] = IF invoice[i].party = p THEN invoice[i].total ELSE 0
    BY <2>1, <2>2, OneLine
  <2>. QED  BY <2>1, <2>3
<1>6. ActiveSales = {name[i] : i \in U}
  BY VouchersInBooks
<1>7. IssuedTo(p) \in SUBSET U /\ \A i \in U : i \in IssuedTo(p) <=> invoice[i].party = p
  BY DEF IssuedTo, IssuedInvoices
<1>8. /\ \A i \in IssuedTo(p) : total[i] \in Int
      /\ \A i \in U : g[i] = IF i \in IssuedTo(p) THEN total[i] ELSE 0
  BY <1>2, <1>7
<1>. HIDE DEF U, name, total, g
<1>9. SumFunctionOnSet(Moved(p), {name[i] : i \in U}) = SumFunctionOnSet(g, U)
  BY <1>1, <1>3, <1>4, <1>5, SumRenamed
<1>10. SumFunctionOnSet(total, IssuedTo(p)) = SumFunctionOnSet(g, U)
  BY <1>1, <1>7, <1>8, SumFiltered
<1>. QED  BY <1>6, <1>9, <1>10 DEF total

(* The other vouchers move what counts on the party's invoices.               *)
LEMMA CountedTie ==
  ASSUME IInv, CalmInv, InBooks, Countable, NEW p
  PROVE  SumFunctionOnSet(Moved(p), ActiveVouchers \ ActiveSales)
           = Amount({d \in Counted : invoice[d.invoice].party = p})
<1>. DEFINE U == Counted
            S == {d \in Counted : invoice[d.invoice].party = p}
            name == [d \in U |-> d.voucher]
            amount == [d \in S |-> d.amount]
            g == [d \in U |-> IF d \in S THEN d.amount ELSE 0]
<1>1. IsFiniteSet(U)
  <2>1. IsFiniteSet(payments \cup notes) /\ U \subseteq payments \cup notes
    BY FS_Union DEF Countable, Counted
  <2>. QED  BY <2>1, FS_Subset
<1>2. \A d \in U : d.amount \in Nat /\ d.voucher \in VoucherIds
  BY CountedFacts, BoundsAssumption DEF Amounts
<1>3. \A d, e \in U : name[d] = name[e] => d = e
  BY CountedFacts DEF CalmInv, VouchersApart
<1>4. \A d \in U : g[d] \in Int
  BY <1>2
<1>5. ASSUME NEW d \in U  PROVE Moved(p)[name[d]] = g[d]
  <2>1. States(d.voucher, invoice[d.invoice].party, d.amount)
    BY DEF CalmInv, CountedStated
  <2>2. Moved(p)[d.voucher] = IF invoice[d.invoice].party = p THEN d.amount ELSE 0
    BY <1>2, <2>1, OneLine
  <2>. QED  BY <2>2
<1>6. ActiveVouchers \ ActiveSales = {name[d] : d \in U}
  BY VouchersInBooks
<1>7. S \in SUBSET U /\ Amount(S) = SumFunctionOnSet(amount, S)
  BY DEF Amount
<1>8. /\ \A d \in S : amount[d] \in Int
      /\ \A d \in U : g[d] = IF d \in S THEN amount[d] ELSE 0
  BY <1>2, <1>7
<1>. HIDE DEF U, S, name, amount, g
<1>9. SumFunctionOnSet(Moved(p), {name[d] : d \in U}) = SumFunctionOnSet(g, U)
  BY <1>1, <1>3, <1>4, <1>5, SumRenamed
<1>10. SumFunctionOnSet(amount, S) = SumFunctionOnSet(g, U)
  BY <1>1, <1>7, <1>8, SumFiltered
<1>. QED  BY <1>6, <1>7, <1>9, <1>10 DEF S

(* What is settled of an invoice: the amounts of what counts of it.           *)
LEMMA SettledOf ==
  ASSUME TypeOK, Countable, NEW i, NEW amount, \A d \in Counted : amount[d] = d.amount
  PROVE  SumFunctionOnSet(amount, PaymentsOf(i) \cup IssuedNotesOf(i)) = Paid(i) + Noted(i)
<1>1. /\ IsFiniteSet(PaymentsOf(i)) /\ IsFiniteSet(IssuedNotesOf(i))
      /\ PaymentsOf(i) \cap IssuedNotesOf(i) = {}
      /\ PaymentsOf(i) \subseteq Counted /\ IssuedNotesOf(i) \subseteq Counted
  <2>1. PaymentsOf(i) \subseteq payments /\ IssuedNotesOf(i) \subseteq notes
    BY DEF PaymentsOf, IssuedNotesOf, NotesOf
  <2>2. PaymentsOf(i) \subseteq Counted /\ IssuedNotesOf(i) \subseteq Counted
    BY DEF Counted, PaymentsOf, IssuedNotesOf, NotesOf
  <2>. QED  BY <2>1, <2>2, FS_Subset, NoteOrPayment DEF Countable
<1>2. \A d \in PaymentsOf(i) \cup IssuedNotesOf(i) : amount[d] \in Int
  BY <1>1, BoundsAssumption DEF TypeOK, Counted, Amounts
<1>3. SumFunctionOnSet(amount, PaymentsOf(i)) = Paid(i)
  <2>. DEFINE f == [d \in PaymentsOf(i) |-> d.amount]
  <2>1. \A d \in PaymentsOf(i) : amount[d] = f[d]
    BY <1>1
  <2>2. Paid(i) = SumFunctionOnSet(f, PaymentsOf(i))
    BY DEF Paid, Amount
  <2>. HIDE DEF f
  <2>. QED  BY <1>1, <2>1, <2>2, SumSame
<1>4. SumFunctionOnSet(amount, IssuedNotesOf(i)) = Noted(i)
  <2>. DEFINE f == [d \in IssuedNotesOf(i) |-> d.amount]
  <2>1. \A d \in IssuedNotesOf(i) : amount[d] = f[d]
    BY <1>1
  <2>2. Noted(i) = SumFunctionOnSet(f, IssuedNotesOf(i))
    BY DEF Noted, Amount
  <2>. HIDE DEF f
  <2>. QED  BY <1>1, <2>1, <2>2, SumSame
<1>. QED  BY <1>1, <1>2, <1>3, <1>4, SumUnion

(* A party's documents: what was invoiced, less what counts of it.            *)
LEMMA DocumentsTie ==
  ASSUME IInv, CalmInv, Countable, IsFiniteSet(Invoices), NEW p
  PROVE  DocumentBalance(p) = SumFunctionOnSet([i \in Invoices |-> invoice[i].total], IssuedTo(p))
                                - Amount({d \in Counted : invoice[d.invoice].party = p})
<1>. DEFINE V == IssuedTo(p)
            U == {d \in Counted : invoice[d.invoice].party = p}
            amount == [d \in Counted |-> d.amount]
            own == [d \in U |-> d.amount]
            key == [d \in U |-> d.invoice]
            group == [i \in V |-> {d \in U : key[d] = i}]
            total == [i \in Invoices |-> invoice[i].total]
            settled == [i \in V |-> Paid(i) + Noted(i)]
            open == [i \in Invoices |-> Outstanding(i)]
<1>1. IsFiniteSet(V)
  BY FS_Subset DEF IssuedTo
<1>2. IsFiniteSet(U)
  <2>1. IsFiniteSet(payments \cup notes) /\ U \subseteq payments \cup notes
    BY FS_Union DEF Countable, Counted
  <2>. QED  BY <2>1, FS_Subset
<1>3. \A d \in U : amount[d] \in Int /\ own[d] = amount[d]
  BY CountedFacts, BoundsAssumption DEF Amounts
<1>4. Grouping(group, key, U, V)
  <2>1. \A d \in U : key[d] \in V
    BY CountedOf DEF CalmInv, IssuedTo, IssuedInvoices
  <2>2. \A i \in V : group[i] = {d \in U : key[d] = i}
    OBVIOUS
  <2>. HIDE DEF key, group, U, V
  <2>. QED  BY <2>1, <2>2 DEF Grouping
<1>5. ASSUME NEW i \in V  PROVE settled[i] = SumFunctionOnSet(amount, group[i])
  <2>1. group[i] = PaymentsOf(i) \cup IssuedNotesOf(i)
    BY DEF IssuedTo, Counted, PaymentsOf, IssuedNotesOf, NotesOf
  <2>2. /\ settled[i] = Paid(i) + Noted(i)
        /\ \A d \in Counted : amount[d] = d.amount
    OBVIOUS
  <2>. HIDE DEF settled, amount, group
  <2>. QED  BY <2>1, <2>2, SettledOf DEF IInv
<1>6. \A i \in V : total[i] \in Int /\ settled[i] \in Int /\ open[i] = total[i] - settled[i]
  <2>1. \A i \in V : i \in Invoices /\ invoice[i].total \in Nat
    BY CountedFacts, BoundsAssumption DEF IssuedTo, IssuedInvoices, Amounts
  <2>2. \A i : Paid(i) \in Nat /\ Noted(i) \in Nat
    BY DocumentsPriced DEF IInv
  <2>. QED  BY <2>1, <2>2 DEF Outstanding
<1>7. Amount(U) = SumFunctionOnSet(own, U) /\ DocumentBalance(p) = SumFunctionOnSet(open, V)
  BY DEF Amount, DocumentBalance
<1>. HIDE DEF U, V, amount, own, key, group, total, settled, open
<1>8. SumFunctionOnSet(settled, V) = SumFunctionOnSet(amount, U)
  BY <1>1, <1>2, <1>3, <1>4, <1>5, SumGrouped
<1>9. SumFunctionOnSet(own, U) = SumFunctionOnSet(amount, U)
  BY <1>2, <1>3, SumSame
<1>10. SumFunctionOnSet(open, V) = SumFunctionOnSet(total, V) - SumFunctionOnSet(settled, V)
  BY <1>1, <1>6, SumMinus
<1>. QED  BY <1>7, <1>8, <1>9, <1>10 DEF U, V, total

(* Where what counts is in the books, a party's ledger is the party's documents. *)
LEMMA LedgerIsDocuments ==
  ASSUME IInv, CalmInv, Countable, InBooks, IsFiniteSet(Invoices), NEW p
  PROVE  LedgerBalance(p) = DocumentBalance(p)
<1>1. LedgerBalance(p) = SumFunctionOnSet(Moved(p), ActiveSales)
                           - SumFunctionOnSet(Moved(p), ActiveVouchers \ ActiveSales)
  BY DEF LedgerBalance, Moved
<1>. QED  BY <1>1, SalesTie, CountedTie, DocumentsTie

(* Where vouchers are not cancelled by themselves, and requests come one at a
   time, the customer's ledger and the customer's documents say the same. *)
THEOREM OneAtATimeTies ==
  ASSUME OneAtATime, "cancelVoucher" \notin Ops, IsFiniteSet(Invoices)
  PROVE  Spec => []BooksTie
<1>1. Init => IInv /\ CalmInv /\ Countable /\ InBooks
  <2>1. Init => InBooks
    BY DEF Init, InBooks, Counted, IssuedInvoices, NoInvoice
  <2>. QED  BY <2>1, InitIInv, InitCalm, FS_EmptySet DEF Init, Countable
<1>2. IInv /\ CalmInv /\ Countable /\ InBooks /\ [Next]_vars => IInv' /\ CalmInv' /\ Countable' /\ InBooks'
  BY NextIInv, NextCalm, CountableInductive, InBooksStep DEF CalmInv
<1>3. IInv /\ CalmInv /\ Countable /\ InBooks => BooksTie
  BY LedgerIsDocuments DEF BooksTie
<1>. QED  BY <1>1, <1>2, <1>3, PTL DEF Spec

(* The documents of a party, with and without what was returned.              *)
Unreturned(p) == SumFunctionOnSet([i \in Invoices |-> invoice[i].total - Paid(i)], IssuedTo(p))
Returned(p) == SumFunctionOnSet([i \in Invoices |-> Noted(i)], IssuedTo(p))
Clipped(p) ==
  SumFunctionOnSet([i \in Invoices |-> IF invoice[i].total - Paid(i) > 0 THEN invoice[i].total - Paid(i) ELSE 0],
                   IssuedTo(p))

(* Returns are the difference between the two.                                *)
LEMMA ReturnsApart ==
  ASSUME IInv, Countable, IsFiniteSet(Invoices), NEW p
  PROVE  DocumentBalance(p) = Unreturned(p) - Returned(p)
<1>. DEFINE V == IssuedTo(p)
            open == [i \in Invoices |-> Outstanding(i)]
            left == [i \in Invoices |-> invoice[i].total - Paid(i)]
            noted == [i \in Invoices |-> Noted(i)]
<1>1. IsFiniteSet(V) /\ V \subseteq IssuedInvoices /\ V \subseteq Invoices
  BY FS_Subset DEF IssuedTo, IssuedInvoices
<1>2. \A i \in V : left[i] \in Int /\ noted[i] \in Int /\ open[i] = left[i] - noted[i]
  <2>1. \A i \in V : i \in Invoices /\ invoice[i].total \in Nat
    BY <1>1, CountedFacts, BoundsAssumption DEF Amounts
  <2>2. \A i : Paid(i) \in Nat /\ Noted(i) \in Nat
    BY DocumentsPriced DEF IInv
  <2>. QED  BY <2>1, <2>2 DEF Outstanding
<1>3. DocumentBalance(p) = SumFunctionOnSet(open, V)
  BY DEF DocumentBalance
<1>4. Unreturned(p) = SumFunctionOnSet(left, V) /\ Returned(p) = SumFunctionOnSet(noted, V)
  BY DEF Unreturned, Returned
<1>. HIDE DEF V, open, left, noted
<1>. QED  BY <1>1, <1>2, <1>3, <1>4, SumMinus

(* As long as the vouchers of what counts are in the books, the ledger is what was
   not paid, less what was returned. *)
TiesInStep == InBooks => \A p : LedgerBalance(p) = Unreturned(p) - Returned(p)

(* One at a time, that holds: a cancelled voucher is all that can take a party's
   ledger from its documents. *)
THEOREM OneAtATimeTiesInStep == ASSUME OneAtATime, IsFiniteSet(Invoices) PROVE Spec => []TiesInStep
<1>1. Init => IInv /\ CalmInv /\ Countable
  BY InitIInv, InitCalm, FS_EmptySet DEF Init, Countable
<1>2. IInv /\ CalmInv /\ Countable /\ [Next]_vars => IInv' /\ CalmInv' /\ Countable'
  BY NextIInv, NextCalm, CountableInductive
<1>3. IInv /\ CalmInv /\ Countable => TiesInStep
  BY LedgerIsDocuments, ReturnsApart DEF TiesInStep
<1>. QED  BY <1>1, <1>2, <1>3, PTL DEF Spec

-----------------------------------------------------------------------------
(* Four functions that are the numbers of sound accounts: none is negative,   *)
(* neither payments nor notes exceed the total, a closed account is empty.    *)
Sound(t, p, n, s) ==
  /\ t \in [Invoices -> Nat]
  /\ p \in [Invoices -> Nat]
  /\ n \in [Invoices -> Nat]
  /\ s \in [Invoices -> {"NONE", "ISSUED", "CANCELLED", "GONE"}]
  /\ \A i \in Invoices : p[i] <= t[i] /\ n[i] <= t[i] /\ (s[i] # "ISSUED" => p[i] = 0 /\ n[i] = 0)

(* A payment fits in what payments and notes have left of the total.          *)
FitsBalance(p, u, q, m) == \A i \in Invoices : q[i] > p[i] => q[i] + m[i] <= u[i]

AccountSound ==
  Sound([i \in Invoices |-> invoice[i].total], [i \in Invoices |-> Paid(i)],
        [i \in Invoices |-> Noted(i)], [i \in Invoices |-> invoice[i].status])

(* The operations of an account keep it sound, and a step that raises what is *)
(* paid is a payment, which looked at the balance.                            *)
LEMMA SoundStep ==
  ASSUME AccountSound, Account!Next
  PROVE  AccountSound' /\ Account!PaysOutOfBalance
<1>1. PICK t, p, n, s : /\ t = [i \in Invoices |-> invoice[i].total]
                        /\ p = [i \in Invoices |-> Paid(i)]
                        /\ n = [i \in Invoices |-> Noted(i)]
                        /\ s = [i \in Invoices |-> invoice[i].status]
  OBVIOUS
<1>2. PICK u, q, m, z : /\ u = [i \in Invoices |-> invoice[i].total]'
                        /\ q = [i \in Invoices |-> Paid(i)]'
                        /\ m = [i \in Invoices |-> Noted(i)]'
                        /\ z = [i \in Invoices |-> invoice[i].status]'
  OBVIOUS
<1>3. Sound(t, p, n, s)
  BY <1>1 DEF AccountSound
<1>. DEFINE Good == Sound(u, q, m, z) /\ FitsBalance(p, u, q, m)
<1>4. SUFFICES Good
  <2>1. AccountSound' <=> Sound(u, q, m, z)
    BY <1>2 DEF AccountSound
  <2>2. Account!PaysOutOfBalance <=> FitsBalance(p, u, q, m)
    BY <1>1, <1>2 DEF Account!PaysOutOfBalance, FitsBalance
  <2>. QED  BY <2>1, <2>2
<1>. USE BoundsAssumption DEF Sound, FitsBalance, Amounts
<1>5. ASSUME NEW i \in Invoices, NEW a \in Amounts, Account!Create(i, a) PROVE Good
  <2>1. s[i] = "NONE" /\ z = [s EXCEPT ![i] = "ISSUED"] /\ u = [t EXCEPT ![i] = a] /\ q = p /\ m = n
    BY <1>1, <1>2, <1>5 DEF Account!Create
  <2>. QED  BY <1>3, <2>1
<1>6. ASSUME NEW i \in Invoices, NEW a \in Amounts, Account!RecordPayment(i, a) PROVE Good
  <2>1. /\ s[i] = "ISSUED" /\ a <= t[i] - p[i] - n[i]
        /\ q = [p EXCEPT ![i] = p[i] + a] /\ u = t /\ m = n /\ z = s
    BY <1>1, <1>2, <1>6 DEF Account!RecordPayment, Account!Outstanding
  <2>. QED  BY <1>3, <2>1
<1>7. ASSUME NEW i \in Invoices, NEW a \in Amounts, Account!IssueNote(i, a) PROVE Good
  <2>1. /\ s[i] = "ISSUED" /\ a <= t[i] - n[i]
        /\ m = [n EXCEPT ![i] = n[i] + a] /\ u = t /\ q = p /\ z = s
    BY <1>1, <1>2, <1>7 DEF Account!IssueNote
  <2>. QED  BY <1>3, <2>1
<1>8. ASSUME NEW i \in Invoices, NEW a \in Amounts, Account!CancelNote(i, a) PROVE Good
  <2>1. /\ s[i] = "ISSUED" /\ a <= n[i]
        /\ m = [n EXCEPT ![i] = n[i] - a] /\ u = t /\ q = p /\ z = s
    BY <1>1, <1>2, <1>8 DEF Account!CancelNote
  <2>. QED  BY <1>3, <2>1
<1>9. ASSUME NEW i \in Invoices, NEW a \in Amounts, Account!Edit(i, a) PROVE Good
  <2>1. s[i] = "ISSUED" /\ p[i] = 0 /\ n[i] = 0 /\ u = [t EXCEPT ![i] = a] /\ q = p /\ m = n /\ z = s
    BY <1>1, <1>2, <1>9 DEF Account!Edit, Account!Unsettled
  <2>. QED  BY <1>3, <2>1
<1>10. ASSUME NEW i \in Invoices, Account!Cancel(i) PROVE Good
  <2>1. /\ s[i] = "ISSUED" /\ p[i] = 0 /\ n[i] = 0
        /\ z = [s EXCEPT ![i] = "CANCELLED"] /\ u = t /\ q = p /\ m = n
    BY <1>1, <1>2, <1>10 DEF Account!Cancel, Account!Unsettled
  <2>. QED  BY <1>3, <2>1
<1>11. ASSUME NEW i \in Invoices, Account!Remove(i) PROVE Good
  <2>1. /\ s[i] \in {"ISSUED", "CANCELLED"} /\ z = [s EXCEPT ![i] = "GONE"]
        /\ q = [p EXCEPT ![i] = 0] /\ m = [n EXCEPT ![i] = 0] /\ u = t
    BY <1>1, <1>2, <1>11 DEF Account!Remove
  <2>. QED  BY <1>3, <2>1
<1>12. \/ \E i \in Invoices, a \in Amounts : \/ Account!Create(i, a) \/ Account!RecordPayment(i, a)
                                            \/ Account!IssueNote(i, a) \/ Account!CancelNote(i, a)
                                            \/ Account!Edit(i, a)
       \/ \E i \in Invoices : Account!Cancel(i) \/ Account!Remove(i)
  <2>. HIDE DEF Amounts
  <2>1. Account!Amounts = Amounts
    BY DEF Account!Amounts, Amounts
  <2>. QED  BY <2>1 DEF Account!Next
<1>. HIDE DEF Good
<1>. QED  BY <1>5, <1>6, <1>7, <1>8, <1>9, <1>10, <1>11, <1>12

(* An account starts empty.                                                  *)
LEMMA SoundInit == Account!Init => AccountSound
BY DEF Account!Init, AccountSound, Sound

(* An account in which nothing moves stays sound.                            *)
LEMMA SoundStutters == AccountSound /\ UNCHANGED Account!vars => AccountSound'
BY DEF Account!vars, AccountSound

(* Whoever settles, every account stays sound.                               *)
LEMMA SettledSound == Settles => []AccountSound
<1>1. AccountSound /\ [Account!Next]_(Account!vars) => AccountSound'
  BY SoundStep, SoundStutters
<1>. QED  BY <1>1, SoundInit, PTL DEF Settles, Account!Spec

(* One at a time, neither the payments nor the notes exceed the total, and a  *)
(* cancelled or removed invoice has neither.                                  *)
THEOREM OneAtATimeWithinTotal == ASSUME OneAtATime PROVE Spec => []WithinTotal
<1>1. AccountSound => WithinTotal
  BY DEF AccountSound, Sound, WithinTotal, Account!WithinTotal
<1>. QED  BY <1>1, SettledSound, OneAtATimeSettles, PTL

(* One at a time, no payment is taken of what has been returned.              *)
THEOREM OneAtATimePaysOutOfBalance == ASSUME OneAtATime PROVE Spec => PaidOutOfBalance
<1>1. AccountSound /\ [Account!Next]_(Account!vars) => [Account!PaysOutOfBalance]_(Account!vars)
  BY SoundStep
<1>. QED  BY <1>1, SettledSound, OneAtATimeSettles, PTL
          DEF Settles, Account!Spec, PaidOutOfBalance, Account!PaidOutOfBalance

(* What is left of a party's documents is never clipped at nothing.           *)
ClipsNothing == \A p : Clipped(p) = Unreturned(p)

(* One at a time, no document is paid beyond its total: none is clipped.      *)
THEOREM OneAtATimeClipsNothing == ASSUME OneAtATime, IsFiniteSet(Invoices) PROVE Spec => []ClipsNothing
<1>1. AccountSound => ClipsNothing
  <2>. SUFFICES ASSUME AccountSound, NEW p  PROVE Clipped(p) = Unreturned(p)
    BY DEF ClipsNothing
  <2>. DEFINE left == [i \in Invoices |-> invoice[i].total - Paid(i)]
              clipped == [i \in Invoices |-> IF invoice[i].total - Paid(i) > 0 THEN invoice[i].total - Paid(i) ELSE 0]
  <2>1. IsFiniteSet(IssuedTo(p)) /\ IssuedTo(p) \subseteq Invoices
    BY FS_Subset DEF IssuedTo
  <2>2. \A i \in Invoices : invoice[i].total \in Nat /\ Paid(i) \in Nat /\ Paid(i) <= invoice[i].total
    BY DEF AccountSound, Sound
  <2>3. \A i \in IssuedTo(p) : clipped[i] = left[i]
    BY <2>1, <2>2
  <2>4. Clipped(p) = SumFunctionOnSet(clipped, IssuedTo(p)) /\ Unreturned(p) = SumFunctionOnSet(left, IssuedTo(p))
    BY DEF Clipped, Unreturned
  <2>. HIDE DEF left, clipped
  <2>. QED  BY <2>1, <2>3, <2>4, SumSame
<1>. QED  BY <1>1, SettledSound, OneAtATimeSettles, PTL
=============================================================================
