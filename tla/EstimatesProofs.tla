---------------------------- MODULE EstimatesProofs ----------------------------
(***************************************************************************)
(* What holds of estimates under any interleaving of any number of         *)
(* requests, and of one estimate while requests on it take turns.          *)
(***************************************************************************)
EXTENDS Estimates, SequenceTheorems, TLAPS

Created == {e \in EstimateIds : estimate[e].status # "NONE"}

(* An invoice comes from an estimate that was created.                       *)
Origins == \A k \in InvoiceIds : invoices[k].estimate \in Created

(* The voucher of a booked estimate is a sale, and no other estimate's.      *)
SalesApart ==
  /\ \A e \in EstimateIds : Booked(e) => vouchers[estimate[e].voucher].type = "SALES"
  /\ \A e, f \in EstimateIds :
       Booked(e) /\ estimate[e].voucher = estimate[f].voucher => e = f

(* What a request in flight has read is still true of the row, whatever has
   happened since: the voucher of an estimate never changes, and an invoice never
   changes the estimate it was made from. *)
ReadingOK(q) ==
  /\ q.est \in Created
  /\ q.op \in {"count", "cancel", "remove", "void"} => q.voucher = estimate[q.est].voucher
  /\ q.op \in {"convert", "link"} => ~ Booked(q.est)
  /\ q.op \in {"link", "unlink"} => invoices[q.invoice].estimate = q.est
  /\ q.op = "unlink" =>
       /\ q.reverted \subseteq Stored \cap {q.est}
       /\ q.invoice \in LiveInvoices => \A e \in q.reverted : estimate[e].invoice = q.invoice

ReadingsSound == \A r \in Requests : req[r] # Idle => ReadingOK(req[r])

IInv == TypeOK /\ Origins /\ SalesApart /\ ReadingsSound /\ BookedIsFinal /\ LinksAreSound

Rows == Row \cup {NoEstimate}
Vouchers == [type : {"SALES", "RECEIPT"}, status : {"ACTIVE", "CANCELLED", "GONE"}]
Invoices == [estimate : EstimateIds, bills : Contents, status : {"ISSUED", "CANCELLED", "GONE"}]

-----------------------------------------------------------------------------
(* What the type invariant says of rows, sequences and requests.             *)
LEMMA Facts ==
  ASSUME TypeOK
  PROVE  /\ vouchers \in Seq(Vouchers) /\ invoices \in Seq(Invoices)
         /\ Len(vouchers) \in Nat /\ Len(invoices) \in Nat
         /\ VoucherIds = 1..Len(vouchers) /\ InvoiceIds = 1..Len(invoices)
         /\ \A v \in VoucherIds : vouchers[v] \in Vouchers
         /\ \A k \in InvoiceIds : invoices[k] \in Invoices
         /\ \A e \in EstimateIds : estimate[e] \in Rows
         /\ \A e \in Created : estimate[e] \in Row
         /\ Stored \subseteq Created /\ Created \subseteq EstimateIds
<1>1. /\ vouchers \in Seq(Vouchers) /\ invoices \in Seq(Invoices)
      /\ \A e \in EstimateIds : estimate[e] \in Rows
  BY DEF TypeOK, Vouchers, Invoices, Rows
<1>2. /\ Len(vouchers) \in Nat /\ Len(invoices) \in Nat
      /\ VoucherIds = 1..Len(vouchers) /\ InvoiceIds = 1..Len(invoices)
      /\ \A v \in VoucherIds : vouchers[v] \in Vouchers
      /\ \A k \in InvoiceIds : invoices[k] \in Invoices
  BY <1>1 DEF VoucherIds, InvoiceIds
<1>3. Stored \subseteq Created /\ Created \subseteq EstimateIds
  BY DEF Stored, Created
<1>4. \A e \in Created : estimate[e] \in Row
  BY <1>1 DEF Created, Rows, NoEstimate
<1>. QED  BY <1>1, <1>2, <1>3, <1>4

LEMMA RowFields ==
  ASSUME TypeOK, NEW e \in EstimateIds
  PROVE  /\ estimate[e].voucher \in VoucherIds \cup {0}
         /\ estimate[e].invoice \in InvoiceIds \cup {0}
         /\ 0 \notin VoucherIds /\ 0 \notin InvoiceIds
         /\ Booked(e) => e \in Created
         /\ e \in Created => /\ estimate[e].bills \in Contents
                             /\ estimate[e].status \in Settable \cup {"CONVERTED", "CANCELLED", "GONE"}
<1>1. VoucherIds = 1..Len(vouchers) /\ InvoiceIds = 1..Len(invoices)
  BY Facts
<1>2. estimate[e] \in Row \/ estimate[e] = NoEstimate
  BY DEF TypeOK
<1>3. estimate[e] = NoEstimate => e \notin Created /\ ~ Booked(e)
  BY DEF NoEstimate, Created, Booked
<1>4. estimate[e] \in Row => e \in Created
  BY DEF Row, Created, Settable
<1>. QED  BY <1>1, <1>2, <1>3, <1>4 DEF Row, NoEstimate

(* What a request in flight holds.                                           *)
LEMMA RequestFields ==
  ASSUME TypeOK, NEW r \in Requests, req[r] # Idle
  PROVE  /\ req[r] \in Reading
         /\ req[r].est \in EstimateIds
         /\ req[r].op # "idle"
         /\ req[r].op \in {"update", "convert"} => req[r].bills \in Contents
         /\ req[r].op = "status" => req[r].status \in Settable
         /\ req[r].op \in {"count", "cancel", "remove"} => req[r].voucher \in VoucherIds \cup {0}
         /\ req[r].op = "void" => req[r].voucher \in VoucherIds
         /\ req[r].op \in {"link", "unlink"} => req[r].invoice \in InvoiceIds
         /\ req[r].op = "unlink" => req[r].reverted \subseteq EstimateIds
<1>1. req[r] \in Reading
  BY DEF TypeOK
<1>. QED  BY <1>1 DEF Reading

LEMMA Busy ==
  ASSUME NEW r \in Requests, req[r].op # "idle"
  PROVE  req[r] # Idle
BY DEF Idle

LEMMA ReadingGrows ==
  ASSUME VoucherIds \subseteq VoucherIds', InvoiceIds \subseteq InvoiceIds'
  PROVE  Reading \subseteq Reading' /\ Row \subseteq Row'
BY DEF Reading, Row

LEMMA InitIInv == Init => IInv
BY DEF Init, IInv, TypeOK, Origins, SalesApart, ReadingsSound, BookedIsFinal, LinksAreSound,
   Stored, Created, Booked, NoEstimate, VoucherIds, InvoiceIds

(* Steps that change no table: readings, and requests that end.              *)
LEMMA Quiet ==
  ASSUME IInv, NEW r \in Requests, NEW q \in Reading \cup {Idle}, q # Idle => ReadingOK(q),
         UNCHANGED <<tables, voided>>, req' = [req EXCEPT ![r] = q], disturbed' \subseteq EstimateIds
  PROVE  IInv'
<1>. USE DEF IInv
<1>1. UNCHANGED <<estimate, invoices, vouchers, advances>>
  BY DEF tables
<1>2. /\ VoucherIds' = VoucherIds /\ InvoiceIds' = InvoiceIds /\ LiveInvoices' = LiveInvoices
      /\ Created' = Created /\ Stored' = Stored
  BY <1>1 DEF VoucherIds, InvoiceIds, Created, Stored, LiveInvoices
<1>3. Reading' = Reading /\ Row' = Row
  BY <1>2 DEF Reading, Row
<1>4. TypeOK'
  BY <1>1, <1>2, <1>3 DEF TypeOK
<1>5. ReadingsSound'
  BY <1>1, <1>2 DEF ReadingsSound, ReadingOK, TypeOK, Booked
<1>6. (Origins /\ SalesApart /\ BookedIsFinal /\ LinksAreSound)'
  BY <1>1, <1>2 DEF Origins, SalesApart, BookedIsFinal, LinksAreSound, Booked, InvoicesOf
<1>. QED  BY <1>4, <1>5, <1>6

(* A request writes the row of an estimate that no removal has locked: the row
   keeps its voucher, and its link or gets one to an invoice of its own. *)
LEMMA RowWritten ==
  ASSUME IInv, NEW r \in Requests, NEW e \in Stored, NEW row \in Row,
         row.voucher = estimate[e].voucher, row.status # "GONE",
         row.invoice = estimate[e].invoice \/ row.invoice \in InvoicesOf(e),
         ~ Locked(e), estimate' = [estimate EXCEPT ![e] = row],
         UNCHANGED <<invoices, vouchers, advances>>,
         NEW q \in Reading \cup {Idle}, q # Idle => q.op = "void" /\ ReadingOK(q),
         req' = [req EXCEPT ![r] = q], UNCHANGED voided, disturbed' \subseteq EstimateIds
  PROVE  IInv'
<1>. USE DEF IInv
<1>1. /\ VoucherIds' = VoucherIds /\ InvoiceIds' = InvoiceIds /\ LiveInvoices' = LiveInvoices
      /\ InvoicesOf(e)' = InvoicesOf(e) /\ \A f \in EstimateIds : InvoicesOf(f)' = InvoicesOf(f)
  BY DEF VoucherIds, InvoiceIds, LiveInvoices, InvoicesOf
<1>2. Reading' = Reading /\ Row' = Row
  BY <1>1 DEF Reading, Row
<1>3. /\ estimate'[e] = row /\ \A f \in EstimateIds \ {e} : estimate'[f] = estimate[f]
      /\ e \in EstimateIds /\ e \in Created
      /\ row.status # "NONE"
  BY Facts DEF TypeOK, Row, Settable
<1>4. /\ Created' = Created /\ Stored' = Stored
      /\ \A f \in EstimateIds : /\ estimate'[f].voucher = estimate[f].voucher
                                /\ Booked(f)' <=> Booked(f)
  BY <1>3 DEF Created, Stored, Booked
<1>5. TypeOK'
  BY <1>1, <1>2 DEF TypeOK
<1>6. ReadingsSound'
  <2>. SUFFICES ASSUME NEW s \in Requests, req'[s] # Idle  PROVE ReadingOK(req[s])'
    BY DEF ReadingsSound
  <2>1. CASE req'[s] = req[s]
    <3>1. ReadingOK(req[s])
      BY <2>1 DEF ReadingsSound
    <3>2. req[s].op = "unlink" => e \notin req[s].reverted
      BY DEF Locked
    <3>3. req[s].op = "unlink" => req[s].reverted \subseteq EstimateIds \ {e}
      BY <2>1, <3>2, RequestFields
    <3>4. req[s].est \in EstimateIds
      BY <2>1, RequestFields
    <3>5. req[s].op = "unlink" =>
            \A f \in req[s].reverted : estimate'[f] = estimate[f]
      BY <3>3, <1>3
    <3>. QED  BY <2>1, <3>1, <3>4, <3>5, <1>1, <1>4 DEF ReadingOK
  <2>2. CASE req'[s] = q
    <3>1. q \in Reading /\ q.op = "void" /\ ReadingOK(q) /\ q.est \in Created
      BY <2>2 DEF ReadingOK
    <3>. QED  BY <2>2, <3>1, <1>4, Facts DEF ReadingOK
  <2>. QED  BY <2>1, <2>2 DEF TypeOK
<1>7. Origins' /\ SalesApart' /\ BookedIsFinal'
  BY <1>1, <1>4 DEF Origins, SalesApart, BookedIsFinal, InvoiceIds
<1>8. LinksAreSound'
  BY <1>1, <1>3, <1>4, Facts DEF LinksAreSound, Stored
<1>. QED  BY <1>5, <1>6, <1>7, <1>8

(* A voucher is posted: a new one, and active.                               *)
LEMMA PostFacts ==
  ASSUME TypeOK, NEW type \in {"SALES", "RECEIPT"}, Post(type)
  PROVE  /\ vouchers' \in Seq(Vouchers)
         /\ VoucherIds' = VoucherIds \cup {NewVoucher} /\ NewVoucher \notin VoucherIds
         /\ NewVoucher # 0
         /\ \A v \in VoucherIds : vouchers'[v] = vouchers[v]
         /\ vouchers'[NewVoucher] = [type |-> type, status |-> "ACTIVE"]
<1>. DEFINE x == [type |-> type, status |-> "ACTIVE"]
<1>1. x \in Vouchers
  BY DEF Vouchers
<1>2. vouchers' = Append(vouchers, x) /\ vouchers \in Seq(Vouchers)
  BY Facts DEF Post
<1>. HIDE DEF x
<1>3. /\ vouchers' \in Seq(Vouchers)
      /\ VoucherIds' = VoucherIds \cup {NewVoucher} /\ NewVoucher \notin VoucherIds
      /\ NewVoucher # 0
      /\ \A v \in VoucherIds : vouchers'[v] = vouchers[v]
      /\ vouchers'[NewVoucher] = x
  BY <1>1, <1>2 DEF VoucherIds, NewVoucher
<1>. QED  BY <1>3 DEF x

(* The status of a voucher changes.                                          *)
LEMMA VoucherMarked ==
  ASSUME TypeOK, NEW v \in VoucherIds, NEW s \in {"ACTIVE", "CANCELLED", "GONE"},
         vouchers' = [vouchers EXCEPT ![v].status = s]
  PROVE  /\ vouchers' \in Seq(Vouchers) /\ VoucherIds' = VoucherIds
         /\ \A w \in VoucherIds : vouchers'[w].type = vouchers[w].type
         /\ \A w \in VoucherIds \ {v} : vouchers'[w] = vouchers[w]
         /\ vouchers'[v].status = s
<1>. DEFINE x == [vouchers[v] EXCEPT !.status = s]
<1>1. vouchers \in Seq(Vouchers) /\ vouchers[v] \in Vouchers
  BY Facts
<1>2. x \in Vouchers /\ x.type = vouchers[v].type /\ x.status = s
  BY <1>1 DEF Vouchers
<1>3. vouchers' = [vouchers EXCEPT ![v] = x]
  OBVIOUS
<1>. HIDE DEF x
<1>. QED  BY <1>1, <1>2, <1>3 DEF VoucherIds

(* Vouchers are marked or added, and no estimate or invoice changes.         *)
LEMMA VouchersChanged ==
  ASSUME IInv, vouchers' \in Seq(Vouchers), VoucherIds \subseteq VoucherIds',
         \A w \in VoucherIds : vouchers'[w].type = vouchers[w].type,
         UNCHANGED <<estimate, invoices>>,
         advances' \subseteq [voucher : VoucherIds', estimate : EstimateIds \cup {None}],
         NEW r \in Requests, req' = req \/ req' = [req EXCEPT ![r] = Idle],
         voided' \subseteq VoucherIds', disturbed' \subseteq EstimateIds
  PROVE  IInv'
<1>. USE DEF IInv
<1>1. /\ InvoiceIds' = InvoiceIds /\ LiveInvoices' = LiveInvoices
      /\ Created' = Created /\ Stored' = Stored
  BY DEF InvoiceIds, Created, Stored, LiveInvoices
<1>2. Reading \subseteq Reading' /\ Row \subseteq Row'
  BY <1>1, ReadingGrows
<1>3. /\ req' \in [Requests -> Reading \cup {Idle}]
      /\ \A s \in Requests : req'[s] = req[s] \/ req'[s] = Idle
  BY DEF TypeOK
<1>4. TypeOK'
  BY <1>1, <1>2, <1>3 DEF TypeOK, Vouchers, InvoiceIds
<1>5. ReadingsSound'
  BY <1>1, <1>3 DEF ReadingsSound, ReadingOK, Booked
<1>6. SalesApart'
  BY RowFields DEF SalesApart, Booked
<1>7. (Origins /\ BookedIsFinal /\ LinksAreSound)'
  BY <1>1 DEF Origins, BookedIsFinal, LinksAreSound, Booked, InvoicesOf
<1>. QED  BY <1>4, <1>5, <1>6, <1>7
(* Begin and Goto, as the lemmas on requests want them.                      *)
LEMMA BeginFacts ==
  ASSUME TypeOK, NEW r \in Requests, NEW q \in Reading, Begin(r, q)
  PROVE  req' = [req EXCEPT ![r] = q] /\ disturbed' \subseteq EstimateIds /\ UNCHANGED voided
BY DEF Begin, TypeOK, Reading

LEMMA CreateIInv ==
  ASSUME IInv, NEW r \in Requests, NEW e \in EstimateIds, NEW t \in Contents, NEW b \in BOOLEAN,
         Create(r, e, t, b)
  PROVE  IInv'
<1>. USE DEF IInv
<1>. DEFINE v == IF b THEN NewVoucher ELSE 0
            row == [status |-> "OPEN", bills |-> t, invoice |-> 0, voucher |-> v]
<1>1. /\ estimate' = [estimate EXCEPT ![e] = row] /\ estimate[e].status = "NONE"
      /\ UNCHANGED <<invoices, advances, req, voided, disturbed>>
  BY DEF Create
<1>2. /\ vouchers' \in Seq(Vouchers) /\ VoucherIds \subseteq VoucherIds'
      /\ \A w \in VoucherIds : vouchers'[w] = vouchers[w]
      /\ v # 0 => v \in VoucherIds' \ VoucherIds /\ vouchers'[v].type = "SALES"
  <2>1. CASE b
    BY <2>1, PostFacts DEF Create
  <2>2. CASE ~ b
    BY <2>2, Facts DEF Create, VoucherIds
  <2>. QED  BY <2>1, <2>2
<1>3. row \in Row'
  BY <1>2 DEF Row, Settable
<1>4. /\ row.status = "OPEN" /\ row.voucher = v /\ row.invoice = 0
  OBVIOUS
<1>. HIDE DEF row, v
<1>5. InvoiceIds' = InvoiceIds /\ LiveInvoices' = LiveInvoices
  BY <1>1 DEF InvoiceIds, LiveInvoices
<1>6. /\ Created' = Created \cup {e} /\ Stored' = Stored \cup {e} /\ e \notin Created
      /\ estimate'[e] = row /\ \A f \in EstimateIds \ {e} : estimate'[f] = estimate[f]
  BY <1>1, <1>4 DEF Created, Stored, TypeOK
<1>7. TypeOK'
  <2>1. estimate' \in [EstimateIds -> Row' \cup {NoEstimate}]
    BY <1>1, <1>2, <1>3, <1>5, ReadingGrows DEF TypeOK
  <2>2. req' \in [Requests -> Reading' \cup {Idle}]
    BY <1>1, <1>2, <1>5, ReadingGrows DEF TypeOK
  <2>. QED  BY <1>1, <1>2, <2>1, <2>2 DEF TypeOK, Vouchers
<1>8. Origins'
  BY <1>1, <1>5, <1>6 DEF Origins
<1>9. SalesApart'
  BY <1>2, <1>4, <1>6, RowFields DEF SalesApart, Booked
<1>10. ReadingsSound'
  <2>. SUFFICES ASSUME NEW s \in Requests, (req[s] # Idle)'  PROVE ReadingOK(req[s])'
    BY DEF ReadingsSound
  <2>1. req'[s] = req[s] /\ ReadingOK(req[s]) /\ req[s].est \in EstimateIds
    BY <1>1, RequestFields DEF ReadingsSound
  <2>2. req[s].est # e /\ req[s].est \in Created
    BY <2>1, <1>6 DEF ReadingOK
  <2>3. req[s].op = "unlink" => req[s].reverted \subseteq EstimateIds \ {e}
    BY <2>1, <2>2 DEF ReadingOK, Stored
  <2>. QED  BY <1>1, <1>5, <1>6, <2>1, <2>2, <2>3 DEF ReadingOK, Booked
<1>11. BookedIsFinal'
  BY <1>1, <1>5, <1>6 DEF BookedIsFinal, Origins, Booked
<1>12. LinksAreSound'
  <2>. SUFFICES ASSUME NEW f \in Stored', estimate'[f].invoice # 0
                PROVE  estimate'[f].invoice \in InvoicesOf(f)'
    BY DEF LinksAreSound
  <2>1. f \in Stored /\ estimate'[f] = estimate[f]
    BY <1>4, <1>6 DEF Stored
  <2>. QED  BY <2>1, <1>1, <1>5 DEF LinksAreSound, InvoicesOf
<1>. QED  BY <1>7, <1>8, <1>9, <1>10, <1>11, <1>12

(* The estimate and its voucher go; advances stay, on account.               *)
LEMMA RemoveIInv ==
  ASSUME IInv, NEW r \in Requests, RemoveCommit(r)
  PROVE  IInv'
<1>. USE DEF IInv
<1>. DEFINE e == req[r].est
            v == req[r].voucher
            row == [estimate[e] EXCEPT !.status = "GONE"]
<1>1. /\ req[r].op = "remove" /\ req[r] # Idle /\ e \in Stored /\ ~ Locked(e)
      /\ estimate' = [estimate EXCEPT ![e] = row]
      /\ advances' = OnAccount(e)
      /\ vouchers' = IF v = 0 THEN vouchers ELSE [vouchers EXCEPT ![v].status = "GONE"]
      /\ req' = [req EXCEPT ![r] = Idle] /\ UNCHANGED <<invoices, voided, disturbed>>
  BY DEF RemoveCommit, End, Goto, Idle
<1>2. v \in VoucherIds \cup {0} /\ e \in EstimateIds
  BY <1>1, RequestFields
<1>3. /\ vouchers' \in Seq(Vouchers) /\ VoucherIds' = VoucherIds
      /\ \A w \in VoucherIds : vouchers'[w].type = vouchers[w].type
  BY <1>1, <1>2, VoucherMarked, Facts DEF VoucherIds
<1>4. row \in Row /\ row.voucher = estimate[e].voucher /\ row.status = "GONE"
  BY <1>1, Facts DEF Row
<1>. HIDE DEF row
<1>5. /\ InvoiceIds' = InvoiceIds /\ LiveInvoices' = LiveInvoices
      /\ \A f \in EstimateIds : InvoicesOf(f)' = InvoicesOf(f)
  BY <1>1 DEF InvoiceIds, LiveInvoices, InvoicesOf
<1>6. /\ estimate'[e] = row /\ \A f \in EstimateIds \ {e} : estimate'[f] = estimate[f]
      /\ Created' = Created /\ Stored' = Stored \ {e}
      /\ \A f \in EstimateIds : /\ estimate'[f].voucher = estimate[f].voucher
                                /\ Booked(f)' <=> Booked(f)
  BY <1>1, <1>2, <1>4 DEF Created, Stored, Booked, TypeOK
<1>7. TypeOK'
  <2>1. Reading' = Reading /\ Row' = Row
    BY <1>3, <1>5 DEF Reading, Row
  <2>2. advances' \subseteq [voucher : VoucherIds', estimate : EstimateIds \cup {None}]
    BY <1>1, <1>3 DEF OnAccount, TypeOK
  <2>. QED  BY <1>1, <1>3, <1>4, <2>1, <2>2 DEF TypeOK, Vouchers
<1>8. ReadingsSound'
  <2>. SUFFICES ASSUME NEW s \in Requests, (req[s] # Idle)'  PROVE ReadingOK(req[s])'
    BY DEF ReadingsSound
  <2>1. req'[s] = req[s] /\ ReadingOK(req[s]) /\ req[s].est \in EstimateIds
    BY <1>1, RequestFields DEF ReadingsSound, TypeOK
  <2>2. req[s].op = "unlink" => e \notin req[s].reverted
    BY <1>1 DEF Locked
  <2>3. req[s].op = "unlink" => req[s].reverted \subseteq Stored \ {e}
    BY <2>1, <2>2 DEF ReadingOK
  <2>4. req[s].op = "unlink" => \A f \in req[s].reverted : estimate'[f] = estimate[f]
    BY <2>3, <1>6 DEF Stored
  <2>. QED  BY <1>1, <1>5, <1>6, <2>1, <2>3, <2>4 DEF ReadingOK
<1>9. Origins' /\ BookedIsFinal'
  BY <1>1, <1>5, <1>6 DEF Origins, BookedIsFinal
<1>10. SalesApart'
  BY <1>3, <1>6, RowFields DEF SalesApart, Booked
<1>11. LinksAreSound'
  BY <1>5, <1>6 DEF LinksAreSound, Stored
<1>. QED  BY <1>7, <1>8, <1>9, <1>10, <1>11

(* Invoices change, by themselves or with the links to one that goes.        *)
LEMMA InvoiceFacts ==
  ASSUME TypeOK, NEW k \in InvoiceIds, NEW s \in {"ISSUED", "CANCELLED", "GONE"},
         invoices' = [invoices EXCEPT ![k].status = s]
  PROVE  /\ invoices' \in Seq(Invoices) /\ InvoiceIds' = InvoiceIds
         /\ \A j \in InvoiceIds : /\ invoices'[j].estimate = invoices[j].estimate
                                  /\ invoices'[j].bills = invoices[j].bills
         /\ \A j \in InvoiceIds \ {k} : invoices'[j] = invoices[j]
         /\ invoices'[k].status = s
<1>. DEFINE x == [invoices[k] EXCEPT !.status = s]
<1>1. invoices \in Seq(Invoices) /\ invoices[k] \in Invoices
  BY Facts
<1>2. x \in Invoices /\ x.estimate = invoices[k].estimate /\ x.bills = invoices[k].bills /\ x.status = s
  BY <1>1 DEF Invoices
<1>3. invoices' = [invoices EXCEPT ![k] = x]
  OBVIOUS
<1>. HIDE DEF x
<1>. QED  BY <1>1, <1>2, <1>3 DEF InvoiceIds

LEMMA InvoiceCancelIInv ==
  ASSUME IInv, NEW r \in Requests, NEW k \in InvoiceIds, InvoiceCancel(r, k)
  PROVE  IInv'
<1>. USE DEF IInv
<1>1. /\ invoices[k].status = "ISSUED"
      /\ invoices' = [invoices EXCEPT ![k].status = "CANCELLED"]
      /\ UNCHANGED <<estimate, vouchers, advances, req, voided, disturbed>>
  BY DEF InvoiceCancel
<1>2. /\ invoices' \in Seq(Invoices) /\ InvoiceIds' = InvoiceIds
      /\ \A j \in InvoiceIds : invoices'[j].estimate = invoices[j].estimate
      /\ \A j \in InvoiceIds \ {k} : invoices'[j] = invoices[j]
      /\ invoices'[k].status = "CANCELLED"
  BY <1>1, InvoiceFacts
<1>3. /\ LiveInvoices' = LiveInvoices /\ VoucherIds' = VoucherIds
      /\ Created' = Created /\ Stored' = Stored
  BY <1>1, <1>2 DEF LiveInvoices, InvoiceIds, VoucherIds, Created, Stored
<1>4. \A f \in EstimateIds : InvoicesOf(f)' = InvoicesOf(f)
  BY <1>2, <1>3 DEF InvoicesOf, LiveInvoices, InvoiceIds
<1>5. Reading' = Reading /\ Row' = Row
  BY <1>2, <1>3 DEF Reading, Row
<1>6. TypeOK'
  BY <1>1, <1>2, <1>3, <1>5 DEF TypeOK, Invoices
<1>7. ReadingsSound'
  <2>. SUFFICES ASSUME NEW s \in Requests, (req[s] # Idle)'  PROVE ReadingOK(req[s])'
    BY DEF ReadingsSound
  <2>1. /\ req'[s] = req[s] /\ ReadingOK(req[s])
        /\ req[s].op \in {"link", "unlink"} => req[s].invoice \in InvoiceIds
    BY <1>1, RequestFields DEF ReadingsSound
  <2>. QED  BY <1>1, <1>2, <1>3, <2>1 DEF ReadingOK, Booked
<1>8. (Origins /\ SalesApart /\ BookedIsFinal /\ LinksAreSound)'
  BY <1>1, <1>2, <1>3, <1>4 DEF Origins, SalesApart, BookedIsFinal, LinksAreSound, Booked, Stored
<1>. QED  BY <1>6, <1>7, <1>8

(* What an invoice takes over of an estimate.                                *)
LEMMA TakenOverTyped ==
  ASSUME NEW c \in Contents
  PROVE  TakenOver(c) \in Contents
BY DEF Contents, TakenOver

(* A conversion's invoice is the estimate's the request was made for.        *)
LEMMA ConvertIInv ==
  ASSUME IInv, NEW r \in Requests, ConvertInvoice(r)
  PROVE  IInv'
<1>. USE DEF IInv
<1>. DEFINE k == Len(invoices) + 1
            x == [estimate |-> req[r].est, bills |-> TakenOver(req[r].bills), status |-> "ISSUED"]
            q == [op |-> "link", est |-> req[r].est, invoice |-> k]
<1>1. /\ req[r].op = "convert" /\ req[r] # Idle
      /\ invoices' = Append(invoices, x) /\ req' = [req EXCEPT ![r] = q]
      /\ UNCHANGED <<estimate, vouchers, advances, voided, disturbed>>
  BY DEF ConvertInvoice, Goto, Idle
<1>2. /\ req[r].est \in Created /\ ~ Booked(req[r].est) /\ req[r].est \in EstimateIds
      /\ req[r].bills \in Contents
  BY <1>1, RequestFields DEF ReadingsSound, ReadingOK
<1>3. x \in Invoices /\ x.estimate = req[r].est /\ x.status = "ISSUED"
  BY <1>2, TakenOverTyped DEF Invoices
<1>4. invoices \in Seq(Invoices)
  BY Facts
<1>. HIDE DEF x
<1>5. /\ invoices' \in Seq(Invoices) /\ InvoiceIds' = InvoiceIds \cup {k} /\ k \notin InvoiceIds
      /\ \A j \in InvoiceIds : invoices'[j] = invoices[j]
      /\ invoices'[k] = x
  BY <1>1, <1>3, <1>4 DEF InvoiceIds
<1>. HIDE DEF k
<1>6. q \in Reading' /\ q.op = "link" /\ q.est = req[r].est /\ q.invoice = k
  BY <1>2, <1>5 DEF Reading
<1>. HIDE DEF q
<1>7. /\ VoucherIds' = VoucherIds /\ Created' = Created /\ Stored' = Stored
      /\ LiveInvoices \subseteq LiveInvoices' /\ LiveInvoices' \cap InvoiceIds = LiveInvoices
  BY <1>1, <1>5 DEF VoucherIds, Created, Stored, LiveInvoices, InvoiceIds
<1>8. Reading \subseteq Reading' /\ Row \subseteq Row'
  BY <1>5, <1>7, ReadingGrows
<1>9. TypeOK'
  <2>1. req' \in [Requests -> Reading' \cup {Idle}]
    BY <1>1, <1>6, <1>8 DEF TypeOK
  <2>2. estimate' \in [EstimateIds -> Row' \cup {NoEstimate}]
    BY <1>1, <1>8 DEF TypeOK
  <2>. QED  BY <1>1, <1>5, <1>7, <2>1, <2>2 DEF TypeOK, Invoices
<1>10. ReadingsSound'
  <2>. SUFFICES ASSUME NEW s \in Requests, (req[s] # Idle)'  PROVE ReadingOK(req[s])'
    BY DEF ReadingsSound
  <2>1. CASE s = r
    <3>1. req'[s] = q
      BY <2>1, <1>1 DEF TypeOK
    <3>. QED  BY <3>1, <1>1, <1>2, <1>3, <1>5, <1>6, <1>7 DEF ReadingOK, Booked
  <2>2. CASE s # r
    <3>1. /\ req'[s] = req[s] /\ ReadingOK(req[s])
          /\ req[s].op \in {"link", "unlink"} => req[s].invoice \in InvoiceIds
      BY <2>2, <1>1, RequestFields DEF ReadingsSound, TypeOK
    <3>2. PICK p : p = req[s]
      OBVIOUS
    <3>3. ReadingOK(p) /\ (p.op \in {"link", "unlink"} => p.invoice \in InvoiceIds)
      BY <3>1, <3>2
    <3>4. p.op = "unlink" /\ p.invoice \in LiveInvoices' => p.invoice \in LiveInvoices
      BY <3>3, <1>7
    <3>5. p.op \in {"link", "unlink"} => invoices'[p.invoice] = invoices[p.invoice]
      BY <3>3, <1>5
    <3>6. Booked(p.est)' <=> Booked(p.est)
      BY <1>1 DEF Booked
    <3>7. ReadingOK(p)'
      BY <3>3, <3>4, <3>5, <3>6, <1>1, <1>7 DEF ReadingOK
    <3>. QED  BY <3>1, <3>2, <3>7
  <2>. QED  BY <2>1, <2>2
<1>11. Origins'
  BY <1>2, <1>3, <1>5, <1>7 DEF Origins
<1>11a. SalesApart'
  BY <1>1 DEF SalesApart, Booked
<1>11b. BookedIsFinal'
  <2>. SUFFICES ASSUME NEW f \in EstimateIds, Booked(f)', NEW j \in InvoiceIds'
                PROVE  invoices'[j].estimate # f
    BY DEF BookedIsFinal
  <2>1. Booked(f)
    BY <1>1 DEF Booked
  <2>. QED  BY <2>1, <1>2, <1>3, <1>5 DEF BookedIsFinal
<1>12. LinksAreSound'
  BY <1>1, <1>5, <1>7 DEF LinksAreSound, InvoicesOf, LiveInvoices, InvoiceIds
<1>. QED  BY <1>9, <1>10, <1>11, <1>11a, <1>11b, <1>12

(* What the removal of an invoice does to the rows.                          *)
LEMMA InvoiceDeleteRows ==
  ASSUME IInv, NEW r \in Requests, InvoiceDelete(r)
  PROVE  /\ req[r].invoice \in InvoiceIds /\ req[r].reverted \subseteq Stored
         /\ \A f \in EstimateIds :
              /\ estimate'[f] \in Row \cup {NoEstimate}
              /\ estimate'[f].voucher = estimate[f].voucher
              /\ estimate'[f].bills = estimate[f].bills
              /\ estimate'[f].status = IF f \in req[r].reverted THEN "ACCEPTED" ELSE estimate[f].status
              /\ estimate'[f].invoice =
                   IF f \in req[r].reverted \/ estimate[f].invoice = req[r].invoice
                   THEN 0 ELSE estimate[f].invoice
<1>. USE DEF IInv
<1>. DEFINE k == req[r].invoice
            rev == req[r].reverted
<1>a. req[r].op = "unlink" /\ req[r] # Idle
  BY Busy DEF InvoiceDelete
<1>b. /\ estimate' = [f \in EstimateIds |->
           IF f \in rev THEN [estimate[f] EXCEPT !.invoice = 0, !.status = "ACCEPTED"]
           ELSE IF estimate[f].invoice = k THEN [estimate[f] EXCEPT !.invoice = 0]
           ELSE estimate[f]]
  BY DEF InvoiceDelete
<1>c. k \in InvoiceIds /\ rev \subseteq Stored
  BY <1>a, RequestFields DEF ReadingsSound, ReadingOK
<1>. SUFFICES ASSUME NEW f \in EstimateIds
              PROVE  /\ estimate'[f] \in Row \cup {NoEstimate}
                     /\ estimate'[f].voucher = estimate[f].voucher
                     /\ estimate'[f].bills = estimate[f].bills
                     /\ estimate'[f].status = IF f \in rev THEN "ACCEPTED" ELSE estimate[f].status
                     /\ estimate'[f].invoice = IF f \in rev \/ estimate[f].invoice = k
                                               THEN 0 ELSE estimate[f].invoice
  BY <1>c
<1>. HIDE DEF k, rev
<1>1. CASE f \in Created
  <2>1. PICK x \in Row : x = estimate[f]
    BY <1>1, Facts
  <2>2. x.invoice \in InvoiceIds \cup {0} /\ 0 \in InvoiceIds \cup {0}
    BY DEF Row
  <2>3. CASE f \in rev
    <3>1. [x EXCEPT !.invoice = 0, !.status = "ACCEPTED"] \in Row
      BY DEF Row, Settable
    <3>2. estimate'[f] = [x EXCEPT !.invoice = 0, !.status = "ACCEPTED"]
      BY <2>1, <2>3, <1>b
    <3>. QED  BY <2>1, <2>3, <3>1, <3>2 DEF Row, Rows
  <2>4. CASE f \notin rev /\ x.invoice = k
    <3>1. [x EXCEPT !.invoice = 0] \in Row
      BY DEF Row
    <3>2. estimate'[f] = [x EXCEPT !.invoice = 0]
      BY <2>1, <2>4, <1>b
    <3>. QED  BY <2>1, <2>4, <3>1, <3>2 DEF Row, Rows
  <2>5. CASE f \notin rev /\ x.invoice # k
    BY <2>1, <2>5, <1>b
  <2>. QED  BY <2>3, <2>4, <2>5
<1>2. CASE f \notin Created
  <2>1. f \notin rev /\ k # 0
    BY <1>2, <1>c, Facts, RowFields
  <2>2. estimate[f] = NoEstimate
    BY <1>2 DEF TypeOK, Row, Created, Settable
  <2>3. estimate[f].invoice # k
    BY <2>1, <2>2 DEF NoEstimate
  <2>4. estimate'[f] = estimate[f]
    BY <2>1, <2>3, <1>b
  <2>. QED  BY <2>1, <2>2, <2>3, <2>4 DEF NoEstimate, Rows
<1>. QED  BY <1>1, <1>2

(* A removal of an invoice reverts the estimates it has locked and takes every
   other link with it. *)
LEMMA InvoiceDeleteIInv ==
  ASSUME IInv, NEW r \in Requests, InvoiceDelete(r)
  PROVE  IInv'
<1>. USE DEF IInv
<1>. DEFINE k == req[r].invoice
            rev == req[r].reverted
<1>0. /\ req[r].op = "unlink" /\ k \in LiveInvoices
      /\ invoices' = [invoices EXCEPT ![k].status = "GONE"]
      /\ req' = [req EXCEPT ![r] = Idle]
      /\ UNCHANGED <<vouchers, advances, voided, disturbed>>
  BY DEF InvoiceDelete, End, Goto
<1>1. req[r] # Idle
  BY <1>0, Busy
<1>2. /\ estimate' = [f \in EstimateIds |->
           IF f \in rev THEN [estimate[f] EXCEPT !.invoice = 0, !.status = "ACCEPTED"]
           ELSE IF estimate[f].invoice = k THEN [estimate[f] EXCEPT !.invoice = 0]
           ELSE estimate[f]]
  BY DEF InvoiceDelete
<1>3. k \in InvoiceIds /\ rev \subseteq Stored
  BY <1>0, <1>1, RequestFields DEF ReadingsSound, ReadingOK
<1>4. /\ invoices' \in Seq(Invoices) /\ InvoiceIds' = InvoiceIds
      /\ \A j \in InvoiceIds : invoices'[j].estimate = invoices[j].estimate
      /\ \A j \in InvoiceIds \ {k} : invoices'[j] = invoices[j]
      /\ invoices'[k].status = "GONE"
  BY <1>0, <1>1, <1>3, InvoiceFacts
<1>5. VoucherIds' = VoucherIds /\ LiveInvoices' = LiveInvoices \ {k}
  BY <1>0, <1>1, <1>3, <1>4 DEF VoucherIds, LiveInvoices, InvoiceIds
<1>. HIDE DEF k, rev
<1>6. Reading' = Reading /\ Row' = Row
  BY <1>4, <1>5 DEF Reading, Row
<1>7. \A f \in EstimateIds :
        /\ estimate'[f] \in Row \cup {NoEstimate}
        /\ estimate'[f].voucher = estimate[f].voucher
        /\ estimate'[f].status = IF f \in rev THEN "ACCEPTED" ELSE estimate[f].status
        /\ estimate'[f].invoice = IF f \in rev \/ estimate[f].invoice = k THEN 0 ELSE estimate[f].invoice
  BY InvoiceDeleteRows DEF k, rev
<1>8. /\ Created' = Created /\ Stored' = Stored
      /\ \A f \in EstimateIds : Booked(f)' <=> Booked(f)
  BY <1>3, <1>7 DEF Created, Stored, Booked
<1>9. TypeOK'
  <2>1. estimate' \in [EstimateIds -> Row' \cup {NoEstimate}]
    BY <1>2, <1>6, <1>7
  <2>2. req' \in [Requests -> Reading' \cup {Idle}]
    BY <1>0, <1>1, <1>6 DEF TypeOK
  <2>. QED  BY <1>0, <1>1, <1>4, <1>5, <2>1, <2>2 DEF TypeOK, Invoices
<1>10. ReadingsSound'
  <2>. SUFFICES ASSUME NEW s \in Requests, (req[s] # Idle)'  PROVE ReadingOK(req[s])'
    BY DEF ReadingsSound
  <2>1. /\ req'[s] = req[s] /\ ReadingOK(req[s]) /\ req[s].est \in EstimateIds
        /\ req[s].op \in {"link", "unlink"} => req[s].invoice \in InvoiceIds
    BY <1>0, <1>1, RequestFields DEF ReadingsSound, TypeOK
  <2>2. ASSUME req[s].op = "unlink", req[s].invoice \in LiveInvoices', NEW f \in req[s].reverted
        PROVE  estimate'[f].invoice = req[s].invoice
    <3>1. f \in EstimateIds /\ estimate[f].invoice = req[s].invoice /\ req[s].invoice # k /\ f = req[s].est
      BY <2>1, <2>2, <1>5 DEF ReadingOK, Stored
    <3>2. f \notin rev
      <4>1. ASSUME f \in rev  PROVE estimate[f].invoice = k
        BY <4>1, <1>0, <1>1 DEF ReadingsSound, ReadingOK, rev, k
      <4>. QED  BY <4>1, <3>1
    <3>. QED  BY <3>1, <3>2, <1>7
  <2>. QED  BY <1>4, <1>7, <1>8, <2>1, <2>2 DEF ReadingOK
<1>11. Origins' /\ BookedIsFinal'
  BY <1>4, <1>8 DEF Origins, BookedIsFinal
<1>12. SalesApart'
  BY <1>0, <1>1, <1>7, <1>8 DEF SalesApart
<1>13. LinksAreSound'
  <2>. SUFFICES ASSUME NEW f \in Stored', estimate'[f].invoice # 0
                PROVE  estimate'[f].invoice \in InvoicesOf(f)'
    BY DEF LinksAreSound
  <2>1. f \in Stored /\ f \in EstimateIds /\ estimate'[f].invoice = estimate[f].invoice
        /\ estimate[f].invoice # k /\ estimate[f].invoice # 0
    BY <1>7, <1>8 DEF Stored
  <2>2. estimate[f].invoice \in LiveInvoices /\ invoices[estimate[f].invoice].estimate = f
    BY <2>1 DEF LinksAreSound, InvoicesOf
  <2>. QED  BY <2>1, <2>2, <1>4, <1>5 DEF InvoicesOf, LiveInvoices, InvoiceIds
<1>. QED  BY <1>9, <1>10, <1>11, <1>12, <1>13

LEMMA Inductive == IInv /\ [Next]_vars => IInv'
<1>. SUFFICES ASSUME IInv, [Next]_vars  PROVE IInv'
  OBVIOUS
<1>. USE DEF IInv
<1>1. ASSUME NEW r \in Requests, NEW e \in EstimateIds, NEW t \in Contents, UpdateRead(r, e, t)
      PROVE  IInv'
  <2>. DEFINE q == [op |-> "update", est |-> e, bills |-> t]
  <2>1. /\ e \in Stored /\ Begin(r, q) /\ UNCHANGED tables
    BY <1>1 DEF UpdateRead
  <2>2. q \in Reading /\ ReadingOK(q)
    BY <2>1, Facts DEF Reading, ReadingOK
  <2>. HIDE DEF q
  <2>. QED  BY <2>1, <2>2, BeginFacts, Quiet
<1>2. ASSUME NEW r \in Requests, NEW e \in EstimateIds, NEW s \in Settable, StatusRead(r, e, s)
      PROVE  IInv'
  <2>. DEFINE q == [op |-> "status", est |-> e, status |-> s]
  <2>1. /\ e \in Stored /\ Begin(r, q) /\ UNCHANGED tables
    BY <1>2 DEF StatusRead
  <2>2. q \in Reading /\ ReadingOK(q)
    BY <2>1, Facts DEF Reading, ReadingOK
  <2>. HIDE DEF q
  <2>. QED  BY <2>1, <2>2, BeginFacts, Quiet
<1>3. ASSUME NEW r \in Requests, NEW e \in EstimateIds, CancelRead(r, e)
      PROVE  IInv'
  <2>1. PICK v \in VoucherIds \cup {0} : v = estimate[e].voucher
    BY RowFields
  <2>2. PICK op \in {"count", "cancel"} : op = IF Booked(e) THEN "count" ELSE "cancel"
    OBVIOUS
  <2>. DEFINE q == [op |-> op, est |-> e, voucher |-> v]
  <2>3. /\ e \in Stored /\ Begin(r, q) /\ UNCHANGED tables
    BY <1>3, <2>1, <2>2 DEF CancelRead
  <2>4. q \in Reading /\ ReadingOK(q)
    BY <2>1, <2>2, <2>3, Facts DEF Reading, ReadingOK
  <2>. HIDE DEF q
  <2>. QED  BY <2>3, <2>4, BeginFacts, Quiet
<1>4. ASSUME NEW r \in Requests, NEW e \in EstimateIds, RemoveRead(r, e)
      PROVE  IInv'
  <2>1. PICK v \in VoucherIds \cup {0} : v = estimate[e].voucher
    BY RowFields
  <2>. DEFINE q == [op |-> "remove", est |-> e, voucher |-> v]
  <2>2. /\ e \in Stored /\ Begin(r, q) /\ UNCHANGED tables
    BY <1>4, <2>1 DEF RemoveRead
  <2>3. q \in Reading /\ ReadingOK(q)
    BY <2>1, <2>2, Facts DEF Reading, ReadingOK
  <2>. HIDE DEF q
  <2>. QED  BY <2>2, <2>3, BeginFacts, Quiet
<1>5. ASSUME NEW r \in Requests, NEW e \in EstimateIds, ConvertRead(r, e)
      PROVE  IInv'
  <2>1. /\ e \in Created /\ estimate[e].bills \in Contents /\ ~ Booked(e)
    BY <1>5, RowFields DEF ConvertRead, Created
  <2>2. PICK t \in Contents : t = estimate[e].bills
    BY <2>1
  <2>. DEFINE q == [op |-> "convert", est |-> e, bills |-> t]
  <2>3. /\ Begin(r, q) /\ UNCHANGED tables
    BY <1>5, <2>2 DEF ConvertRead
  <2>4. q \in Reading /\ ReadingOK(q)
    BY <2>1 DEF Reading, ReadingOK
  <2>. HIDE DEF q
  <2>. QED  BY <2>3, <2>4, BeginFacts, Quiet
<1>6. ASSUME NEW r \in Requests, NEW e \in EstimateIds, AdvanceRead(r, e)
      PROVE  IInv'
  <2>. DEFINE q == [op |-> "advance", est |-> e]
  <2>1. /\ e \in Stored /\ Begin(r, q) /\ UNCHANGED tables
    BY <1>6 DEF AdvanceRead
  <2>2. q \in Reading /\ ReadingOK(q)
    BY <2>1, Facts DEF Reading, ReadingOK
  <2>. HIDE DEF q
  <2>. QED  BY <2>1, <2>2, BeginFacts, Quiet
<1>7. ASSUME NEW r \in Requests, NEW k \in InvoiceIds, InvoiceUnlink(r, k)
      PROVE  IInv'
  <2>1. PICK linked \in SUBSET EstimateIds : linked = {e \in Stored : estimate[e].invoice = k}
    BY DEF Stored
  <2>2. PICK f \in EstimateIds : f = invoices[k].estimate
    BY Facts DEF Invoices
  <2>. DEFINE q == [op |-> "unlink", est |-> f, invoice |-> k, reverted |-> linked]
  <2>3. /\ k \in LiveInvoices /\ Begin(r, q) /\ UNCHANGED tables
    BY <1>7, <2>1, <2>2 DEF InvoiceUnlink
  <2>4. linked \subseteq Stored \cap {f}
    BY <2>1, <2>2, RowFields DEF LinksAreSound, InvoicesOf, Stored
  <2>5. q \in Reading /\ ReadingOK(q)
    BY <2>1, <2>2, <2>4 DEF Reading, ReadingOK, Origins
  <2>. HIDE DEF q
  <2>. QED  BY <2>3, <2>5, BeginFacts, Quiet
<1>8. ASSUME NEW r \in Requests, UpdateCommit(r)
      PROVE  IInv'
  <2>1. /\ req[r].op = "update" /\ req[r].est \in Stored /\ ~ Locked(req[r].est)
        /\ req' = [req EXCEPT ![r] = Idle] /\ UNCHANGED <<invoices, vouchers, advances, voided, disturbed>>
    BY <1>8 DEF UpdateCommit, End, Goto
  <2>2. PICK e \in Stored : e = req[r].est
    BY <2>1
  <2>3. PICK t \in Contents : t = req[r].bills
    BY <2>1, Busy, RequestFields
  <2>4. PICK old \in Row : old = estimate[e]
    BY Facts
  <2>. DEFINE row == [old EXCEPT !.bills = t]
  <2>5. row \in Row /\ row.voucher = old.voucher /\ row.status = old.status /\ row.invoice = old.invoice
    BY DEF Row
  <2>6. estimate' = [estimate EXCEPT ![e] = row]
    BY <1>8, <2>2, <2>3, <2>4 DEF UpdateCommit
  <2>. HIDE DEF row
  <2>7. row.status # "GONE"
    BY <2>4, <2>5 DEF Stored
  <2>8. disturbed' \subseteq EstimateIds
    BY <2>1 DEF TypeOK
  <2>. QED  BY <2>1, <2>2, <2>4, <2>5, <2>6, <2>7, <2>8, RowWritten
<1>9. ASSUME NEW r \in Requests, StatusCommit(r)
      PROVE  IInv'
  <2>1. /\ req[r].op = "status" /\ req[r].est \in Stored /\ ~ Locked(req[r].est)
        /\ req' = [req EXCEPT ![r] = Idle] /\ UNCHANGED <<invoices, vouchers, advances, voided, disturbed>>
    BY <1>9 DEF StatusCommit, End, Goto
  <2>2. PICK e \in Stored : e = req[r].est
    BY <2>1
  <2>3. PICK s \in Settable : s = req[r].status
    BY <2>1, Busy, RequestFields
  <2>4. PICK old \in Row : old = estimate[e]
    BY Facts
  <2>. DEFINE row == [old EXCEPT !.status = s]
  <2>5. row \in Row /\ row.voucher = old.voucher /\ row.status # "GONE" /\ row.invoice = old.invoice
    BY DEF Row, Settable
  <2>6. estimate' = [estimate EXCEPT ![e] = row]
    BY <1>9, <2>2, <2>3, <2>4 DEF StatusCommit
  <2>. HIDE DEF row
  <2>7. disturbed' \subseteq EstimateIds
    BY <2>1 DEF TypeOK
  <2>. QED  BY <2>1, <2>2, <2>4, <2>5, <2>6, <2>7, RowWritten
<1>10. ASSUME NEW r \in Requests, CancelCount(r)
      PROVE  IInv'
  <2>1. /\ req[r].op = "count" /\ UNCHANGED tables /\ UNCHANGED <<voided, disturbed>>
        /\ req' = [req EXCEPT ![r] = [req[r] EXCEPT !.op = "cancel"]]
    BY <1>10 DEF CancelCount, Goto
  <2>2. req[r] # Idle /\ req[r] \in Reading /\ ReadingOK(req[r])
    BY <2>1, Busy, RequestFields DEF ReadingsSound
  <2>3. PICK q : q = [req[r] EXCEPT !.op = "cancel"]
    OBVIOUS
  <2>4. /\ q.est = req[r].est /\ q.voucher = req[r].voucher /\ q.op = "cancel"
        /\ q \in Reading
    BY <2>1, <2>2, <2>3 DEF Reading
  <2>5. ReadingOK(q)
    BY <2>1, <2>2, <2>4 DEF ReadingOK
  <2>6. disturbed' \subseteq EstimateIds
    BY <2>1 DEF TypeOK
  <2>. QED  BY <2>1, <2>3, <2>4, <2>5, <2>6, Quiet
<1>11. ASSUME NEW r \in Requests, CancelWrite(r)
      PROVE  IInv'
  <2>1. /\ req[r].op = "cancel" /\ req[r].est \in Stored /\ ~ Locked(req[r].est)
        /\ req' = [req EXCEPT ![r] = IF req[r].voucher = 0 THEN Idle ELSE [req[r] EXCEPT !.op = "void"]]
        /\ UNCHANGED <<invoices, vouchers, advances, voided, disturbed>>
    BY <1>11 DEF CancelWrite, Goto
  <2>2. PICK e \in Stored : e = req[r].est
    BY <2>1
  <2>3. PICK q : q = IF req[r].voucher = 0 THEN Idle ELSE [req[r] EXCEPT !.op = "void"]
    OBVIOUS
  <2>4. req[r] # Idle /\ req[r] \in Reading /\ ReadingOK(req[r])
    BY <2>1, Busy, RequestFields DEF ReadingsSound
  <2>5. /\ q \in Reading \cup {Idle}
        /\ q # Idle => q.op = "void" /\ q.est = req[r].est /\ q.voucher = req[r].voucher
    BY <2>1, <2>3, <2>4 DEF Reading
  <2>6. q # Idle => ReadingOK(q)
    BY <2>1, <2>4, <2>5 DEF ReadingOK
  <2>7. PICK old \in Row : old = estimate[e]
    BY Facts
  <2>. DEFINE row == [old EXCEPT !.status = "CANCELLED"]
  <2>8. row \in Row /\ row.voucher = old.voucher /\ row.status # "GONE" /\ row.invoice = old.invoice
    BY DEF Row
  <2>9. estimate' = [estimate EXCEPT ![e] = row]
    BY <1>11, <2>2, <2>7 DEF CancelWrite
  <2>. HIDE DEF row
  <2>10. disturbed' \subseteq EstimateIds
    BY <2>1 DEF TypeOK
  <2>. QED  BY <2>1, <2>2, <2>3, <2>5, <2>6, <2>7, <2>8, <2>9, <2>10, RowWritten
<1>12. ASSUME NEW r \in Requests, ConvertLink(r)
      PROVE  IInv'
  <2>1. /\ req[r].op = "link" /\ req[r].est \in Stored /\ ~ Locked(req[r].est)
        /\ req[r].invoice \in LiveInvoices
        /\ req' = [req EXCEPT ![r] = Idle] /\ UNCHANGED <<invoices, vouchers, advances, voided, disturbed>>
    BY <1>12 DEF ConvertLink, End, Goto
  <2>2. PICK e \in Stored : e = req[r].est
    BY <2>1
  <2>3. PICK k \in InvoiceIds : k = req[r].invoice
    BY <2>1, Busy, RequestFields
  <2>4. PICK old \in Row : old = estimate[e]
    BY Facts
  <2>. DEFINE row == [old EXCEPT !.invoice = k, !.status = "CONVERTED"]
  <2>5. row \in Row /\ row.voucher = old.voucher /\ row.status # "GONE" /\ row.invoice = k
    BY DEF Row
  <2>6. k \in InvoicesOf(e)
    BY <2>1, <2>2, <2>3, Busy DEF InvoicesOf, ReadingsSound, ReadingOK
  <2>7. estimate' = [estimate EXCEPT ![e] = row]
    BY <1>12, <2>2, <2>3, <2>4, Facts DEF ConvertLink, TypeOK
  <2>. HIDE DEF row
  <2>8. disturbed' \subseteq EstimateIds
    BY <2>1 DEF TypeOK
  <2>. QED  BY <2>1, <2>2, <2>4, <2>5, <2>6, <2>7, <2>8, RowWritten
<1>13. ASSUME NEW r \in Requests, CancelVoid(r)
      PROVE  IInv'
  <2>1. /\ req[r].op = "void"
        /\ vouchers' = [vouchers EXCEPT ![req[r].voucher].status = IF @ = "ACTIVE" THEN "CANCELLED" ELSE @]
        /\ req' = [req EXCEPT ![r] = Idle] /\ UNCHANGED <<estimate, invoices, advances, voided, disturbed>>
    BY <1>13 DEF CancelVoid, End, Goto
  <2>2. PICK v \in VoucherIds : v = req[r].voucher
    BY <2>1, Busy, RequestFields
  <2>3. PICK s \in {"ACTIVE", "CANCELLED", "GONE"} :
          s = IF vouchers[v].status = "ACTIVE" THEN "CANCELLED" ELSE vouchers[v].status
    BY Facts DEF Vouchers
  <2>4. vouchers' = [vouchers EXCEPT ![v].status = s]
    BY <2>1, <2>2, <2>3
  <2>5. /\ vouchers' \in Seq(Vouchers) /\ VoucherIds' = VoucherIds
        /\ \A w \in VoucherIds : vouchers'[w].type = vouchers[w].type
    BY <2>4, VoucherMarked
  <2>. QED  BY <2>1, <2>5, VouchersChanged DEF TypeOK
<1>14. ASSUME NEW r \in Requests, NEW a \in advances, AdvanceDelete(r, a)
      PROVE  IInv'
  <2>1. /\ vouchers' = [vouchers EXCEPT ![a.voucher].status = "CANCELLED"]
        /\ advances' = advances \ {a} /\ UNCHANGED <<estimate, invoices, req, voided, disturbed>>
    BY <1>14 DEF AdvanceDelete
  <2>2. PICK v \in VoucherIds : v = a.voucher
    BY DEF TypeOK
  <2>3. /\ vouchers' \in Seq(Vouchers) /\ VoucherIds' = VoucherIds
        /\ \A w \in VoucherIds : vouchers'[w].type = vouchers[w].type
    BY <2>1, <2>2, VoucherMarked
  <2>. QED  BY <2>1, <2>3, VouchersChanged DEF TypeOK
<1>15. ASSUME NEW r \in Requests, NEW v \in VoucherIds, VoucherCancel(r, v)
      PROVE  IInv'
  <2>1. /\ vouchers' = [vouchers EXCEPT ![v].status = "CANCELLED"]
        /\ disturbed' = disturbed \cup {e \in EstimateIds : estimate[e].voucher = v}
        /\ voided' = voided \cup {v}
        /\ UNCHANGED <<estimate, invoices, advances, req>>
    BY <1>15 DEF VoucherCancel
  <2>2. /\ vouchers' \in Seq(Vouchers) /\ VoucherIds' = VoucherIds
        /\ \A w \in VoucherIds : vouchers'[w].type = vouchers[w].type
    BY <2>1, VoucherMarked
  <2>. QED  BY <2>1, <2>2, VouchersChanged DEF TypeOK
<1>16. ASSUME NEW r \in Requests, AdvanceCommit(r)
      PROVE  IInv'
  <2>1. /\ req[r].op = "advance" /\ req[r].est \in Stored /\ Post("RECEIPT")
        /\ advances' = advances \cup {[voucher |-> NewVoucher, estimate |-> req[r].est]}
        /\ req' = [req EXCEPT ![r] = Idle] /\ UNCHANGED <<estimate, invoices, voided, disturbed>>
    BY <1>16 DEF AdvanceCommit, End, Goto
  <2>2. /\ vouchers' \in Seq(Vouchers) /\ VoucherIds' = VoucherIds \cup {NewVoucher}
        /\ \A w \in VoucherIds : vouchers'[w] = vouchers[w]
    BY <2>1, PostFacts
  <2>3. advances' \subseteq [voucher : VoucherIds', estimate : EstimateIds \cup {None}]
    BY <2>1, <2>2, Facts DEF TypeOK
  <2>. QED  BY <2>1, <2>2, <2>3, VouchersChanged DEF TypeOK
<1>17. ASSUME NEW r \in Requests, Abandon(r)
      PROVE  IInv'
  <2>1. disturbed' \subseteq EstimateIds
    BY <1>17, RequestFields DEF Abandon, TypeOK
  <2>. QED  BY <1>17, <2>1, Quiet DEF Abandon
<1>18. CASE UNCHANGED vars
  BY <1>18 DEF vars, TypeOK, Origins, SalesApart, ReadingsSound, ReadingOK, BookedIsFinal, LinksAreSound,
     Booked, InvoicesOf, LiveInvoices, Created, Stored, VoucherIds, InvoiceIds, Row, Reading
<1>. QED
  BY <1>1, <1>2, <1>3, <1>4, <1>5, <1>6, <1>7, <1>8, <1>9, <1>10, <1>11, <1>12, <1>13, <1>14, <1>15,
     <1>16, <1>17, <1>18, CreateIInv, RemoveIInv, InvoiceCancelIInv, ConvertIInv, InvoiceDeleteIInv
  DEF Next, VoucherIds, InvoiceIds

(* In every state the system reaches, the invariant holds that the theorems
   below read their properties from. *)
LEMMA Invariance == Spec => []IInv
<1>1. Init => IInv
  BY InitIInv
<1>2. IInv /\ [Next]_vars => IInv'
  BY Inductive
<1>. QED  BY <1>1, <1>2, PTL DEF Spec

(* Estimates, advances and requests refer to vouchers and invoices that were
   created. *)
THEOREM TypeCorrect == Spec => []TypeOK
<1>1. IInv => TypeOK
  BY DEF IInv
<1>. QED  BY <1>1, Invariance, PTL

(* No invoice is ever made from an estimate booked as a bill: the handlers read
   whether it is booked long before they write, but that never changes. *)
THEOREM BookedStaysFinal == Spec => []BookedIsFinal
<1>1. IInv => BookedIsFinal
  BY DEF IInv
<1>. QED  BY <1>1, Invariance, PTL

(* A link leads to an invoice that exists and was made from this estimate: the
   removal of an invoice locks the rows it reverts, and the foreign key takes the
   links made since. *)
THEOREM LinksStaySound == Spec => []LinksAreSound
<1>1. IInv => LinksAreSound
  BY DEF IInv
<1>. QED  BY <1>1, Invariance, PTL

-----------------------------------------------------------------------------
(* What is in the books: vouchers of estimates and of advances.              *)
Receipts == RemovedLeavesNoSale /\ AdvancesStayInBooks

(* Steps that change rows, and neither vouchers nor advances.                *)
LEMMA RowsKeep ==
  ASSUME IInv, NEW r \in Requests,
         UpdateCommit(r) \/ StatusCommit(r) \/ CancelWrite(r) \/ ConvertLink(r) \/ InvoiceDelete(r)
  PROVE  /\ UNCHANGED <<vouchers, advances, voided>>
         /\ \A f \in EstimateIds :
              /\ estimate'[f].voucher = estimate[f].voucher
              /\ estimate'[f].status = "GONE" => estimate[f].status = "GONE"
<1>. USE DEF IInv
<1>1. CASE InvoiceDelete(r)
  <2>1. UNCHANGED <<vouchers, advances, voided>>
    BY <1>1 DEF InvoiceDelete, End, Goto
  <2>2. \A f \in EstimateIds : /\ estimate'[f].voucher = estimate[f].voucher
                               /\ estimate'[f].status = "GONE" => estimate[f].status = "GONE"
    BY <1>1, InvoiceDeleteRows
  <2>. QED  BY <2>1, <2>2
<1>2. ASSUME UpdateCommit(r) \/ StatusCommit(r) \/ CancelWrite(r) \/ ConvertLink(r)
      PROVE  \A f \in EstimateIds :
              /\ estimate'[f].voucher = estimate[f].voucher
              /\ estimate'[f].status = "GONE" => estimate[f].status = "GONE"
  <2>1. PICK e \in Stored : e = req[r].est
    BY <1>2 DEF UpdateCommit, StatusCommit, CancelWrite, ConvertLink
  <2>2. PICK old \in Row : old = estimate[e]
    BY Facts
  <2>3. old.status # "GONE" /\ e \in EstimateIds /\ estimate \in [EstimateIds -> Row \cup {NoEstimate}]
    BY <2>2 DEF Stored, TypeOK
  <2>4. PICK t : t = req[r].bills
    OBVIOUS
  <2>5. PICK k : k = req[r].invoice
    OBVIOUS
  <2>6. PICK s : s = req[r].status
    OBVIOUS
  <2>7. CASE UpdateCommit(r)
    <3>1. estimate' = [estimate EXCEPT ![e] = [old EXCEPT !.bills = t]]
      BY <2>1, <2>2, <2>4, <2>7 DEF UpdateCommit
    <3>. QED  BY <3>1, <2>2, <2>3 DEF Row
  <2>8. CASE StatusCommit(r)
    <3>1. estimate' = [estimate EXCEPT ![e] = [old EXCEPT !.status = s]]
      BY <2>1, <2>2, <2>6, <2>8 DEF StatusCommit
    <3>2. s \in Settable
      BY <2>6, <2>8, Busy, RequestFields DEF StatusCommit
    <3>. QED  BY <3>1, <3>2, <2>2, <2>3 DEF Row, Settable
  <2>9. CASE CancelWrite(r)
    <3>1. estimate' = [estimate EXCEPT ![e] = [old EXCEPT !.status = "CANCELLED"]]
      BY <2>1, <2>2, <2>9 DEF CancelWrite
    <3>. QED  BY <3>1, <2>2, <2>3 DEF Row
  <2>10. CASE ConvertLink(r)
    <3>1. estimate' = [estimate EXCEPT ![e] = [old EXCEPT !.invoice = k, !.status = "CONVERTED"]]
      BY <2>1, <2>2, <2>3, <2>5, <2>10 DEF ConvertLink
    <3>. QED  BY <3>1, <2>2, <2>3 DEF Row
  <2>. QED  BY <1>2, <2>7, <2>8, <2>9, <2>10
<1>3. ASSUME UpdateCommit(r) \/ StatusCommit(r) \/ CancelWrite(r) \/ ConvertLink(r)
      PROVE  UNCHANGED <<vouchers, advances, voided>>
  BY <1>3 DEF UpdateCommit, StatusCommit, CancelWrite, ConvertLink, End, Goto
<1>. QED  BY <1>1, <1>2, <1>3

LEMMA ReceiptsKept ==
  ASSUME IInv, Receipts, UNCHANGED <<vouchers, advances, voided>>,
         \A f \in EstimateIds : /\ estimate'[f].voucher = estimate[f].voucher
                                /\ estimate'[f].status = "GONE" => estimate[f].status = "GONE"
  PROVE  Receipts'
<1>1. RemovedLeavesNoSale'
  BY DEF Receipts, RemovedLeavesNoSale, Booked
<1>2. AdvancesStayInBooks'
  BY DEF Receipts, AdvancesStayInBooks, VoucherIds
<1>. QED  BY <1>1, <1>2 DEF Receipts

(* A voucher is marked: at the accounting endpoint, or a sale by its estimate; and
   none that is gone is marked again. *)
LEMMA ReceiptMarked ==
  ASSUME IInv, Receipts, NEW v \in VoucherIds, NEW s \in {"ACTIVE", "CANCELLED", "GONE"},
         vouchers' = [vouchers EXCEPT ![v].status = s], UNCHANGED <<estimate, advances>>,
         s # "ACTIVE", s = "GONE" <=> vouchers[v].status = "GONE",
         voided' = voided \cup {v} \/ (vouchers[v].type = "SALES" /\ voided' = voided)
  PROVE  Receipts'
<1>. USE DEF IInv
<1>1. /\ VoucherIds' = VoucherIds /\ vouchers'[v].status = s
      /\ \A w \in VoucherIds : vouchers'[w].type = vouchers[w].type
      /\ \A w \in VoucherIds \ {v} : vouchers'[w] = vouchers[w]
  BY VoucherMarked
<1>2. \A w \in VoucherIds : /\ vouchers'[w].status = "ACTIVE" => vouchers[w].status = "ACTIVE"
                            /\ vouchers'[w].status = "GONE" <=> vouchers[w].status = "GONE"
  BY <1>1
<1>3. RemovedLeavesNoSale'
  BY <1>2, RowFields DEF Receipts, RemovedLeavesNoSale, Booked
<1>4. AdvancesStayInBooks'
  <2>1. \A a \in advances : a.voucher \in VoucherIds
    BY DEF TypeOK
  <2>2. \A w \in VoucherIds' \ voided' : vouchers'[w].type = "RECEIPT" =>
          vouchers'[w] = vouchers[w] /\ vouchers[w].type = "RECEIPT" /\ w \in VoucherIds \ voided
    BY <1>1
  <2>3. \A w \in voided' : vouchers'[w].status # "ACTIVE"
    BY <1>1 DEF Receipts, AdvancesStayInBooks, TypeOK
  <2>4. \A a \in advances : vouchers'[a.voucher].type = "RECEIPT" /\ vouchers'[a.voucher].status # "GONE"
    BY <1>1, <1>2, <2>1 DEF Receipts, AdvancesStayInBooks
  <2>. QED  BY <2>2, <2>3, <2>4 DEF Receipts, AdvancesStayInBooks
<1>. QED  BY <1>3, <1>4 DEF Receipts

LEMMA ReceiptsInductive == IInv /\ Receipts /\ [Next]_vars => Receipts'
<1>. SUFFICES ASSUME IInv, Receipts, [Next]_vars  PROVE Receipts'
  OBVIOUS
<1>. USE DEF IInv
<1>0. \A a \in advances : a.voucher \in VoucherIds
  BY DEF TypeOK
<1>1. CASE UNCHANGED <<estimate, vouchers, advances, voided>>
  BY <1>1, ReceiptsKept
<1>2. ASSUME NEW r \in Requests, NEW e \in EstimateIds, NEW t \in Contents, NEW b \in BOOLEAN,
             Create(r, e, t, b)
      PROVE  Receipts'
  <2>. DEFINE row == [status |-> "OPEN", bills |-> t, invoice |-> 0, voucher |-> IF b THEN NewVoucher ELSE 0]
  <2>1. estimate' = [estimate EXCEPT ![e] = row] /\ UNCHANGED advances
    BY <1>2 DEF Create
  <2>2. row.status = "OPEN"
    OBVIOUS
  <2>3. CASE b
    <3>1. Post("SALES")
      BY <1>2, <2>3 DEF Create
    <3>2. /\ VoucherIds' = VoucherIds \cup {NewVoucher} /\ NewVoucher \notin VoucherIds
          /\ \A v \in VoucherIds : vouchers'[v] = vouchers[v]
          /\ vouchers'[NewVoucher].type = "SALES"
      BY <3>1, PostFacts
    <3>. HIDE DEF row
    <3>3. RemovedLeavesNoSale'
      <4>. SUFFICES ASSUME NEW f \in EstimateIds, estimate'[f].status = "GONE", estimate'[f].voucher # 0
                    PROVE  vouchers'[estimate'[f].voucher].status = "GONE"
        BY DEF RemovedLeavesNoSale, Booked
      <4>1. estimate'[f] = estimate[f]
        BY <2>1, <2>2 DEF TypeOK
      <4>2. estimate[f].voucher \in VoucherIds
        BY <4>1, RowFields
      <4>. QED  BY <4>1, <4>2, <3>2 DEF Receipts, RemovedLeavesNoSale, Booked
    <3>4. voided \subseteq VoucherIds /\ UNCHANGED voided
      BY <1>2 DEF TypeOK, Create
    <3>5. AdvancesStayInBooks'
      BY <2>1, <3>2, <3>4, <1>0 DEF Receipts, AdvancesStayInBooks
    <3>. QED  BY <3>3, <3>5 DEF Receipts
  <2>4. CASE ~ b
    <3>1. UNCHANGED vouchers
      BY <1>2, <2>4 DEF Create
    <3>2. row.voucher = 0
      BY <2>4
    <3>. HIDE DEF row
    <3>3. RemovedLeavesNoSale'
      <4>. SUFFICES ASSUME NEW f \in EstimateIds, estimate'[f].status = "GONE", estimate'[f].voucher # 0
                    PROVE  vouchers'[estimate'[f].voucher].status = "GONE"
        BY DEF RemovedLeavesNoSale, Booked
      <4>1. estimate'[f] = estimate[f]
        BY <2>1, <2>2 DEF TypeOK
      <4>. QED  BY <4>1, <3>1 DEF Receipts, RemovedLeavesNoSale, Booked
    <3>4. UNCHANGED voided
      BY <1>2 DEF Create
    <3>5. AdvancesStayInBooks'
      BY <2>1, <3>1, <3>4 DEF Receipts, AdvancesStayInBooks, VoucherIds
    <3>. QED  BY <3>3, <3>5 DEF Receipts
  <2>. QED  BY <2>3, <2>4
<1>3. ASSUME NEW r \in Requests,
             UpdateCommit(r) \/ StatusCommit(r) \/ CancelWrite(r) \/ ConvertLink(r) \/ InvoiceDelete(r)
      PROVE  Receipts'
  BY <1>3, RowsKeep, ReceiptsKept
<1>4. ASSUME NEW r \in Requests, CancelVoid(r)
      PROVE  Receipts'
  <2>1. PICK v \in VoucherIds : v = req[r].voucher
    BY <1>4, Busy, RequestFields DEF CancelVoid
  <2>2. PICK s \in {"ACTIVE", "CANCELLED", "GONE"} :
          s = IF vouchers[v].status = "ACTIVE" THEN "CANCELLED" ELSE vouchers[v].status
    BY Facts DEF Vouchers
  <2>3. vouchers' = [vouchers EXCEPT ![v].status = s] /\ UNCHANGED <<estimate, advances>>
    BY <1>4, <2>1, <2>2 DEF CancelVoid
  <2>4. s # "ACTIVE" /\ (s = "GONE" <=> vouchers[v].status = "GONE")
    BY <2>2
  <2>5. vouchers[v].type = "SALES" /\ UNCHANGED voided
    <3>1. req[r] # Idle /\ ReadingOK(req[r]) /\ req[r].op = "void" /\ req[r].est \in EstimateIds
      BY <1>4, Busy, RequestFields DEF CancelVoid, ReadingsSound
    <3>2. v = estimate[req[r].est].voucher /\ v # 0
      BY <2>1, <3>1, RowFields DEF ReadingOK
    <3>. QED  BY <1>4, <3>1, <3>2 DEF SalesApart, Booked, CancelVoid, End, Goto
  <2>. QED  BY <2>3, <2>4, <2>5, ReceiptMarked
<1>5. ASSUME NEW r \in Requests, NEW v \in VoucherIds, VoucherCancel(r, v)
      PROVE  Receipts'
  <2>1. /\ vouchers' = [vouchers EXCEPT ![v].status = "CANCELLED"] /\ voided' = voided \cup {v}
        /\ vouchers[v].status = "ACTIVE" /\ UNCHANGED <<estimate, advances>>
    BY <1>5 DEF VoucherCancel
  <2>2. PICK s \in {"ACTIVE", "CANCELLED", "GONE"} : s = "CANCELLED"
    OBVIOUS
  <2>3. /\ vouchers' = [vouchers EXCEPT ![v].status = s]
        /\ s # "ACTIVE" /\ (s = "GONE" <=> vouchers[v].status = "GONE")
    BY <2>1, <2>2
  <2>4. /\ UNCHANGED <<estimate, advances>>
        /\ voided' = voided \cup {v} \/ (vouchers[v].type = "SALES" /\ voided' = voided)
    BY <2>1
  <2>. QED  BY <2>3, <2>4, ReceiptMarked
<1>6. ASSUME NEW r \in Requests, RemoveCommit(r)
      PROVE  Receipts'
  <2>1. /\ req[r].op = "remove" /\ req[r].est \in Stored
        /\ advances' = OnAccount(req[r].est)
        /\ estimate' = [estimate EXCEPT ![req[r].est].status = "GONE"]
        /\ vouchers' = IF req[r].voucher = 0 THEN vouchers
                       ELSE [vouchers EXCEPT ![req[r].voucher].status = "GONE"]
    BY <1>6 DEF RemoveCommit
  <2>2. req[r] # Idle /\ ReadingOK(req[r])
    BY <2>1, Busy DEF ReadingsSound
  <2>3. PICK v \in VoucherIds \cup {0} : v = req[r].voucher
    BY <2>1, <2>2, RequestFields
  <2>4. PICK e \in EstimateIds : e = req[r].est
    BY <2>2, RequestFields
  <2>5. v = estimate[e].voucher /\ 0 \notin VoucherIds
    BY <2>1, <2>2, <2>3, <2>4, RowFields DEF ReadingOK
  <2>6. /\ \A f \in EstimateIds : estimate'[f].voucher = estimate[f].voucher
        /\ \A f \in EstimateIds \ {e} : estimate'[f] = estimate[f]
    <3>1. PICK old \in Row : old = estimate[e]
      BY <2>1, <2>4, Facts
    <3>2. estimate' = [estimate EXCEPT ![e] = [old EXCEPT !.status = "GONE"]]
      BY <2>1, <2>4, <3>1
    <3>. QED  BY <3>1, <3>2 DEF TypeOK, Row
  <2>7. /\ VoucherIds' = VoucherIds
        /\ \A w \in VoucherIds : vouchers'[w].type = vouchers[w].type
        /\ \A w \in VoucherIds \ {v} : vouchers'[w] = vouchers[w]
        /\ v # 0 => vouchers'[v].status = "GONE"
    <3>1. CASE v = 0
      BY <3>1, <2>1, <2>3 DEF VoucherIds
    <3>2. CASE v # 0
      BY <3>2, <2>1, <2>3, VoucherMarked
    <3>. QED  BY <3>1, <3>2
  <2>8. v # 0 => vouchers[v].type = "SALES"
    BY <2>5 DEF SalesApart, Booked
  <2>9. RemovedLeavesNoSale'
    <3>. SUFFICES ASSUME NEW f \in EstimateIds, estimate'[f].status = "GONE", estimate'[f].voucher # 0
                  PROVE  vouchers'[estimate'[f].voucher].status = "GONE"
      BY DEF RemovedLeavesNoSale, Booked
    <3>1. CASE f = e
      BY <3>1, <2>5, <2>6, <2>7
    <3>2. CASE f # e
      <4>1. estimate'[f] = estimate[f] /\ estimate[f].voucher \in VoucherIds
        BY <3>2, <2>6, RowFields
      <4>. QED  BY <4>1, <2>7 DEF Receipts, RemovedLeavesNoSale, Booked
    <3>. QED  BY <3>1, <3>2
  <2>10. AdvancesStayInBooks'
    <3>. DEFINE put(a) == IF a.estimate = e THEN [a EXCEPT !.estimate = None] ELSE a
    <3>0. advances' = {put(a) : a \in advances}
      BY <2>1, <2>4 DEF OnAccount
    <3>0a. \A a \in advances : put(a).voucher = a.voucher
      <4>. SUFFICES ASSUME NEW a \in advances  PROVE put(a).voucher = a.voucher
        OBVIOUS
      <4>1. a \in [voucher : VoucherIds, estimate : EstimateIds \cup {None}]
        BY DEF TypeOK
      <4>2. CASE a.estimate = e
        BY <4>1, <4>2
      <4>3. CASE a.estimate # e
        BY <4>3
      <4>. QED  BY <4>2, <4>3
    <3>. HIDE DEF put
    <3>1. /\ \A a \in advances' : \E b \in advances : a = put(b) /\ a.voucher = b.voucher
          /\ \A b \in advances : \E a \in advances' : a.voucher = b.voucher
      BY <3>0, <3>0a
    <3>2. \A a, b \in advances' : a.voucher = b.voucher => a = b
      BY <3>1 DEF Receipts, AdvancesStayInBooks
    <3>3. \A w \in VoucherIds : vouchers[w].type = "RECEIPT" => vouchers'[w] = vouchers[w]
      BY <2>7, <2>8, <2>5
    <3>4. UNCHANGED voided
      BY <1>6 DEF RemoveCommit, End, Goto
    <3>4a. \A v1 \in VoucherIds' \ voided' : vouchers'[v1].type = "RECEIPT" =>
             (vouchers'[v1].status = "ACTIVE" <=> \E a \in advances' : a.voucher = v1)
      <4>. SUFFICES ASSUME NEW v1 \in VoucherIds \ voided, vouchers[v1].type = "RECEIPT"
                    PROVE  vouchers[v1].status = "ACTIVE" <=> \E a \in advances' : a.voucher = v1
        BY <2>7, <3>3, <3>4
      <4>1. vouchers[v1].status = "ACTIVE" <=> \E a \in advances : a.voucher = v1
        BY DEF Receipts, AdvancesStayInBooks
      <4>. QED  BY <4>1, <3>1
    <3>4b. \A v1 \in voided' : vouchers'[v1].status # "ACTIVE"
      BY <3>4, <2>7, <2>5 DEF Receipts, AdvancesStayInBooks, TypeOK
    <3>5. \A a \in advances' : vouchers'[a.voucher].type = "RECEIPT"
                               /\ vouchers'[a.voucher].status # "GONE"
      <4>. SUFFICES ASSUME NEW a \in advances'
                    PROVE  vouchers'[a.voucher].type = "RECEIPT" /\ vouchers'[a.voucher].status # "GONE"
        OBVIOUS
      <4>1. PICK b \in advances : a.voucher = b.voucher
        BY <3>1
      <4>2. vouchers[b.voucher].type = "RECEIPT" /\ vouchers[b.voucher].status # "GONE" /\ b.voucher \in VoucherIds
        BY <1>0 DEF Receipts, AdvancesStayInBooks
      <4>. QED  BY <4>1, <4>2, <3>3
    <3>. QED  BY <3>2, <3>4a, <3>4b, <3>5 DEF AdvancesStayInBooks
  <2>. QED  BY <2>9, <2>10 DEF Receipts
<1>7. ASSUME NEW r \in Requests, AdvanceCommit(r)
      PROVE  Receipts'
  <2>1. /\ req[r].est \in Stored /\ Post("RECEIPT") /\ UNCHANGED estimate
        /\ advances' = advances \cup {[voucher |-> NewVoucher, estimate |-> req[r].est]}
    BY <1>7 DEF AdvanceCommit
  <2>2. /\ VoucherIds' = VoucherIds \cup {NewVoucher} /\ NewVoucher \notin VoucherIds
        /\ \A v \in VoucherIds : vouchers'[v] = vouchers[v]
        /\ vouchers'[NewVoucher] = [type |-> "RECEIPT", status |-> "ACTIVE"]
    BY <2>1, PostFacts
  <2>3. RemovedLeavesNoSale'
    BY <2>1, <2>2, RowFields DEF Receipts, RemovedLeavesNoSale, Booked
  <2>4. AdvancesStayInBooks'
    <3>1. PICK n : n = [voucher |-> NewVoucher, estimate |-> req[r].est]
      OBVIOUS
    <3>2. advances' = advances \cup {n} /\ n.voucher = NewVoucher
      BY <2>1, <3>1
    <3>3. vouchers'[NewVoucher].type = "RECEIPT" /\ vouchers'[NewVoucher].status = "ACTIVE"
      BY <2>2
    <3>4. voided \subseteq VoucherIds /\ UNCHANGED voided
      BY <1>7 DEF AdvanceCommit, End, Goto, TypeOK
    <3>. QED  BY <3>2, <3>3, <3>4, <2>2, <1>0 DEF Receipts, AdvancesStayInBooks
  <2>. QED  BY <2>3, <2>4 DEF Receipts
<1>8. ASSUME NEW r \in Requests, NEW a \in advances, AdvanceDelete(r, a)
      PROVE  Receipts'
  <2>1. /\ vouchers' = [vouchers EXCEPT ![a.voucher].status = "CANCELLED"]
        /\ advances' = advances \ {a} /\ UNCHANGED estimate
    BY <1>8 DEF AdvanceDelete
  <2>2. PICK v \in VoucherIds : v = a.voucher
    BY <1>0
  <2>3. /\ VoucherIds' = VoucherIds /\ vouchers'[v].status = "CANCELLED"
        /\ \A w \in VoucherIds : vouchers'[w].type = vouchers[w].type
        /\ \A w \in VoucherIds \ {v} : vouchers'[w] = vouchers[w]
    BY <2>1, <2>2, VoucherMarked
  <2>4. vouchers[v].type = "RECEIPT"
    BY <2>2 DEF Receipts, AdvancesStayInBooks
  <2>5. RemovedLeavesNoSale'
    <3>. SUFFICES ASSUME NEW f \in EstimateIds, estimate'[f].status = "GONE", estimate'[f].voucher # 0
                  PROVE  vouchers'[estimate'[f].voucher].status = "GONE"
      BY DEF RemovedLeavesNoSale, Booked
    <3>1. /\ estimate'[f] = estimate[f] /\ estimate[f].voucher \in VoucherIds
          /\ vouchers[estimate[f].voucher].type = "SALES"
      BY <2>1, RowFields DEF SalesApart, Booked
    <3>. QED  BY <3>1, <2>3, <2>4 DEF Receipts, RemovedLeavesNoSale, Booked
  <2>6. UNCHANGED voided /\ voided \subseteq VoucherIds
    BY <1>8 DEF AdvanceDelete, TypeOK
  <2>7. AdvancesStayInBooks'
    <3>1. \A b \in advances \ {a} : b.voucher \in VoucherIds \ {v}
      BY <2>2, <1>0 DEF Receipts, AdvancesStayInBooks
    <3>2. \A w \in VoucherIds \ {v} : (\E b \in advances : b.voucher = w) <=> \E b \in advances \ {a} : b.voucher = w
      BY <2>2
    <3>3. \A w \in VoucherIds \ voided : vouchers'[w].type = "RECEIPT" =>
            (vouchers'[w].status = "ACTIVE" <=> \E b \in advances \ {a} : b.voucher = w)
      BY <2>3, <3>1, <3>2 DEF Receipts, AdvancesStayInBooks
    <3>4. \A w \in voided : vouchers'[w].status # "ACTIVE"
      BY <2>3, <2>6 DEF Receipts, AdvancesStayInBooks
    <3>. QED  BY <2>1, <2>3, <2>6, <3>1, <3>3, <3>4 DEF Receipts, AdvancesStayInBooks
  <2>. QED  BY <2>5, <2>7 DEF Receipts
<1>9. ASSUME NEW r \in Requests,
             \/ \E e \in EstimateIds :
                  \/ \E c \in Contents : UpdateRead(r, e, c)
                  \/ \E s \in Settable : StatusRead(r, e, s)
                  \/ CancelRead(r, e) \/ RemoveRead(r, e) \/ ConvertRead(r, e) \/ AdvanceRead(r, e)
      PROVE  UNCHANGED <<estimate, vouchers, advances, voided>>
  BY <1>9 DEF UpdateRead, StatusRead, CancelRead, RemoveRead, ConvertRead, AdvanceRead, Begin, tables
<1>10. ASSUME NEW r \in Requests,
              \/ \E k \in DOMAIN invoices : InvoiceCancel(r, k) \/ InvoiceUnlink(r, k)
              \/ CancelCount(r) \/ ConvertInvoice(r) \/ Abandon(r)
       PROVE  UNCHANGED <<estimate, vouchers, advances, voided>>
  BY <1>10 DEF InvoiceCancel, InvoiceUnlink, CancelCount, ConvertInvoice, Abandon, Begin, Goto, tables
<1>11. CASE UNCHANGED vars
  BY <1>1, <1>11 DEF vars
<1>12. CASE Next
  BY <1>1, <1>2, <1>3, <1>4, <1>5, <1>6, <1>7, <1>8, <1>9, <1>10, <1>12 DEF Next, VoucherIds
<1>. QED  BY <1>11, <1>12

LEMMA ReceiptsInvariance == Spec => []Receipts
<1>1. Init => Receipts
  BY DEF Init, Receipts, RemovedLeavesNoSale, AdvancesStayInBooks, Booked, NoEstimate, VoucherIds
<1>2. IInv /\ Receipts /\ [Next]_vars => Receipts'
  BY ReceiptsInductive
<1>. QED  BY <1>1, <1>2, Invariance, PTL DEF Spec

(* An estimate that is gone has taken its sale out of the books, though the
   removal read long before which voucher that is, and though a cancellation may
   still void it: a voucher that is gone is not marked again. *)
THEOREM RemovedLeavesNoSaleEver == Spec => []RemovedLeavesNoSale
<1>1. Receipts => RemovedLeavesNoSale
  BY DEF Receipts
<1>. QED  BY <1>1, ReceiptsInvariance, PTL

(* A receipt nobody cancelled at the accounting endpoint is active exactly as long
   as its advance is on record: an estimate that goes leaves its advances on account,
   and neither its cancellation nor its removal touches a receipt, because its own
   voucher is a sale. *)
THEOREM AdvancesStay == Spec => []AdvancesStayInBooks
<1>1. Receipts => AdvancesStayInBooks
  BY DEF Receipts
<1>. QED  BY <1>1, ReceiptsInvariance, PTL

-----------------------------------------------------------------------------
(* One estimate, while requests on it take turns: no second request ever began
   beside another, none was lost halfway, and its voucher is its own affair. *)
At(r, e) == req[r] # Idle /\ req[r].est = e

(* What the estimate, its voucher and its invoices have in common while q is all
   that is being done to it: the cancellation that is to void the voucher and the
   conversion that is to link the invoice are half written, nothing else is. *)
Follows(e, q) ==
  /\ Booked(e) =>
       /\ q.op = "void" => estimate[e].status = "CANCELLED"
       /\ vouchers[estimate[e].voucher].status = "ACTIVE"
            <=> q.op = "void" \/ estimate[e].status # "CANCELLED"
  /\ estimate[e].status = "CONVERTED" <=> estimate[e].invoice # 0
  /\ \A k \in InvoicesOf(e) :
       /\ invoices[k].bills = TakenOver(estimate[e].bills)
       /\ k = estimate[e].invoice \/ (q.op = "link" /\ q.invoice = k)
  /\ q.op \in {"update", "status", "count", "cancel", "convert", "link"} =>
       estimate[e].status \notin {"CONVERTED", "CANCELLED"}
  /\ q.op = "convert" => q.bills = estimate[e].bills
  /\ q.op = "unlink" => e \in q.reverted /\ estimate[e].invoice = q.invoice

Turns(e) ==
  \/ (\A s \in Requests : ~ At(s, e)) /\ Follows(e, Idle)
  \/ \E r \in Requests :
       At(r, e) /\ (\A s \in Requests : At(s, e) => s = r) /\ Follows(e, req[r])

CalmTurns == \A e \in Stored \ disturbed : Turns(e)

(* Nothing that concerns the estimate changes.                               *)
LEMMA FollowsFrame ==
  ASSUME NEW e, NEW q, Follows(e, q), estimate'[e] = estimate[e], InvoicesOf(e)' = InvoicesOf(e),
         \A k \in InvoicesOf(e) : invoices'[k].bills = invoices[k].bills,
         Booked(e) => (vouchers'[estimate[e].voucher].status = "ACTIVE"
                         <=> vouchers[estimate[e].voucher].status = "ACTIVE")
  PROVE  Follows(e, q)'
<1>1. Booked(e)' <=> Booked(e)
  BY DEF Booked
<1>. QED  BY <1>1 DEF Follows

(* The step is one of another estimate's request.                            *)
LEMMA Elsewhere ==
  ASSUME TypeOK, NEW e, Turns(e), NEW r \in Requests, NEW q, ~ At(r, e),
         req' = [req EXCEPT ![r] = q], q # Idle => q.est # e,
         \A p : Follows(e, p) => Follows(e, p)'
  PROVE  Turns(e)'
<1>1. /\ req'[r] = q /\ \A s \in Requests \ {r} : req'[s] = req[s]
  BY DEF TypeOK
<1>2. \A s \in Requests : At(s, e)' <=> At(s, e)
  BY <1>1 DEF At
<1>3. CASE (\A s \in Requests : ~ At(s, e)) /\ Follows(e, Idle)
  <2>1. Follows(e, Idle)'
    BY <1>3
  <2>. QED  BY <1>2, <1>3, <2>1 DEF Turns
<1>4. ASSUME NEW s \in Requests, At(s, e), \A t \in Requests : At(t, e) => t = s, Follows(e, req[s])
      PROVE  Turns(e)'
  <2>1. PICK p : p = req[s]
    OBVIOUS
  <2>2. req'[s] = p /\ Follows(e, p)'
    BY <1>1, <1>4, <2>1
  <2>3. Follows(e, req[s])'
    BY <2>2
  <2>. QED  BY <1>2, <1>4, <2>3 DEF Turns
<1>. QED  BY <1>3, <1>4 DEF Turns

(* The step is of the one request there is on the estimate, or of its first. *)
LEMMA OwnTurn ==
  ASSUME TypeOK, NEW e, NEW r \in Requests, \A s \in Requests : At(s, e) => s = r,
         NEW q, req' = [req EXCEPT ![r] = q], q # Idle => q.est = e, Follows(e, q)'
  PROVE  Turns(e)'
<1>1. req'[r] = q /\ \A s \in Requests \ {r} : req'[s] = req[s]
  BY DEF TypeOK
<1>2. \A s \in Requests \ {r} : ~ At(s, e)'
  BY <1>1 DEF At
<1>3. CASE q = Idle
  <2>1. \A s \in Requests : ~ At(s, e)'
    BY <1>1, <1>2, <1>3 DEF At
  <2>2. Follows(e, Idle)'
    BY <1>3
  <2>. QED  BY <2>1, <2>2 DEF Turns
<1>4. CASE q # Idle
  <2>1. At(r, e)'
    BY <1>1, <1>4 DEF At
  <2>2. Follows(e, req[r])'
    BY <1>1
  <2>. QED  BY <1>2, <2>1, <2>2 DEF Turns
<1>. QED  BY <1>3, <1>4

LEMMA SameRequests ==
  ASSUME NEW e, Turns(e), req' = req, \A p : Follows(e, p) => Follows(e, p)'
  PROVE  Turns(e)'
<1>1. \A s \in Requests : At(s, e)' <=> At(s, e)
  BY DEF At
<1>2. \A s \in Requests : Follows(e, req[s]) => Follows(e, req[s])'
  <2>. SUFFICES ASSUME NEW s \in Requests, Follows(e, req[s])  PROVE Follows(e, req[s])'
    OBVIOUS
  <2>1. PICK p : p = req[s]
    OBVIOUS
  <2>2. p = req'[s] /\ Follows(e, p)'
    BY <2>1
  <2>. QED  BY <2>2
<1>3. Follows(e, Idle) => Follows(e, Idle)'
  OBVIOUS
<1>. QED  BY <1>1, <1>2, <1>3 DEF Turns

(* A request begins on an estimate nobody is at, or it would be disturbed.   *)
LEMMA BeginTurn ==
  ASSUME TypeOK, NEW e \in EstimateIds, Turns(e), NEW r \in Requests, NEW q \in Reading, Begin(r, q),
         UNCHANGED tables, e \notin disturbed',
         q.est = e /\ Follows(e, Idle) => Follows(e, q)
  PROVE  Turns(e)'
<1>1. req[r] = Idle /\ req' = [req EXCEPT ![r] = q]
  BY DEF Begin
<1>2. \A p : Follows(e, p) => Follows(e, p)'
  BY DEF tables, Follows, Booked, InvoicesOf, LiveInvoices
<1>3. CASE q.est # e
  BY <1>1, <1>2, <1>3, Elsewhere DEF At
<1>4. CASE q.est = e
  <2>1. \A s \in Requests : ~ At(s, e)
    BY <1>4 DEF Begin, At
  <2>2. Follows(e, Idle)
    BY <2>1 DEF Turns
  <2>3. Follows(e, q)'
    BY <2>2, <1>2, <1>4
  <2>. QED  BY <1>1, <1>4, <2>1, <2>3, OwnTurn
<1>. QED  BY <1>3, <1>4

(* A request goes on with its estimate, or is done with it.                  *)
LEMMA ActTurn ==
  ASSUME TypeOK, NEW e \in EstimateIds, Turns(e), NEW r \in Requests, NEW p, NEW q,
         p = req[r], p # Idle, req' = [req EXCEPT ![r] = q], q # Idle => q.est = p.est,
         p.est # e => \A o : Follows(e, o) => Follows(e, o)',
         p.est = e /\ Follows(e, p) => Follows(e, q)'
  PROVE  Turns(e)'
<1>1. CASE p.est # e
  BY <1>1, Elsewhere DEF At
<1>2. CASE p.est = e
  <2>1. At(r, e)
    BY <1>2 DEF At
  <2>2. (\A s \in Requests : At(s, e) => s = r) /\ Follows(e, req[r])
    BY <2>1 DEF Turns
  <2>. QED  BY <2>2, <1>2, OwnTurn
<1>. QED  BY <1>1, <1>2

(* Only one row is written.                                                  *)
LEMMA RowTurn ==
  ASSUME TypeOK, NEW e \in EstimateIds, Turns(e), NEW r \in Requests, NEW p, NEW q, NEW row, NEW f \in EstimateIds,
         p = req[r], p # Idle, req' = [req EXCEPT ![r] = q], q # Idle => q.est = p.est, f = p.est,
         estimate' = [estimate EXCEPT ![f] = row], UNCHANGED <<invoices, vouchers>>,
         p.est = e /\ Follows(e, p) /\ estimate'[e] = row => Follows(e, q)'
  PROVE  Turns(e)'
<1>1. estimate'[f] = row /\ \A g \in EstimateIds \ {f} : estimate'[g] = estimate[g]
  BY DEF TypeOK
<1>2. InvoicesOf(e)' = InvoicesOf(e)
  BY DEF InvoicesOf, LiveInvoices
<1>3. p.est # e => \A o : Follows(e, o) => Follows(e, o)'
  BY <1>1, <1>2, FollowsFrame
<1>. QED  BY <1>1, <1>3, ActTurn

LEMMA TurnsKept ==
  ASSUME IInv, Receipts, NEW e \in Stored \ disturbed, Turns(e),
         NEW r \in Requests, e \in Stored' \ disturbed',
         \/ \E f \in EstimateIds :
              \/ \E t \in Contents :
                   UpdateRead(r, f, t) \/ \E b \in BOOLEAN : Create(r, f, t, b)
              \/ \E s \in Settable : StatusRead(r, f, s)
              \/ CancelRead(r, f) \/ RemoveRead(r, f) \/ ConvertRead(r, f) \/ AdvanceRead(r, f)
         \/ \E k \in DOMAIN invoices : InvoiceCancel(r, k) \/ InvoiceUnlink(r, k)
         \/ \E a \in advances : AdvanceDelete(r, a)
         \/ \E v \in DOMAIN vouchers : VoucherCancel(r, v)
         \/ UpdateCommit(r) \/ StatusCommit(r) \/ CancelCount(r) \/ CancelWrite(r)
         \/ CancelVoid(r) \/ RemoveCommit(r) \/ ConvertInvoice(r) \/ ConvertLink(r)
         \/ InvoiceDelete(r) \/ AdvanceCommit(r) \/ Abandon(r)
  PROVE  Turns(e)'
<1>. USE DEF IInv
<1>0. /\ e \in EstimateIds /\ e \in Created /\ e \notin disturbed'
      /\ estimate[e].status \notin {"NONE", "GONE"} /\ estimate[e] \in Row
      /\ estimate[e].voucher \in VoucherIds \cup {0} /\ 0 \notin VoucherIds
      /\ 0 \notin InvoiceIds /\ InvoicesOf(e) \subseteq InvoiceIds
      /\ estimate[e].invoice # 0 => estimate[e].invoice \in InvoicesOf(e)
  BY Facts, RowFields DEF Stored, InvoicesOf, LiveInvoices, InvoiceIds, LinksAreSound
<1>1. ASSUME NEW f \in EstimateIds, NEW t \in Contents, UpdateRead(r, f, t)
      PROVE  Turns(e)'
  <2>. DEFINE q == [op |-> "update", est |-> f, bills |-> t]
  <2>1. Begin(r, q) /\ UNCHANGED tables /\ estimate[f].status \notin {"CONVERTED", "CANCELLED"}
    BY <1>1 DEF UpdateRead
  <2>2. q \in Reading /\ q.op = "update" /\ q.est = f /\ Idle.op = "idle"
    BY DEF Reading, Idle
  <2>. HIDE DEF q
  <2>3. q.est = e /\ Follows(e, Idle) => Follows(e, q)
    BY <2>1, <2>2 DEF Follows
  <2>. QED  BY <1>0, <2>1, <2>2, <2>3, BeginTurn
<1>2. ASSUME NEW f \in EstimateIds, NEW s \in Settable, StatusRead(r, f, s)
      PROVE  Turns(e)'
  <2>. DEFINE q == [op |-> "status", est |-> f, status |-> s]
  <2>1. Begin(r, q) /\ UNCHANGED tables /\ estimate[f].status \notin {"CONVERTED", "CANCELLED"}
    BY <1>2 DEF StatusRead
  <2>2. q \in Reading /\ q.op = "status" /\ q.est = f /\ Idle.op = "idle"
    BY DEF Reading, Idle
  <2>. HIDE DEF q
  <2>3. q.est = e /\ Follows(e, Idle) => Follows(e, q)
    BY <2>1, <2>2 DEF Follows
  <2>. QED  BY <1>0, <2>1, <2>2, <2>3, BeginTurn
<1>3. ASSUME NEW f \in EstimateIds, CancelRead(r, f)
      PROVE  Turns(e)'
  <2>1. PICK v \in VoucherIds \cup {0} : v = estimate[f].voucher
    BY RowFields
  <2>2. PICK op \in {"count", "cancel"} : op = IF Booked(f) THEN "count" ELSE "cancel"
    OBVIOUS
  <2>. DEFINE q == [op |-> op, est |-> f, voucher |-> v]
  <2>3. Begin(r, q) /\ UNCHANGED tables /\ estimate[f].status \notin {"CONVERTED", "CANCELLED"}
    BY <1>3, <2>1, <2>2 DEF CancelRead
  <2>4. q \in Reading /\ q.op \in {"count", "cancel"} /\ q.est = f /\ Idle.op = "idle"
    BY DEF Reading, Idle
  <2>. HIDE DEF q
  <2>5. q.est = e /\ Follows(e, Idle) => Follows(e, q)
    BY <2>3, <2>4 DEF Follows
  <2>. QED  BY <1>0, <2>3, <2>4, <2>5, BeginTurn
<1>4. ASSUME NEW f \in EstimateIds, RemoveRead(r, f)
      PROVE  Turns(e)'
  <2>1. PICK v \in VoucherIds \cup {0} : v = estimate[f].voucher
    BY RowFields
  <2>. DEFINE q == [op |-> "remove", est |-> f, voucher |-> v]
  <2>2. Begin(r, q) /\ UNCHANGED tables
    BY <1>4, <2>1 DEF RemoveRead
  <2>3. q \in Reading /\ q.op = "remove" /\ q.est = f /\ Idle.op = "idle"
    BY DEF Reading, Idle
  <2>. HIDE DEF q
  <2>4. q.est = e /\ Follows(e, Idle) => Follows(e, q)
    BY <2>3 DEF Follows
  <2>. QED  BY <1>0, <2>2, <2>3, <2>4, BeginTurn
<1>5. ASSUME NEW f \in EstimateIds, ConvertRead(r, f)
      PROVE  Turns(e)'
  <2>1. f \in Created /\ estimate[f].status \in {"OPEN", "ACCEPTED"}
    BY <1>5 DEF ConvertRead, Created
  <2>2. PICK t \in Contents : t = estimate[f].bills
    BY <2>1, RowFields
  <2>. DEFINE q == [op |-> "convert", est |-> f, bills |-> t]
  <2>3. Begin(r, q) /\ UNCHANGED tables
    BY <1>5, <2>2 DEF ConvertRead
  <2>4. q \in Reading /\ q.op = "convert" /\ q.est = f /\ q.bills = t /\ Idle.op = "idle"
    BY DEF Reading, Idle
  <2>. HIDE DEF q
  <2>5. q.est = e /\ Follows(e, Idle) => Follows(e, q)
    BY <2>1, <2>2, <2>4 DEF Follows
  <2>. QED  BY <1>0, <2>3, <2>4, <2>5, BeginTurn
<1>6. ASSUME NEW f \in EstimateIds, AdvanceRead(r, f)
      PROVE  Turns(e)'
  <2>. DEFINE q == [op |-> "advance", est |-> f]
  <2>1. Begin(r, q) /\ UNCHANGED tables
    BY <1>6 DEF AdvanceRead
  <2>2. q \in Reading /\ q.op = "advance" /\ q.est = f /\ Idle.op = "idle"
    BY DEF Reading, Idle
  <2>. HIDE DEF q
  <2>3. q.est = e /\ Follows(e, Idle) => Follows(e, q)
    BY <2>2 DEF Follows
  <2>. QED  BY <1>0, <2>1, <2>2, <2>3, BeginTurn
<1>7. ASSUME NEW k \in InvoiceIds, InvoiceUnlink(r, k)
      PROVE  Turns(e)'
  <2>1. PICK linked \in SUBSET EstimateIds : linked = {g \in Stored : estimate[g].invoice = k}
    BY DEF Stored
  <2>2. PICK f \in EstimateIds : f = invoices[k].estimate
    BY Facts DEF Invoices
  <2>. DEFINE q == [op |-> "unlink", est |-> f, invoice |-> k, reverted |-> linked]
  <2>3. k \in LiveInvoices /\ Begin(r, q) /\ UNCHANGED tables
    BY <1>7, <2>1, <2>2 DEF InvoiceUnlink
  <2>4. q \in Reading /\ q.op = "unlink" /\ q.est = f /\ q.invoice = k /\ q.reverted = linked /\ Idle.op = "idle"
    BY DEF Reading, Idle
  <2>. HIDE DEF q
  <2>5. ASSUME f = e, Follows(e, Idle)
        PROVE  e \in linked /\ estimate[e].invoice = k
    <3>1. k \in InvoicesOf(e)
      BY <2>2, <2>3, <2>5 DEF InvoicesOf
    <3>2. k = estimate[e].invoice
      BY <2>4, <2>5, <3>1 DEF Follows
    <3>. QED  BY <2>1, <3>2
  <2>6. q.est = e /\ Follows(e, Idle) => Follows(e, q)
    BY <2>4, <2>5 DEF Follows
  <2>. QED  BY <1>0, <2>3, <2>4, <2>6, BeginTurn
<1>8. ASSUME UpdateCommit(r)
      PROVE  Turns(e)'
  <2>1. PICK p : p = req[r]
    OBVIOUS
  <2>2. /\ p.op = "update" /\ p # Idle /\ p.est \in Stored
        /\ req' = [req EXCEPT ![r] = Idle] /\ UNCHANGED <<invoices, vouchers>>
    BY <1>8, <2>1, Busy DEF UpdateCommit, End, Goto
  <2>3. PICK old \in Row : old = estimate[p.est]
    BY <2>2, Facts
  <2>. DEFINE row == [old EXCEPT !.bills = p.bills]
  <2>4. row.voucher = old.voucher /\ row.status = old.status /\ row.invoice = old.invoice
    BY DEF Row
  <2>5. estimate' = [estimate EXCEPT ![p.est] = row] /\ p.est \in EstimateIds
    BY <1>8, <2>1, <2>2, <2>3 DEF UpdateCommit, Stored
  <2>. HIDE DEF row
  <2>6. ASSUME p.est = e, Follows(e, p), estimate'[e] = row  PROVE Follows(e, Idle)'
    <3>1. InvoicesOf(e)' = InvoicesOf(e) /\ (Booked(e)' <=> Booked(e))
      BY <2>2, <2>3, <2>4, <2>6 DEF InvoicesOf, LiveInvoices, Booked
    <3>2. estimate[e].invoice = 0 /\ InvoicesOf(e) = {}
      BY <1>0, <2>2, <2>6 DEF Follows
    <3>. QED  BY <2>2, <2>3, <2>4, <2>6, <3>1, <3>2 DEF Follows, Idle
  <2>. QED  BY <1>0, <2>1, <2>2, <2>5, <2>6, RowTurn
<1>9. ASSUME StatusCommit(r)
      PROVE  Turns(e)'
  <2>1. PICK p : p = req[r]
    OBVIOUS
  <2>2. /\ p.op = "status" /\ p # Idle /\ p.est \in Stored
        /\ req' = [req EXCEPT ![r] = Idle] /\ UNCHANGED <<invoices, vouchers>>
    BY <1>9, <2>1, Busy DEF StatusCommit, End, Goto
  <2>3. PICK old \in Row : old = estimate[p.est]
    BY <2>2, Facts
  <2>4. p.status \in Settable
    BY <2>1, <2>2, RequestFields
  <2>. DEFINE row == [old EXCEPT !.status = p.status]
  <2>5. row.voucher = old.voucher /\ row.status = p.status /\ row.invoice = old.invoice /\ row.bills = old.bills
    BY DEF Row
  <2>6. estimate' = [estimate EXCEPT ![p.est] = row] /\ p.est \in EstimateIds
    BY <1>9, <2>1, <2>2, <2>3 DEF StatusCommit, Stored
  <2>. HIDE DEF row
  <2>7. ASSUME p.est = e, Follows(e, p), estimate'[e] = row  PROVE Follows(e, Idle)'
    <3>1. InvoicesOf(e)' = InvoicesOf(e) /\ (Booked(e)' <=> Booked(e))
      BY <2>2, <2>3, <2>5, <2>7 DEF InvoicesOf, LiveInvoices, Booked
    <3>2. row.status \notin {"CONVERTED", "CANCELLED"}
      BY <2>4, <2>5 DEF Settable
    <3>. QED  BY <2>2, <2>3, <2>5, <2>7, <3>1, <3>2 DEF Follows, Idle
  <2>. QED  BY <1>0, <2>1, <2>2, <2>6, <2>7, RowTurn
<1>10. ASSUME CancelWrite(r)
      PROVE  Turns(e)'
  <2>1. PICK p : p = req[r]
    OBVIOUS
  <2>2. /\ p.op = "cancel" /\ p # Idle /\ p.est \in Stored /\ ReadingOK(p) /\ p \in Reading
        /\ req' = [req EXCEPT ![r] = IF p.voucher = 0 THEN Idle ELSE [p EXCEPT !.op = "void"]]
        /\ UNCHANGED <<invoices, vouchers>>
    BY <1>10, <2>1, Busy, RequestFields DEF CancelWrite, Goto, ReadingsSound
  <2>3. PICK q : q = IF p.voucher = 0 THEN Idle ELSE [p EXCEPT !.op = "void"]
    OBVIOUS
  <2>4. /\ p.voucher = 0 => q = Idle
        /\ p.voucher # 0 => q.op = "void" /\ q.est = p.est
    BY <2>2, <2>3 DEF Reading
  <2>5. PICK old \in Row : old = estimate[p.est]
    BY <2>2, Facts
  <2>. DEFINE row == [old EXCEPT !.status = "CANCELLED"]
  <2>6. row.voucher = old.voucher /\ row.status = "CANCELLED" /\ row.invoice = old.invoice /\ row.bills = old.bills
    BY DEF Row
  <2>7. estimate' = [estimate EXCEPT ![p.est] = row] /\ p.est \in EstimateIds
    BY <1>10, <2>1, <2>2, <2>5 DEF CancelWrite, Stored
  <2>. HIDE DEF row
  <2>8. ASSUME p.est = e, Follows(e, p), estimate'[e] = row  PROVE Follows(e, q)'
    <3>1. InvoicesOf(e)' = InvoicesOf(e) /\ (Booked(e)' <=> Booked(e))
      BY <2>2, <2>5, <2>6, <2>8 DEF InvoicesOf, LiveInvoices, Booked
    <3>2. estimate[e].invoice = 0 /\ InvoicesOf(e) = {}
      BY <1>0, <2>2, <2>8 DEF Follows
    <3>3. q.op = IF Booked(e) THEN "void" ELSE "idle"
      BY <2>2, <2>4, <2>8 DEF ReadingOK, Booked, Idle
    <3>4. Booked(e) => vouchers[estimate[e].voucher].status = "ACTIVE"
      BY <2>2, <2>8 DEF Follows
    <3>. QED  BY <2>2, <2>5, <2>6, <2>8, <3>1, <3>2, <3>3, <3>4 DEF Follows
  <2>. QED  BY <1>0, <2>1, <2>2, <2>3, <2>4, <2>7, <2>8, RowTurn
<1>11. ASSUME ConvertLink(r)
      PROVE  Turns(e)'
  <2>1. PICK p : p = req[r]
    OBVIOUS
  <2>2. /\ p.op = "link" /\ p # Idle /\ p.est \in Stored /\ ReadingOK(p) /\ p.invoice \in InvoiceIds
        /\ req' = [req EXCEPT ![r] = Idle] /\ UNCHANGED <<invoices, vouchers>>
    BY <1>11, <2>1, Busy, RequestFields DEF ConvertLink, End, Goto, ReadingsSound
  <2>3. PICK old \in Row : old = estimate[p.est]
    BY <2>2, Facts
  <2>. DEFINE row == [old EXCEPT !.invoice = p.invoice, !.status = "CONVERTED"]
  <2>4. row.voucher = old.voucher /\ row.status = "CONVERTED" /\ row.invoice = p.invoice /\ row.bills = old.bills
    BY DEF Row
  <2>5. estimate' = [estimate EXCEPT ![p.est] = row] /\ p.est \in EstimateIds
    BY <1>11, <2>1, <2>2, <2>3 DEF ConvertLink, Stored, TypeOK
  <2>. HIDE DEF row
  <2>6. ASSUME p.est = e, Follows(e, p), estimate'[e] = row  PROVE Follows(e, Idle)'
    <3>1. InvoicesOf(e)' = InvoicesOf(e) /\ (Booked(e)' <=> Booked(e)) /\ ~ Booked(e)
      BY <2>2, <2>3, <2>4, <2>6 DEF InvoicesOf, LiveInvoices, Booked, ReadingOK
    <3>2. estimate[e].invoice = 0 /\ \A k \in InvoicesOf(e) : k = p.invoice
      BY <1>0, <2>2, <2>6 DEF Follows
    <3>3. p.invoice # 0
      BY <1>0, <2>2
    <3>. QED  BY <2>2, <2>3, <2>4, <2>6, <3>1, <3>2, <3>3 DEF Follows, Idle
  <2>. QED  BY <1>0, <2>1, <2>2, <2>5, <2>6, RowTurn
<1>12. ASSUME CancelCount(r)
      PROVE  Turns(e)'
  <2>1. PICK p : p = req[r]
    OBVIOUS
  <2>2. PICK q : q = [p EXCEPT !.op = "cancel"]
    OBVIOUS
  <2>3. /\ p.op = "count" /\ p # Idle /\ p \in Reading /\ req' = [req EXCEPT ![r] = q] /\ UNCHANGED tables
    BY <1>12, <2>1, <2>2, Busy, RequestFields DEF CancelCount, Goto
  <2>4. q.op = "cancel" /\ q.est = p.est
    BY <2>2, <2>3 DEF Reading
  <2>5. \A o : Follows(e, o) => Follows(e, o)'
    BY <2>3 DEF tables, Follows, Booked, InvoicesOf, LiveInvoices
  <2>6. Follows(e, p) => Follows(e, q)
    BY <2>3, <2>4 DEF Follows
  <2>. QED  BY <1>0, <2>1, <2>3, <2>4, <2>5, <2>6, ActTurn
<1>13. ASSUME CancelVoid(r)
      PROVE  Turns(e)'
  <2>1. PICK p : p = req[r]
    OBVIOUS
  <2>2. /\ p.op = "void" /\ p # Idle /\ p.voucher \in VoucherIds /\ ReadingOK(p) /\ p.est \in EstimateIds
        /\ req' = [req EXCEPT ![r] = Idle] /\ UNCHANGED <<estimate, invoices>>
    BY <1>13, <2>1, Busy, RequestFields DEF CancelVoid, End, Goto, ReadingsSound
  <2>3. PICK v \in VoucherIds : v = p.voucher
    BY <2>2
  <2>4. PICK s \in {"ACTIVE", "CANCELLED", "GONE"} :
          s = IF vouchers[v].status = "ACTIVE" THEN "CANCELLED" ELSE vouchers[v].status
    BY Facts DEF Vouchers
  <2>5. vouchers' = [vouchers EXCEPT ![v].status = s] /\ s # "ACTIVE"
    BY <1>13, <2>1, <2>3, <2>4 DEF CancelVoid
  <2>6. /\ \A w \in VoucherIds \ {v} : vouchers'[w] = vouchers[w]
        /\ vouchers'[v].status # "ACTIVE"
    BY <2>5, VoucherMarked
  <2>7. v = estimate[p.est].voucher
    BY <2>2, <2>3 DEF ReadingOK
  <2>8. InvoicesOf(e)' = InvoicesOf(e) /\ (Booked(e)' <=> Booked(e))
    BY <2>2 DEF InvoicesOf, LiveInvoices, Booked
  <2>9. ASSUME p.est # e, NEW o, Follows(e, o)  PROVE Follows(e, o)'
    <3>1. Booked(e) => estimate[e].voucher \in VoucherIds \ {v}
      BY <1>0, <2>2, <2>7, <2>9 DEF SalesApart, Booked
    <3>. QED  BY <2>2, <2>6, <2>8, <2>9, <3>1, FollowsFrame
  <2>10. ASSUME p.est = e, Follows(e, p)  PROVE Follows(e, Idle)'
    <3>1. Booked(e) /\ estimate[e].status = "CANCELLED"
      BY <1>0, <2>2, <2>7, <2>10 DEF Booked, Follows
    <3>. QED  BY <2>2, <2>6, <2>7, <2>8, <2>10, <3>1 DEF Follows, Idle
  <2>. QED  BY <1>0, <2>1, <2>2, <2>9, <2>10, ActTurn
<1>14. ASSUME RemoveCommit(r)
      PROVE  Turns(e)'
  <2>1. PICK p : p = req[r]
    OBVIOUS
  <2>2. /\ p.op = "remove" /\ p # Idle /\ p.est \in Stored /\ ReadingOK(p) /\ p.voucher \in VoucherIds \cup {0}
        /\ req' = [req EXCEPT ![r] = Idle] /\ UNCHANGED invoices
        /\ estimate' = [estimate EXCEPT ![p.est].status = "GONE"]
        /\ vouchers' = IF p.voucher = 0 THEN vouchers
                       ELSE [vouchers EXCEPT ![p.voucher].status = "GONE"]
    BY <1>14, <2>1, Busy, RequestFields DEF RemoveCommit, End, Goto, ReadingsSound
  <2>3. PICK old \in Row : old = estimate[p.est]
    BY <2>2, Facts
  <2>4. estimate' = [estimate EXCEPT ![p.est] = [old EXCEPT !.status = "GONE"]]
    BY <2>2, <2>3
  <2>5. p.est # e /\ p.est \in EstimateIds
    BY <2>2, <2>3, <2>4 DEF Stored, TypeOK, Row
  <2>6. estimate'[e] = estimate[e] /\ InvoicesOf(e)' = InvoicesOf(e)
    BY <1>0, <2>2, <2>5 DEF TypeOK, InvoicesOf, LiveInvoices
  <2>7. p.voucher = estimate[p.est].voucher
    BY <2>2 DEF ReadingOK
  <2>8. ASSUME Booked(e)
        PROVE  vouchers'[estimate[e].voucher] = vouchers[estimate[e].voucher]
    <3>1. CASE p.voucher = 0
      BY <2>2, <3>1
    <3>2. CASE p.voucher # 0
      <4>1. estimate[e].voucher \in VoucherIds /\ estimate[e].voucher # p.voucher
        BY <1>0, <2>5, <2>7, <2>8 DEF SalesApart, Booked
      <4>. QED  BY <2>2, <3>2, <4>1, VoucherMarked
    <3>. QED  BY <3>1, <3>2
  <2>9. \A o : Follows(e, o) => Follows(e, o)'
    BY <2>2, <2>6, <2>8, FollowsFrame
  <2>. QED  BY <1>0, <2>1, <2>2, <2>5, <2>9, ActTurn
<1>15. ASSUME ConvertInvoice(r)
      PROVE  Turns(e)'
  <2>1. PICK p : p = req[r]
    OBVIOUS
  <2>2. PICK k : k = Len(invoices) + 1
    OBVIOUS
  <2>. DEFINE x == [estimate |-> p.est, bills |-> TakenOver(p.bills), status |-> "ISSUED"]
              q == [op |-> "link", est |-> p.est, invoice |-> k]
  <2>3. /\ p.op = "convert" /\ p # Idle /\ p.est \in EstimateIds /\ p.bills \in Contents /\ ReadingOK(p)
        /\ invoices' = Append(invoices, x) /\ req' = [req EXCEPT ![r] = q]
        /\ UNCHANGED <<estimate, vouchers>>
    BY <1>15, <2>1, <2>2, Busy, RequestFields DEF ConvertInvoice, Goto, ReadingsSound
  <2>4. x \in Invoices /\ x.estimate = p.est /\ x.bills = TakenOver(p.bills) /\ x.status = "ISSUED"
    BY <2>3, TakenOverTyped DEF Invoices
  <2>5. q.op = "link" /\ q.est = p.est /\ q.invoice = k
    OBVIOUS
  <2>. HIDE DEF x, q
  <2>6. /\ InvoiceIds' = InvoiceIds \cup {k} /\ k \notin InvoiceIds
        /\ \A j \in InvoiceIds : invoices'[j] = invoices[j]
        /\ invoices'[k] = x
    BY <2>2, <2>3, <2>4, Facts DEF InvoiceIds
  <2>7. /\ p.est # e => InvoicesOf(e)' = InvoicesOf(e)
        /\ p.est = e => InvoicesOf(e)' = InvoicesOf(e) \cup {k}
    BY <2>4, <2>6 DEF InvoicesOf, LiveInvoices, InvoiceIds
  <2>8. p.est # e => \A o : Follows(e, o) => Follows(e, o)'
    BY <1>0, <2>3, <2>6, <2>7, FollowsFrame
  <2>9. ASSUME p.est = e, Follows(e, p)  PROVE Follows(e, q)'
    <3>1. estimate[e].status \notin {"CONVERTED", "CANCELLED"} /\ estimate[e].invoice = 0
          /\ InvoicesOf(e) = {} /\ x.bills = TakenOver(estimate[e].bills) /\ ~ Booked(e)
      BY <1>0, <2>3, <2>4, <2>9 DEF Follows, ReadingOK
    <3>2. InvoicesOf(e)' = {k} /\ ~ Booked(e)'
      BY <2>3, <2>7, <2>9, <3>1 DEF Booked
    <3>. QED  BY <2>3, <2>5, <2>6, <3>1, <3>2 DEF Follows
  <2>. QED  BY <1>0, <2>1, <2>3, <2>5, <2>8, <2>9, ActTurn
<1>16. ASSUME InvoiceDelete(r)
      PROVE  Turns(e)'
  <2>1. PICK p : p = req[r]
    OBVIOUS
  <2>2. /\ p.op = "unlink" /\ p # Idle /\ ReadingOK(p) /\ p.invoice \in LiveInvoices
        /\ req' = [req EXCEPT ![r] = Idle] /\ UNCHANGED vouchers
        /\ invoices' = [invoices EXCEPT ![p.invoice].status = "GONE"]
    BY <1>16, <2>1, Busy DEF InvoiceDelete, End, Goto, ReadingsSound
  <2>3. /\ p.invoice \in InvoiceIds
        /\ p.reverted \subseteq {p.est} /\ invoices[p.invoice].estimate = p.est
    BY <2>2 DEF ReadingOK, LiveInvoices, InvoiceIds
  <2>4. /\ estimate'[e].voucher = estimate[e].voucher /\ estimate'[e].bills = estimate[e].bills
        /\ estimate'[e].status = IF e \in p.reverted THEN "ACCEPTED" ELSE estimate[e].status
        /\ estimate'[e].invoice = IF e \in p.reverted \/ estimate[e].invoice = p.invoice
                                  THEN 0 ELSE estimate[e].invoice
        /\ estimate'[e] \in Row \cup {NoEstimate}
    BY <1>0, <1>16, <2>1, InvoiceDeleteRows
  <2>5. /\ InvoiceIds' = InvoiceIds
        /\ \A j \in InvoiceIds : /\ invoices'[j].estimate = invoices[j].estimate
                                 /\ invoices'[j].bills = invoices[j].bills
        /\ \A j \in InvoiceIds \ {p.invoice} : invoices'[j] = invoices[j]
        /\ invoices'[p.invoice].status = "GONE"
    BY <2>2, <2>3, InvoiceFacts
  <2>6. InvoicesOf(e)' = InvoicesOf(e) \ {p.invoice}
    BY <2>5, <2>3 DEF InvoicesOf, LiveInvoices, InvoiceIds
  <2>7. ASSUME p.est # e, NEW o, Follows(e, o)  PROVE Follows(e, o)'
    <3>1. p.invoice \notin InvoicesOf(e)
      BY <2>3, <2>7 DEF InvoicesOf
    <3>2. /\ estimate'[e].status = estimate[e].status
          /\ estimate'[e].invoice = estimate[e].invoice
      BY <1>0, <2>3, <2>4, <2>7, <3>1
    <3>3. InvoicesOf(e)' = InvoicesOf(e) /\ (Booked(e)' <=> Booked(e))
      BY <2>4, <2>6, <3>1 DEF Booked
    <3>. QED  BY <1>0, <2>2, <2>4, <2>5, <2>7, <3>2, <3>3 DEF Follows
  <2>8. ASSUME p.est = e, Follows(e, p)  PROVE Follows(e, Idle)'
    <3>1. e \in p.reverted /\ estimate[e].invoice = p.invoice
      BY <2>2, <2>8 DEF Follows
    <3>2. InvoicesOf(e)' = {}
      BY <2>2, <2>6, <2>8, <3>1 DEF Follows
    <3>3. ~ Booked(e)'
      BY <1>0, <2>3, <2>4, <2>8 DEF BookedIsFinal, Booked
    <3>. QED  BY <2>4, <3>1, <3>2, <3>3 DEF Follows, Idle
  <2>. QED  BY <1>0, <2>1, <2>2, <2>7, <2>8, ActTurn
<1>17. ASSUME AdvanceCommit(r)
      PROVE  Turns(e)'
  <2>1. PICK p : p = req[r]
    OBVIOUS
  <2>2. /\ p.op = "advance" /\ p # Idle /\ Post("RECEIPT")
        /\ req' = [req EXCEPT ![r] = Idle] /\ UNCHANGED <<estimate, invoices>>
    BY <1>17, <2>1, Busy DEF AdvanceCommit, End, Goto
  <2>3. InvoicesOf(e)' = InvoicesOf(e)
    BY <2>2 DEF InvoicesOf, LiveInvoices
  <2>4. Booked(e) => vouchers'[estimate[e].voucher] = vouchers[estimate[e].voucher]
    BY <1>0, <2>2, PostFacts DEF Booked
  <2>5. \A o : Follows(e, o) => Follows(e, o)'
    BY <2>2, <2>3, <2>4, FollowsFrame
  <2>6. Follows(e, p) => Follows(e, Idle)
    BY <2>2 DEF Follows, Idle
  <2>. QED  BY <1>0, <2>1, <2>2, <2>5, <2>6, ActTurn
<1>18. ASSUME Abandon(r)
      PROVE  Turns(e)'
  <2>1. PICK p : p = req[r]
    OBVIOUS
  <2>2. /\ p # Idle /\ req' = [req EXCEPT ![r] = Idle] /\ UNCHANGED tables
        /\ p.op \in {"void", "link"} => p.est \in disturbed'
    BY <1>18, <2>1 DEF Abandon
  <2>3. \A o : Follows(e, o) => Follows(e, o)'
    BY <2>2 DEF tables, Follows, Booked, InvoicesOf, LiveInvoices
  <2>4. p.est = e /\ Follows(e, p) => Follows(e, Idle)
    BY <1>0, <2>2 DEF Follows, Idle
  <2>. QED  BY <1>0, <2>1, <2>2, <2>3, <2>4, ActTurn
<1>19. ASSUME NEW f \in EstimateIds, NEW t \in Contents, NEW b \in BOOLEAN, Create(r, f, t, b)
      PROVE  Turns(e)'
  <2>1. /\ estimate[f].status = "NONE" /\ UNCHANGED <<invoices, req>>
    BY <1>19 DEF Create
  <2>2. f # e
    BY <1>0, <2>1
  <2>3. estimate'[e] = estimate[e]
    BY <1>0, <1>19, <2>2 DEF Create, TypeOK
  <2>4. Booked(e) => vouchers'[estimate[e].voucher] = vouchers[estimate[e].voucher]
    <3>1. CASE b
      BY <1>0, <1>19, <3>1, PostFacts DEF Create, Booked
    <3>2. CASE ~ b
      BY <1>19, <3>2 DEF Create
    <3>. QED  BY <3>1, <3>2
  <2>5. InvoicesOf(e)' = InvoicesOf(e)
    BY <2>1 DEF InvoicesOf, LiveInvoices
  <2>6. \A o : Follows(e, o) => Follows(e, o)'
    BY <2>1, <2>3, <2>4, <2>5, FollowsFrame
  <2>. QED  BY <2>1, <2>6, SameRequests
<1>20. ASSUME NEW k \in InvoiceIds, InvoiceCancel(r, k)
      PROVE  Turns(e)'
  <2>1. /\ invoices[k].status = "ISSUED" /\ invoices' = [invoices EXCEPT ![k].status = "CANCELLED"]
        /\ UNCHANGED <<estimate, vouchers, req>>
    BY <1>20 DEF InvoiceCancel
  <2>2. /\ InvoiceIds' = InvoiceIds
        /\ \A j \in InvoiceIds : /\ invoices'[j].estimate = invoices[j].estimate
                                 /\ invoices'[j].bills = invoices[j].bills
        /\ \A j \in InvoiceIds \ {k} : invoices'[j] = invoices[j]
        /\ invoices'[k].status = "CANCELLED"
    BY <2>1, InvoiceFacts
  <2>3. InvoicesOf(e)' = InvoicesOf(e)
    BY <2>1, <2>2 DEF InvoicesOf, LiveInvoices, InvoiceIds
  <2>4. \A o : Follows(e, o) => Follows(e, o)'
    BY <1>0, <2>1, <2>2, <2>3, FollowsFrame
  <2>. QED  BY <2>1, <2>4, SameRequests
<1>21. ASSUME NEW a \in advances, AdvanceDelete(r, a)
      PROVE  Turns(e)'
  <2>1. /\ vouchers' = [vouchers EXCEPT ![a.voucher].status = "CANCELLED"]
        /\ UNCHANGED <<estimate, invoices, req>>
    BY <1>21 DEF AdvanceDelete
  <2>2. PICK v \in VoucherIds : v = a.voucher
    BY DEF TypeOK
  <2>3. \A w \in VoucherIds \ {v} : vouchers'[w] = vouchers[w]
    BY <2>1, <2>2, VoucherMarked
  <2>4. Booked(e) => estimate[e].voucher \in VoucherIds \ {v}
    BY <1>0, <2>2 DEF Booked, SalesApart, Receipts, AdvancesStayInBooks
  <2>5. InvoicesOf(e)' = InvoicesOf(e)
    BY <2>1 DEF InvoicesOf, LiveInvoices
  <2>6. \A o : Follows(e, o) => Follows(e, o)'
    BY <2>1, <2>3, <2>4, <2>5, FollowsFrame
  <2>. QED  BY <2>1, <2>6, SameRequests
<1>22. ASSUME NEW v \in VoucherIds, VoucherCancel(r, v)
      PROVE  Turns(e)'
  <2>1. /\ vouchers' = [vouchers EXCEPT ![v].status = "CANCELLED"]
        /\ UNCHANGED <<estimate, invoices, req>>
        /\ estimate[e].voucher # v
    BY <1>0, <1>22 DEF VoucherCancel
  <2>2. \A w \in VoucherIds \ {v} : vouchers'[w] = vouchers[w]
    BY <2>1, VoucherMarked
  <2>3. Booked(e) => estimate[e].voucher \in VoucherIds \ {v}
    BY <1>0, <2>1 DEF Booked
  <2>4. InvoicesOf(e)' = InvoicesOf(e)
    BY <2>1 DEF InvoicesOf, LiveInvoices
  <2>5. \A o : Follows(e, o) => Follows(e, o)'
    BY <2>1, <2>2, <2>3, <2>4, FollowsFrame
  <2>. QED  BY <2>1, <2>5, SameRequests
<1>. QED
  BY <1>1, <1>2, <1>3, <1>4, <1>5, <1>6, <1>7, <1>8, <1>9, <1>10, <1>11, <1>12, <1>13, <1>14, <1>15,
     <1>16, <1>17, <1>18, <1>19, <1>20, <1>21, <1>22
  DEF VoucherIds, InvoiceIds

(* An estimate that is new has its voucher in the books, and no request or
   invoice. *)
LEMMA NewTurns ==
  ASSUME IInv, NEW r \in Requests, NEW e \in EstimateIds, NEW t \in Contents, NEW b \in BOOLEAN,
         Create(r, e, t, b)
  PROVE  Turns(e)'
<1>. USE DEF IInv
<1>. DEFINE v == IF b THEN NewVoucher ELSE 0
            row == [status |-> "OPEN", bills |-> t, invoice |-> 0, voucher |-> v]
<1>1. /\ estimate' = [estimate EXCEPT ![e] = row] /\ estimate[e].status = "NONE"
      /\ UNCHANGED <<invoices, req>>
  BY DEF Create
<1>2. row.status = "OPEN" /\ row.invoice = 0 /\ row.voucher = v
  OBVIOUS
<1>3. v # 0 => vouchers'[v].status = "ACTIVE"
  BY PostFacts DEF Create
<1>. HIDE DEF v, row
<1>4. estimate'[e] = row
  BY <1>1 DEF TypeOK
<1>5. e \notin Created
  BY <1>1 DEF Created
<1>6. \A s \in Requests : ~ At(s, e)'
  BY <1>1, <1>5 DEF At, ReadingsSound, ReadingOK
<1>7. InvoicesOf(e)' = {}
  BY <1>1, <1>5 DEF InvoicesOf, LiveInvoices, Origins, InvoiceIds
<1>8. Follows(e, Idle)'
  BY <1>2, <1>3, <1>4, <1>7 DEF Follows, Booked, Idle
<1>. QED  BY <1>6, <1>8 DEF Turns

(* No row comes back: only a creation adds one.                              *)
LEMMA RowsStored ==
  ASSUME IInv, NEW r \in Requests,
         \/ UpdateCommit(r) \/ StatusCommit(r) \/ CancelWrite(r) \/ ConvertLink(r)
         \/ RemoveCommit(r) \/ InvoiceDelete(r)
  PROVE  Stored' \subseteq Stored
<1>. USE DEF IInv
<1>1. CASE InvoiceDelete(r)
  BY <1>1, InvoiceDeleteRows DEF Stored
<1>2. CASE UpdateCommit(r) \/ StatusCommit(r) \/ CancelWrite(r) \/ ConvertLink(r) \/ RemoveCommit(r)
  <2>1. \A f \in EstimateIds \ Stored : estimate'[f] = estimate[f]
    BY <1>2 DEF UpdateCommit, StatusCommit, CancelWrite, ConvertLink, RemoveCommit, TypeOK
  <2>. QED  BY <2>1 DEF Stored
<1>. QED  BY <1>1, <1>2

LEMMA TurnsInductive == IInv /\ Receipts /\ CalmTurns /\ [Next]_vars => CalmTurns'
<1>. SUFFICES ASSUME IInv, Receipts, CalmTurns, [Next]_vars, NEW e \in Stored', e \notin disturbed'
              PROVE  Turns(e)'
  BY DEF CalmTurns
<1>1. e \in EstimateIds
  BY DEF Stored
<1>2. CASE UNCHANGED vars
  <2>1. e \in Stored \ disturbed
    BY <1>2 DEF vars, Stored
  <2>2. Turns(e)
    BY <2>1 DEF CalmTurns
  <2>. QED  BY <1>2, <2>2 DEF vars, Turns, At, Follows, Booked, InvoicesOf, LiveInvoices
<1>3. ASSUME NEW r \in Requests,
         \/ \E f \in EstimateIds :
              \/ \E t \in Contents :
                   UpdateRead(r, f, t) \/ \E b \in BOOLEAN : Create(r, f, t, b)
              \/ \E s \in Settable : StatusRead(r, f, s)
              \/ CancelRead(r, f) \/ RemoveRead(r, f) \/ ConvertRead(r, f) \/ AdvanceRead(r, f)
         \/ \E k \in DOMAIN invoices : InvoiceCancel(r, k) \/ InvoiceUnlink(r, k)
         \/ \E a \in advances : AdvanceDelete(r, a)
         \/ \E v \in DOMAIN vouchers : VoucherCancel(r, v)
         \/ UpdateCommit(r) \/ StatusCommit(r) \/ CancelCount(r) \/ CancelWrite(r)
         \/ CancelVoid(r) \/ RemoveCommit(r) \/ ConvertInvoice(r) \/ ConvertLink(r)
         \/ InvoiceDelete(r) \/ AdvanceCommit(r) \/ Abandon(r)
      PROVE  Turns(e)'
  <2>1. CASE e \in Stored \ disturbed
    <3>1. Turns(e)
      BY <2>1 DEF CalmTurns
    <3>. QED  BY <1>3, <2>1, <3>1, TurnsKept
  <2>2. ASSUME NEW t \in Contents, NEW b \in BOOLEAN, Create(r, e, t, b)
        PROVE  Turns(e)'
    BY <1>1, <2>2, NewTurns
  <2>3. ASSUME \A t \in Contents, b \in BOOLEAN : ~ Create(r, e, t, b)
        PROVE  e \in Stored
    <3>1. CASE UNCHANGED estimate
      BY <3>1 DEF Stored
    <3>2. ASSUME NEW f \in EstimateIds, NEW t \in Contents, NEW b \in BOOLEAN, Create(r, f, t, b)
          PROVE  e \in Stored
      <4>1. f # e
        BY <2>3, <3>2
      <4>2. estimate'[e] = estimate[e]
        BY <1>1, <3>2, <4>1 DEF Create, IInv, TypeOK
      <4>. QED  BY <4>2 DEF Stored
    <3>3. CASE \/ UpdateCommit(r) \/ StatusCommit(r) \/ CancelWrite(r) \/ ConvertLink(r)
               \/ RemoveCommit(r) \/ InvoiceDelete(r)
      BY <3>3, RowsStored
    <3>. QED
      BY <1>3, <3>1, <3>2, <3>3
      DEF tables, UpdateRead, StatusRead, CancelRead, RemoveRead, ConvertRead, AdvanceRead, InvoiceCancel,
          InvoiceUnlink, AdvanceDelete, VoucherCancel, CancelCount, CancelVoid, ConvertInvoice,
          AdvanceCommit, Abandon
  <2>4. disturbed \subseteq disturbed'
    BY <1>3
    DEF tables, UpdateRead, StatusRead, CancelRead, RemoveRead, ConvertRead, AdvanceRead, InvoiceCancel,
        InvoiceUnlink, AdvanceDelete, VoucherCancel, CancelCount, CancelVoid, ConvertInvoice, AdvanceCommit,
        Abandon, Create, UpdateCommit, StatusCommit, CancelWrite, ConvertLink, RemoveCommit, InvoiceDelete,
        Begin, Goto, End
  <2>. QED  BY <2>1, <2>2, <2>3, <2>4
<1>. QED  BY <1>2, <1>3 DEF Next

LEMMA TurnsInvariance == Spec => [](IInv /\ CalmTurns)
<1>1. Init => CalmTurns
  BY DEF Init, CalmTurns, Stored, NoEstimate
<1>2. IInv /\ Receipts /\ CalmTurns /\ [Next]_vars => CalmTurns'
  BY TurnsInductive
<1>. QED  BY <1>1, <1>2, Invariance, ReceiptsInvariance, PTL DEF Spec

LEMMA SettledFollows ==
  ASSUME IInv, CalmTurns, NEW e \in EstimateIds, Settled(e)
  PROVE  Follows(e, Idle)
BY DEF CalmTurns, Settled, Turns, At

(* A booked estimate is in the books until it is cancelled and not after, as
   long as requests on it take turns and none is lost between the two writes of a
   cancellation. *)
THEOREM BookedTillCancelled == Spec => []InBooksUntilCancelled
<1>1. IInv /\ CalmTurns => InBooksUntilCancelled
  <2>. SUFFICES ASSUME IInv, CalmTurns, NEW e \in EstimateIds, Settled(e), Booked(e)
                PROVE  vouchers[estimate[e].voucher].status = "ACTIVE" <=> estimate[e].status # "CANCELLED"
    BY DEF InBooksUntilCancelled
  <2>. QED  BY SettledFollows DEF Follows, Idle
<1>. QED  BY <1>1, TurnsInvariance, PTL

(* Under the same conditions a converted estimate has its one invoice, for the
   lines it has itself and none of its freight and other charges, and one that is not
   converted has none: not even a removal of the invoice leaves the one without the
   other. *)
THEOREM OneInvoiceWhenCalm == Spec => []ConvertedOnce
<1>1. IInv /\ CalmTurns => ConvertedOnce
  <2>. SUFFICES ASSUME IInv, CalmTurns, NEW e \in EstimateIds, Settled(e)
                PROVE  /\ InvoicesOf(e) = {estimate[e].invoice} \ {0}
                       /\ estimate[e].status = "CONVERTED" <=> estimate[e].invoice # 0
                       /\ \A k \in InvoicesOf(e) : invoices[k].bills = TakenOver(estimate[e].bills)
    BY DEF ConvertedOnce
  <2>1. Follows(e, Idle)
    BY SettledFollows
  <2>2. 0 \notin InvoicesOf(e)
    BY RowFields DEF IInv, InvoicesOf, LiveInvoices, InvoiceIds
  <2>3. estimate[e].invoice # 0 => estimate[e].invoice \in InvoicesOf(e)
    BY DEF IInv, LinksAreSound, Settled
  <2>. QED  BY <2>1, <2>2, <2>3 DEF Follows, Idle
<1>. QED  BY <1>1, TurnsInvariance, PTL
=============================================================================
