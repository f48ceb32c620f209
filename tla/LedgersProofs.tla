---------------------------- MODULE LedgersProofs ----------------------------
(***************************************************************************)
(* Reports have two equal sides, periods connect, and parties keep their   *)
(* ledgers' names, for any number of ledgers, parties and vouchers: double *)
(* entry makes the sums of the lines cancel out, whatever is between the   *)
(* queries of a report, as long as no ledger is inserted meanwhile.        *)
(***************************************************************************)
EXTENDS Ledgers, SumLemmas, SequenceTheorems, TLAPS

LedgerRow == [name : Names \cup {"Cash", "Sales", Freight}, nature : Natures, opening : Int]
PartyRow == [name : Names, ledger : Nat, raced : BOOLEAN]
VoucherRow ==
  [date : Days, dr : Nat, drAmt : Amounts, cr : Nat, crAmt : Amounts, active : BOOLEAN]

(* The tables: rows refer to ledgers that are there, no ledger belongs to two
   parties, and every voucher balances. *)
LedgerTable(L) ==
  /\ L \in Seq(LedgerRow)
  /\ Len(L) >= 1
  /\ \A k, l \in 1..Len(L) : L[k].name = L[l].name => k = l
PartyTable(P, n) ==
  /\ P \in Seq(PartyRow)
  /\ \A p \in 1..Len(P) : P[p].ledger \in 1..n
  /\ \A p, q \in 1..Len(P) : P[q].ledger = P[p].ledger => q = p
VoucherTable(V, n) ==
  /\ V \in Seq(VoucherRow)
  /\ \A v \in 1..Len(V) : V[v].dr \in 1..n /\ V[v].cr \in 1..n /\ V[v].drAmt = V[v].crAmt

Tables ==
  /\ LedgerTable(ledgers)
  /\ PartyTable(parties, Len(ledgers))
  /\ VoucherTable(vouchers, Len(ledgers))

(* What a request has read of n ledgers and m parties.                        *)
Fits(q, n, m) ==
  /\ q.op = "insert" => q.name \in Names
  /\ q.op = "rename" => q.party \in 1..m /\ q.from \in Names /\ q.to \in Names
  /\ q.op = "freight" => q.side \in Sides
  /\ q.op = "post" => q.ledger \in 1..n
  /\ q.op = "report" =>
       /\ q = [op |-> "report", calm |-> q.calm, left |-> q.left, rows |-> q.rows,
               sums |-> q.sums, openingDiff |-> q.openingDiff]
       /\ q.calm \in BOOLEAN

OpeningsOf(L) == SumFunctionOnSet([l \in DOMAIN L |-> L[l].opening], DOMAIN L)

(* A report that no ledger was inserted beside: all rows, sums that cancel out,
   and the openings as they still are. *)
Snapshot(q, L) ==
  q.op = "report" /\ q.calm =>
    /\ "nets" \notin q.left => q.rows = Len(L)
    /\ "sums" \notin q.left => /\ q.sums \in [1..Len(L) -> Int]
                               /\ SumFunctionOnSet(q.sums, 1..Len(L)) = 0
    /\ "openings" \notin q.left => q.openingDiff = OpeningsOf(L)

Requested ==
  /\ req = [r \in Requests |-> req[r]]
  /\ \A r \in Requests : Fits(req[r], Len(ledgers), Len(parties)) /\ Snapshot(req[r], ledgers)

IInv == Tables /\ Requested /\ Lockstep

-----------------------------------------------------------------------------
Owner(name, l) == [name |-> name, ledger |-> l, raced |-> FALSE]

(* The sequences as functions.                                               *)
LEMMA Domains ==
  ASSUME Tables
  PROVE  /\ DOMAIN ledgers = 1..Len(ledgers) /\ Len(ledgers) \in Nat
         /\ DOMAIN parties = 1..Len(parties) /\ Len(parties) \in Nat
         /\ DOMAIN vouchers = 1..Len(vouchers) /\ Len(vouchers) \in Nat
BY DEF Tables, LedgerTable, PartyTable, VoucherTable

(* A step of request r that leaves the tables alone.                         *)
LEMMA RequestStep ==
  ASSUME IInv, UNCHANGED <<ledgers, parties, vouchers>>, NEW r \in Requests, NEW q,
         req' = [req EXCEPT ![r] = q],
         Fits(q, Len(ledgers), Len(parties)), Snapshot(q, ledgers)
  PROVE  IInv'
<1>1. Tables' /\ Lockstep'
  BY DEF IInv, Tables, Lockstep
<1>2. Requested'
  BY DEF IInv, Requested
<1>. QED  BY <1>1, <1>2 DEF IInv

(* A ledger is inserted by request r, which goes on as q.                     *)
LEMMA InsertStep ==
  ASSUME ConstantsOK, IInv, NEW row \in LedgerRow, \A l \in 1..Len(ledgers) : ledgers[l].name # row.name,
         ledgers' = Append(ledgers, row), UNCHANGED vouchers,
         \/ UNCHANGED parties
         \/ row.name \in Names
            /\ parties' = Append(parties, Owner(row.name, Len(ledgers) + 1)),
         NEW r \in Requests, NEW q, Disturb(r, q),
         q.op # "report", Fits(q, Len(ledgers) + 1, Len(parties))
  PROVE  IInv'
<1>1. /\ Len(ledgers) \in Nat /\ Len(ledgers') = Len(ledgers) + 1
      /\ ledgers'[Len(ledgers) + 1] = row
      /\ \A l \in 1..Len(ledgers) : ledgers'[l] = ledgers[l]
  BY DEF IInv, Tables, LedgerTable
<1>2. LedgerTable(ledgers')
  BY <1>1 DEF IInv, Tables, LedgerTable
<1>3. /\ Len(parties) \in Nat /\ Len(parties') \in Nat /\ Len(parties') >= Len(parties)
      /\ PartyTable(parties', Len(ledgers) + 1)
  <2>1. /\ parties \in Seq(PartyRow) /\ Len(parties) \in Nat
        /\ PartyTable(parties, Len(ledgers) + 1) /\ \A p \in 1..Len(parties) : parties[p].ledger <= Len(ledgers)
    BY <1>1 DEF IInv, Tables, PartyTable
  <2>2. CASE UNCHANGED parties
    BY <2>1, <2>2
  <2>3. CASE row.name \in Names /\ parties' = Append(parties, Owner(row.name, Len(ledgers) + 1))
    <3>1. PICK owner : owner = Owner(row.name, Len(ledgers) + 1)
      OBVIOUS
    <3>2. owner \in PartyRow /\ owner.ledger = Len(ledgers) + 1
      BY <1>1, <2>3, <3>1 DEF PartyRow, Owner
    <3>3. /\ parties' \in Seq(PartyRow) /\ Len(parties') = Len(parties) + 1
          /\ parties'[Len(parties) + 1] = owner
          /\ \A p \in 1..Len(parties) : parties'[p] = parties[p]
      BY <2>1, <2>3, <3>1, <3>2
    <3>4. \A p \in 1..Len(parties') : p \in 1..Len(parties) \/ p = Len(parties) + 1
      BY <2>1, <3>3
    <3>5. \A p \in 1..Len(parties') : parties'[p].ledger \in 1..Len(ledgers) + 1
      BY <1>1, <2>1, <3>2, <3>3, <3>4 DEF PartyTable
    <3>6. \A p, o \in 1..Len(parties') : parties'[o].ledger = parties'[p].ledger => o = p
      BY <1>1, <2>1, <3>2, <3>3, <3>4 DEF PartyTable
    <3>. QED  BY <2>1, <3>3, <3>5, <3>6 DEF PartyTable
  <2>. QED  BY <2>2, <2>3
<1>4. VoucherTable(vouchers', Len(ledgers) + 1)
  BY <1>1 DEF IInv, Tables, VoucherTable
<1>5. Lockstep'
  <2>1. ASSUME NEW p \in 1..Len(parties)
        PROVE  parties[p].raced \/ ledgers'[parties[p].ledger].name = parties[p].name
    <3>1. parties[p].ledger \in 1..Len(ledgers)
      BY DEF IInv, Tables, PartyTable
    <3>2. parties[p].raced \/ ledgers[parties[p].ledger].name = parties[p].name
      BY Domains DEF IInv, Lockstep
    <3>. QED  BY <1>1, <3>1, <3>2
  <2>2. CASE UNCHANGED parties
    BY <2>1, <2>2, Domains DEF IInv, Lockstep
  <2>3. CASE parties' = Append(parties, Owner(row.name, Len(ledgers) + 1))
    <3>1. /\ Len(parties') = Len(parties) + 1 /\ DOMAIN parties' = 1..Len(parties')
          /\ parties'[Len(parties) + 1] = Owner(row.name, Len(ledgers) + 1)
          /\ \A p \in 1..Len(parties) : parties'[p] = parties[p]
      BY <2>3, <1>3 DEF IInv, Tables, PartyTable
    <3>2. ASSUME NEW p \in 1..Len(parties')
          PROVE  parties'[p].raced \/ ledgers'[parties'[p].ledger].name = parties'[p].name
      <4>1. CASE p \in 1..Len(parties)
        BY <2>1, <3>1, <4>1
      <4>2. CASE p = Len(parties) + 1
        <5>1. parties'[p].ledger = Len(ledgers) + 1 /\ parties'[p].name = row.name
          BY <3>1, <4>2 DEF Owner
        <5>. QED  BY <1>1, <5>1
      <4>3. p \in 1..Len(parties) \/ p = Len(parties) + 1
        BY <1>3, <3>1
      <4>. QED  BY <4>1, <4>2, <4>3, Zenon
    <3>. QED  BY <3>1, <3>2 DEF Lockstep
  <2>. QED  BY <2>2, <2>3
<1>6. Requested'
  <2>1. req' = [s \in Requests |-> req'[s]]
    BY Zenon DEF Disturb
  <2>2. ASSUME NEW s \in Requests
        PROVE  Fits(req'[s], Len(ledgers) + 1, Len(parties')) /\ Snapshot(req'[s], ledgers')
    <3>1. CASE s = r
      <4>1. req'[s] = q
        BY <3>1 DEF Disturb
      <4>. QED  BY <1>1, <1>3, <4>1 DEF Fits, Snapshot
    <3>2. CASE s # r /\ req[s].op = "report"
      <4>1. req'[s] = [req[s] EXCEPT !.calm = FALSE]
        BY <3>2 DEF Disturb
      <4>2. req[s] = [op |-> "report", calm |-> req[s].calm, left |-> req[s].left, rows |-> req[s].rows,
               sums |-> req[s].sums, openingDiff |-> req[s].openingDiff]
        BY <3>2 DEF IInv, Requested, Fits
      <4>3. req'[s] = [op |-> "report", calm |-> FALSE, left |-> req[s].left, rows |-> req[s].rows,
               sums |-> req[s].sums, openingDiff |-> req[s].openingDiff]
        <5>1. PICK c, f, k, sums, diff :
                /\ c = req[s].calm /\ f = req[s].left /\ k = req[s].rows
                /\ sums = req[s].sums /\ diff = req[s].openingDiff
          OBVIOUS
        <5>2. PICK old, no : old = req[s] /\ no = FALSE
          OBVIOUS
        <5>3. old = [op |-> "report", calm |-> c, left |-> f, rows |-> k, sums |-> sums, openingDiff |-> diff]
          BY <4>2, <5>1, <5>2
        <5>4. [old EXCEPT !.calm = no]
                = [op |-> "report", calm |-> no, left |-> f, rows |-> k, sums |-> sums, openingDiff |-> diff]
          BY <5>3
        <5>. QED  BY <4>1, <5>1, <5>2, <5>4
      <4>. QED  BY <4>3 DEF Fits, Snapshot
    <3>3. CASE s # r /\ req[s].op # "report"
      <4>1. req'[s] = req[s]
        BY <3>3 DEF Disturb
      <4>. QED  BY <1>1, <1>3, <3>3, <4>1 DEF Fits, Snapshot, IInv, Requested
    <3>. QED  BY <3>1, <3>2, <3>3
  <2>. QED  BY <1>1, <2>1, <2>2 DEF Requested
<1>. QED  BY <1>1, <1>2, <1>3, <1>4, <1>5, <1>6 DEF IInv, Tables

-----------------------------------------------------------------------------
(* A request that begins or ends reads no table.                             *)
LEMMA Nothing ==
  ASSUME ConstantsOK, NEW n, NEW m, NEW L
  PROVE  Fits(Idle, n, m) /\ Snapshot(Idle, L)
BY DEF ConstantsOK, Idle, Fits, Snapshot

(* The names read are checked against the tables: reading changes none.      *)
LEMMA BeginSteps ==
  ASSUME ConstantsOK, IInv, NEW r \in Requests,
         \/ \E name \in Names : InsertRead(r, name)
         \/ \E p \in DOMAIN parties, name \in Names : RenameRead(r, p, name)
         \/ \E side \in Sides : FreightRead(r, side)
         \/ ReportStart(r)
  PROVE  IInv'
<1>1. ASSUME NEW name \in Names, InsertRead(r, name)  PROVE IInv'
  <2>1. PICK q : q = [op |-> "insert", name |-> name]
    OBVIOUS
  <2>2. req' = [req EXCEPT ![r] = q] /\ UNCHANGED <<ledgers, parties, vouchers>>
    BY <1>1, <2>1 DEF InsertRead, Begin
  <2>3. Fits(q, Len(ledgers), Len(parties)) /\ Snapshot(q, ledgers)
    BY <2>1 DEF Fits, Snapshot
  <2>. QED  BY <2>2, <2>3, RequestStep
<1>2. ASSUME NEW p \in DOMAIN parties, NEW name \in Names, RenameRead(r, p, name)  PROVE IInv'
  <2>1. PICK q : q = [op |-> "rename", party |-> p, from |-> parties[p].name, to |-> name]
    OBVIOUS
  <2>2. req' = [req EXCEPT ![r] = q] /\ UNCHANGED <<ledgers, parties, vouchers>>
    BY <1>2, <2>1 DEF RenameRead, Begin
  <2>3. p \in 1..Len(parties) /\ parties[p].name \in Names
    <3>1. p \in 1..Len(parties) /\ parties \in Seq(PartyRow)
      BY Domains DEF IInv, Tables, PartyTable
    <3>2. parties[p] \in PartyRow
      BY <3>1, ElementOfSeq
    <3>. QED  BY <3>1, <3>2 DEF PartyRow
  <2>4. Fits(q, Len(ledgers), Len(parties)) /\ Snapshot(q, ledgers)
    BY <2>1, <2>3 DEF Fits, Snapshot
  <2>. QED  BY <2>2, <2>4, RequestStep
<1>3. ASSUME NEW side \in Sides, FreightRead(r, side)  PROVE IInv'
  <2>1. PICK q : q = IF Taken(Freight) THEN PostTo(FreightLedger, side)
                     ELSE [op |-> "freight", side |-> side]
    OBVIOUS
  <2>2. req' = [req EXCEPT ![r] = q] /\ UNCHANGED <<ledgers, parties, vouchers>>
    BY <1>3, <2>1 DEF FreightRead, Begin
  <2>3. Fits(q, Len(ledgers), Len(parties)) /\ Snapshot(q, ledgers)
    <3>1. CASE Taken(Freight)
      <4>1. FreightLedger \in 1..Len(ledgers)
        BY <3>1, Domains DEF Taken, FreightLedger, IInv
      <4>. QED  BY <2>1, <3>1, <4>1 DEF PostTo, Fits, Snapshot
    <3>2. CASE ~ Taken(Freight)
      BY <2>1, <3>2 DEF Fits, Snapshot
    <3>. QED  BY <3>1, <3>2
  <2>. QED  BY <2>2, <2>3, RequestStep
<1>4. ASSUME ReportStart(r)  PROVE IInv'
  <2>1. PICK q : q = [op |-> "report", calm |-> TRUE, left |-> {"nets", "sums", "openings"},
                      rows |-> 0, sums |-> <<>>, openingDiff |-> 0]
    OBVIOUS
  <2>2. req' = [req EXCEPT ![r] = q] /\ UNCHANGED <<ledgers, parties, vouchers>>
    BY <1>4, <2>1 DEF ReportStart, Begin
  <2>3. Fits(q, Len(ledgers), Len(parties)) /\ Snapshot(q, ledgers)
    BY <2>1 DEF Fits, Snapshot
  <2>. QED  BY <2>2, <2>3, RequestStep
<1>. QED  BY <1>1, <1>2, <1>3, <1>4

(* A request that inserts, or finds the name taken.                          *)
LEMMA InsertSteps ==
  ASSUME ConstantsOK, IInv, NEW r \in Requests,
         (\E form \in Forms : InsertCommit(r, form)) \/ FreightCreate(r)
  PROVE  IInv'
<1>1. ASSUME UNCHANGED <<ledgers, parties, vouchers>>, End(r)  PROVE IInv'
  BY <1>1, Nothing, RequestStep DEF End
<1>2. ASSUME NEW form \in Forms, InsertCommit(r, form), ~ Taken(req[r].name)  PROVE IInv'
  <2>1. PICK row : row = Ledger(req[r].name, form.nature, form.opening)
    OBVIOUS
  <2>2. req[r].name \in Names
    BY <1>2 DEF InsertCommit, IInv, Requested, Fits
  <2>3. row \in LedgerRow /\ row.name = req[r].name
    BY <2>1, <2>2 DEF ConstantsOK, Ledger, LedgerRow
  <2>4. \A l \in 1..Len(ledgers) : ledgers[l].name # row.name
    BY <1>2, <2>3, Domains DEF Taken, IInv
  <2>5. ledgers' = Append(ledgers, row) /\ UNCHANGED vouchers /\ Disturb(r, Idle)
    BY <1>2, <2>1 DEF InsertCommit
  <2>6. Len(ledgers') = Len(ledgers) + 1
    BY <2>3, <2>5 DEF IInv, Tables, LedgerTable
  <2>7. UNCHANGED parties \/ parties' = Append(parties, Owner(row.name, Len(ledgers) + 1))
    BY <1>2, <2>3, <2>6 DEF InsertCommit, Owner
  <2>8. Idle.op # "report" /\ Fits(Idle, Len(ledgers) + 1, Len(parties))
    BY Nothing DEF Idle, ConstantsOK
  <2>. QED  BY <2>2, <2>3, <2>4, <2>5, <2>7, <2>8, InsertStep
<1>3. ASSUME FreightCreate(r), ~ Taken(Freight)  PROVE IInv'
  <2>1. PICK row : row = Ledger(Freight, req[r].side, 0)
    OBVIOUS
  <2>2. req[r].side \in Sides
    BY <1>3 DEF FreightCreate, IInv, Requested, Fits
  <2>3. row \in LedgerRow /\ row.name = Freight
    BY <2>1, <2>2 DEF Ledger, LedgerRow, Sides, Natures
  <2>4. \A l \in 1..Len(ledgers) : ledgers[l].name # row.name
    BY <1>3, <2>3, Domains DEF Taken, IInv
  <2>5. ledgers' = Append(ledgers, row) /\ UNCHANGED <<parties, vouchers>>
    BY <1>3, <2>1 DEF FreightCreate
  <2>6. Len(ledgers) \in Nat /\ Len(ledgers') = Len(ledgers) + 1
    BY <2>3, <2>5 DEF IInv, Tables, LedgerTable
  <2>7. PICK q : q = PostTo(Len(ledgers) + 1, req[r].side)
    OBVIOUS
  <2>8. Disturb(r, q)
    BY <1>3, <2>6, <2>7 DEF FreightCreate
  <2>9. q.op # "report" /\ Fits(q, Len(ledgers) + 1, Len(parties))
    BY <2>6, <2>7 DEF PostTo, Fits
  <2>. QED  BY <2>3, <2>4, <2>5, <2>8, <2>9, InsertStep
<1>. QED  BY <1>1, <1>2, <1>3 DEF InsertCommit, FreightCreate

-----------------------------------------------------------------------------
(* Vouchers come and go; the rest is as it was, but for request r.            *)
LEMMA VoucherStep ==
  ASSUME ConstantsOK, IInv, UNCHANGED <<ledgers, parties>>, VoucherTable(vouchers', Len(ledgers)),
         UNCHANGED req \/ \E r \in Requests : End(r)
  PROVE  IInv'
<1>1. Tables' /\ Lockstep'
  BY DEF IInv, Tables, Lockstep
<1>2. Requested'
  <2>1. CASE UNCHANGED req
    BY <2>1 DEF IInv, Requested
  <2>2. ASSUME NEW r \in Requests, End(r)  PROVE Requested'
    BY <2>2, Nothing DEF End, IInv, Requested
  <2>. QED  BY <2>1, <2>2
<1>. QED  BY <1>1, <1>2 DEF IInv

(* A voucher added balances.                                                  *)
LEMMA VoucherAdded ==
  ASSUME ConstantsOK, IInv, NEW d \in Days, NEW dr \in 1..Len(ledgers), NEW cr \in 1..Len(ledgers),
         NEW k \in Amounts, vouchers' = Append(vouchers, Voucher(d, dr, k, cr, k))
  PROVE  VoucherTable(vouchers', Len(ledgers))
<1>1. PICK row : row = Voucher(d, dr, k, cr, k)
  OBVIOUS
<1>2. Len(ledgers) \in Nat /\ Len(vouchers) \in Nat
  BY Domains DEF IInv
<1>3. /\ row \in VoucherRow /\ row.dr = dr /\ row.cr = cr /\ row.drAmt = row.crAmt
  BY <1>1, <1>2 DEF Voucher, VoucherRow
<1>4. /\ vouchers' \in Seq(VoucherRow) /\ Len(vouchers') = Len(vouchers) + 1
      /\ vouchers'[Len(vouchers) + 1] = row /\ \A v \in 1..Len(vouchers) : vouchers'[v] = vouchers[v]
  BY <1>1, <1>3 DEF IInv, Tables, VoucherTable
<1>5. \A v \in 1..Len(vouchers') : v \in 1..Len(vouchers) \/ v = Len(vouchers) + 1
  BY <1>2, <1>4
<1>. QED  BY <1>3, <1>4, <1>5 DEF IInv, Tables, VoucherTable

(* Postings and cancellations: what is added balances, and what is cancelled
   keeps its lines. *)
LEMMA VoucherSteps ==
  ASSUME ConstantsOK, IInv,
         \/ \E r \in Requests, d \in Days, k \in Amounts : FreightPost(r, d, k)
         \/ \E d \in Days, dr, cr \in DOMAIN ledgers, j, k \in Amounts : CreateVoucher(d, dr, j, cr, k)
         \/ \E v \in DOMAIN vouchers : CancelVoucher(v)
  PROVE  IInv'
<1>1. VoucherTable(vouchers, Len(ledgers)) /\ 1 \in 1..Len(ledgers)
  BY DEF IInv, Tables, LedgerTable
<1>2. ASSUME NEW r \in Requests, NEW d \in Days, NEW k \in Amounts, FreightPost(r, d, k)  PROVE IInv'
  <2>1. req[r].ledger \in 1..Len(ledgers)
    BY <1>2 DEF FreightPost, IInv, Requested, Fits
  <2>2. CASE UNCHANGED vouchers
    BY <1>1, <1>2, <2>2, VoucherStep DEF FreightPost
  <2>3. CASE vouchers' # vouchers
    <3>1. PICK dr \in 1..Len(ledgers), cr \in 1..Len(ledgers) :
            vouchers' = Append(vouchers, Voucher(d, dr, k, cr, k))
      BY <1>1, <1>2, <2>1, <2>3 DEF FreightPost
    <3>. QED  BY <1>2, <3>1, VoucherAdded, VoucherStep DEF FreightPost
  <2>. QED  BY <2>2, <2>3
<1>3. ASSUME NEW d \in Days, NEW dr \in DOMAIN ledgers, NEW cr \in DOMAIN ledgers,
             NEW j \in Amounts, NEW k \in Amounts, CreateVoucher(d, dr, j, cr, k)  PROVE IInv'
  <2>1. dr \in 1..Len(ledgers) /\ cr \in 1..Len(ledgers)
    BY Domains DEF IInv
  <2>2. vouchers' = Append(vouchers, Voucher(d, dr, k, cr, k)) /\ UNCHANGED <<ledgers, parties, req>>
    BY <1>3 DEF CreateVoucher
  <2>. QED  BY <2>1, <2>2, VoucherAdded, VoucherStep
<1>4. ASSUME NEW v \in DOMAIN vouchers, CancelVoucher(v)  PROVE IInv'
  <2>1. PICK old, row : old = vouchers[v] /\ row = [old EXCEPT !.active = FALSE]
    OBVIOUS
  <2>2. old \in VoucherRow /\ v \in 1..Len(vouchers)
    BY <2>1, Domains DEF IInv, Tables, VoucherTable
  <2>3. row \in VoucherRow
    BY <2>1, <2>2 DEF VoucherRow
  <2>4. row.dr = old.dr /\ row.cr = old.cr /\ row.drAmt = old.drAmt /\ row.crAmt = old.crAmt
    BY <2>1, <2>2 DEF VoucherRow
  <2>5. vouchers' = [vouchers EXCEPT ![v] = row] /\ UNCHANGED <<ledgers, parties, req>>
    BY <1>4, <2>1 DEF CancelVoucher
  <2>6. /\ vouchers' \in Seq(VoucherRow) /\ Len(vouchers') = Len(vouchers)
        /\ \A w \in 1..Len(vouchers) : vouchers'[w] = IF w = v THEN row ELSE vouchers[w]
    BY <1>1, <2>2, <2>3, <2>5 DEF VoucherTable
  <2>7. VoucherTable(vouchers', Len(ledgers))
    BY <1>1, <2>1, <2>4, <2>6 DEF VoucherTable
  <2>. QED  BY <2>5, <2>7, VoucherStep
<1>. QED  BY <1>2, <1>3, <1>4

-----------------------------------------------------------------------------
(* A ledger renamed has its opening as before.                               *)
LEMMA RenamedLedgers ==
  ASSUME ConstantsOK, IInv, NEW own \in 1..Len(ledgers), NEW to \in Names, NEW L,
         \/ L = ledgers
         \/ /\ L = [ledgers EXCEPT ![own].name = to]
            /\ \A l \in 1..Len(ledgers) : ledgers[l].name = to => l = own
  PROVE  /\ LedgerTable(L) /\ Len(L) = Len(ledgers) /\ OpeningsOf(L) = OpeningsOf(ledgers)
         /\ \A l \in 1..Len(ledgers) : l # own => L[l] = ledgers[l]
         /\ L = [ledgers EXCEPT ![own].name = to] => L[own].name = to
<1>1. LedgerTable(ledgers) /\ Len(ledgers) \in Nat
  BY DEF IInv, Tables, LedgerTable
<1>2. LedgerTable(ledgers) /\ own \in DOMAIN ledgers /\ ledgers[own] \in LedgerRow
  BY <1>1, ElementOfSeq DEF LedgerTable
<1>4. L = [ledgers EXCEPT ![own].name = to] => L[own].name = to
  <2>1. PICK old, row : old = ledgers[own] /\ row = [old EXCEPT !.name = to]
    OBVIOUS
  <2>2. row.name = to
    BY <1>2, <2>1 DEF LedgerRow
  <2>. QED  BY <1>2, <2>1, <2>2
<1>3. CASE /\ L = [ledgers EXCEPT ![own].name = to]
           /\ \A l \in 1..Len(ledgers) : ledgers[l].name = to => l = own
  <2>1. PICK old, row : old = ledgers[own] /\ row = [old EXCEPT !.name = to]
    OBVIOUS
  <2>2. old \in LedgerRow /\ row \in LedgerRow /\ row.name = to /\ row.opening = old.opening
    <3>1. old \in LedgerRow
      BY <1>1, <2>1, ElementOfSeq DEF LedgerTable
    <3>. QED  BY <2>1, <3>1 DEF LedgerRow
  <2>3. L = [ledgers EXCEPT ![own] = row]
    BY <1>3, <2>1
  <2>4. /\ L \in Seq(LedgerRow) /\ Len(L) = Len(ledgers)
        /\ \A l \in 1..Len(ledgers) : L[l] = IF l = own THEN row ELSE ledgers[l]
    BY <1>1, <2>2, <2>3 DEF LedgerTable
  <2>5. LedgerTable(L)
    BY <1>1, <1>3, <2>2, <2>4 DEF LedgerTable
  <2>6. DOMAIN L = DOMAIN ledgers /\ \A l \in DOMAIN ledgers : L[l].opening = ledgers[l].opening
    BY <1>1, <2>1, <2>2, <2>4 DEF LedgerTable
  <2>7. [l \in DOMAIN L |-> L[l].opening] = [l \in DOMAIN ledgers |-> ledgers[l].opening]
    BY <2>6
  <2>8. OpeningsOf(L) = OpeningsOf(ledgers)
    BY <2>6, <2>7 DEF OpeningsOf
  <2>. QED  BY <2>2, <2>4, <2>5, <2>8
<1>5. CASE L = ledgers
  BY <1>1, <1>4, <1>5
<1>. QED  BY <1>3, <1>4, <1>5

(* A party and its ledger change names together, unless another update has   *)
(* changed the party's name since it was read.                               *)
LEMMA RenameStep ==
  ASSUME ConstantsOK, IInv, NEW r \in Requests, RenameCommit(r)
  PROVE  IInv'
<1>1. PICK q : q = req[r]
  OBVIOUS
<1>2. q.op = "rename" /\ End(r) /\ UNCHANGED vouchers
  BY <1>1 DEF RenameCommit
<1>3. q.party \in 1..Len(parties) /\ q.from \in Names /\ q.to \in Names
  BY <1>1, <1>2 DEF IInv, Requested, Fits
<1>4. PICK old, own : old = parties[q.party] /\ own = old.ledger
  OBVIOUS
<1>5. old \in PartyRow /\ own \in 1..Len(ledgers)
  BY <1>3, <1>4 DEF IInv, Tables, PartyTable
<1>6. CASE UNCHANGED <<ledgers, parties>>
  BY <1>2, <1>6, Nothing, RequestStep DEF End
<1>7. CASE ~ UNCHANGED <<ledgers, parties>>
  <2>1. PICK b \in BOOLEAN : b = (old.raced \/ q.from # old.name)
    BY <1>5 DEF PartyRow
  <2>2. PICK row : row = [old EXCEPT !.name = q.to, !.raced = b]
    OBVIOUS
  <2>3. /\ ledgers' = IF q.to = q.from THEN ledgers ELSE [ledgers EXCEPT ![own].name = q.to]
        /\ q.to # q.from => {l \in DOMAIN ledgers : ledgers[l].name = q.to} \ {own} = {}
        /\ parties' = [parties EXCEPT ![q.party].name = q.to,
                          ![q.party].raced = parties[q.party].raced \/ q.from # parties[q.party].name]
    BY <1>1, <1>4, <1>7 DEF RenameCommit
  <2>4. row \in PartyRow /\ row.name = q.to /\ row.ledger = own /\ row.raced = b
    BY <1>3, <1>4, <1>5, <2>1, <2>2 DEF PartyRow
  <2>5. parties' = [parties EXCEPT ![q.party] = row]
    BY <1>4, <2>1, <2>2, <2>3, <1>3, Domains DEF IInv
  <2>6. PICK L : L = ledgers'
    OBVIOUS
  <2>7. \/ L = ledgers
        \/ /\ L = [ledgers EXCEPT ![own].name = q.to]
           /\ \A l \in 1..Len(ledgers) : ledgers[l].name = q.to => l = own
    BY <2>3, <2>6, Domains DEF IInv
  <2>8. /\ LedgerTable(L) /\ Len(L) = Len(ledgers) /\ OpeningsOf(L) = OpeningsOf(ledgers)
        /\ \A l \in 1..Len(ledgers) : l # own => L[l] = ledgers[l]
    BY <1>3, <1>5, <2>7, RenamedLedgers
  <2>9. /\ parties' \in Seq(PartyRow) /\ Len(parties') = Len(parties)
        /\ \A p \in 1..Len(parties) : parties'[p] = IF p = q.party THEN row ELSE parties[p]
    BY <1>3, <2>4, <2>5 DEF IInv, Tables, PartyTable
  <2>10. PartyTable(parties', Len(ledgers))
    <3>1. \A p \in 1..Len(parties) : parties'[p].ledger = parties[p].ledger
      BY <1>4, <2>4, <2>9
    <3>. QED  BY <2>9, <3>1 DEF IInv, Tables, PartyTable
  <2>11. Tables'
    BY <1>2, <2>6, <2>8, <2>10 DEF IInv, Tables
  <2>12. Requested'
    <3>1. req' = [req EXCEPT ![r] = Idle]
      BY <1>2 DEF End
    <3>2. \A s \in Requests : Fits(req'[s], Len(L), Len(parties'))
      BY <2>8, <2>9, <3>1, Nothing DEF IInv, Requested
    <3>3. \A s \in Requests : Snapshot(req[s], ledgers)
      BY DEF IInv, Requested
    <3>4. \A s \in Requests : Snapshot(req[s], L)
      BY <2>8, <3>3 DEF Snapshot
    <3>5. \A s \in Requests : Snapshot(req'[s], L)
      BY <3>1, <3>4, Nothing DEF IInv, Requested
    <3>6. req' = [s \in Requests |-> req'[s]]
      BY <3>1 DEF IInv, Requested
    <3>. QED  BY <2>6, <3>2, <3>5, <3>6 DEF Requested
  <2>13. Lockstep'
    <3>1. ASSUME NEW p \in 1..Len(parties), p # q.party
          PROVE  parties'[p].raced \/ ledgers'[parties'[p].ledger].name = parties'[p].name
      <4>1. parties'[p] = parties[p]
        BY <2>9, <3>1
      <4>2. parties[p].ledger \in 1..Len(ledgers) /\ parties[p].ledger # own
        BY <1>3, <1>4, <3>1 DEF IInv, Tables, PartyTable
      <4>3. ledgers'[parties[p].ledger] = ledgers[parties[p].ledger]
        BY <2>6, <2>8, <4>2
      <4>. QED  BY <4>1, <4>3, Domains DEF IInv, Lockstep
    <3>2. row.raced \/ ledgers'[own].name = q.to
      <4>1. CASE q.to # q.from
        <5>1. L = [ledgers EXCEPT ![own].name = q.to]
          BY <2>3, <2>6, <4>1
        <5>. QED  BY <1>3, <1>5, <2>6, <2>7, <5>1, RenamedLedgers
      <4>2. CASE q.to = q.from /\ ~ row.raced
        <5>1. ~ old.raced /\ q.from = old.name
          BY <2>1, <2>4, <4>2
        <5>2. ledgers[own].name = old.name
          BY <1>3, <1>4, <5>1, Domains DEF IInv, Lockstep
        <5>. QED  BY <2>3, <4>2, <5>1, <5>2
      <4>. QED  BY <4>1, <4>2
    <3>3. parties'[q.party] = row
      BY <1>3, <2>9
    <3>4. ASSUME NEW p \in DOMAIN parties'
          PROVE  parties'[p].raced \/ ledgers'[parties'[p].ledger].name = parties'[p].name
      <4>1. p \in 1..Len(parties)
        BY <2>9
      <4>2. CASE p = q.party
        BY <2>4, <3>2, <3>3, <4>2
      <4>. QED  BY <3>1, <4>1, <4>2
    <3>. QED  BY <3>4 DEF Lockstep
  <2>. QED  BY <2>11, <2>12, <2>13 DEF IInv
<1>. QED  BY <1>6, <1>7

-----------------------------------------------------------------------------
(* The lines of vouchers on a ledger, and what each of them moves.           *)
Effects(l) == [v \in DOMAIN vouchers |-> Effect(v, l)]

(* Lines are finitely many, and each moves an integer.                       *)
LEMMA LinesAreFinite ==
  ASSUME ConstantsOK, Tables, NEW l \in 1..Len(ledgers), NEW from \in Int, NEW to \in Int
  PROVE  /\ IsFiniteSet(DOMAIN vouchers) /\ IsFiniteSet(Lines(l, from, to))
         /\ Lines(l, from, to) \subseteq DOMAIN vouchers
         /\ \A v \in DOMAIN vouchers : Effect(v, l) \in Int
         /\ Movement(l, from, to) = SumFunctionOnSet(Effects(l), Lines(l, from, to))
         /\ Movement(l, from, to) \in Int
<1>1. IsFiniteSet(DOMAIN vouchers)
  BY Domains, FS_Interval
<1>2. Lines(l, from, to) \subseteq DOMAIN vouchers
  BY DEF Lines
<1>3. IsFiniteSet(Lines(l, from, to))
  BY <1>1, <1>2, FS_Subset
<1>4. ASSUME NEW v \in DOMAIN vouchers  PROVE Effect(v, l) \in Int
  <2>1. v \in 1..Len(vouchers) /\ vouchers \in Seq(VoucherRow)
    BY Domains DEF Tables, VoucherTable
  <2>2. vouchers[v] \in VoucherRow
    BY <2>1, ElementOfSeq
  <2>3. vouchers[v].drAmt \in Int /\ vouchers[v].crAmt \in Int
    BY <2>2 DEF VoucherRow, Amounts, ConstantsOK
  <2>. QED  BY <2>3 DEF Effect
<1>5. \A v \in Lines(l, from, to) : Effects(l)[v] = Effect(v, l)
  BY <1>2 DEF Effects
<1>6. Movement(l, from, to) = SumFunctionOnSet(Effects(l), Lines(l, from, to))
  <2>1. PICK f : f = [v \in Lines(l, from, to) |-> Effect(v, l)]
    OBVIOUS
  <2>2. \A v \in Lines(l, from, to) : f[v] = Effects(l)[v]
    BY <1>5, <2>1
  <2>. QED  BY <1>3, <2>1, <2>2, SumSame DEF Movement
<1>7. \A v \in Lines(l, from, to) : Effects(l)[v] \in Int
  BY <1>2, <1>4, <1>5
<1>. QED  BY <1>1, <1>2, <1>3, <1>4, <1>6, <1>7, SumInt

(* What a voucher moves on all ledgers together: nothing.                    *)
LEMMA VoucherCancels ==
  ASSUME ConstantsOK, Tables, NEW v \in DOMAIN vouchers, NEW f,
         \A l \in 1..Len(ledgers) : f[l] = Effect(v, l)
  PROVE  SumFunctionOnSet(f, 1..Len(ledgers)) = 0
<1>1. PICK U, dr, cr, k : /\ U = 1..Len(ledgers) /\ dr = vouchers[v].dr /\ cr = vouchers[v].cr
                          /\ k = vouchers[v].drAmt
  OBVIOUS
<1>2. IsFiniteSet(U)
  BY <1>1, Domains, FS_Interval
<1>3. v \in 1..Len(vouchers) /\ vouchers \in Seq(VoucherRow)
  BY Domains DEF Tables, VoucherTable
<1>4. vouchers[v] \in VoucherRow
  BY <1>3, ElementOfSeq
<1>5. dr \in U /\ cr \in U /\ k \in Int /\ vouchers[v].crAmt = k
  BY <1>1, <1>3, <1>4 DEF VoucherRow, Amounts, ConstantsOK, Tables, VoucherTable
<1>6. PICK d, c : /\ d = [l \in U |-> IF dr = l THEN k ELSE 0]
                  /\ c = [l \in U |-> IF cr = l THEN k ELSE 0]
  OBVIOUS
<1>7. SumFunctionOnSet(d, U) = k
  <2>1. d[dr] = k /\ \A l \in U \ {dr} : d[l] = 0
    BY <1>5, <1>6
  <2>. QED  BY <1>2, <1>5, <2>1, SumOfOne
<1>8. SumFunctionOnSet(c, U) = k
  <2>1. c[cr] = k /\ \A l \in U \ {cr} : c[l] = 0
    BY <1>5, <1>6
  <2>. QED  BY <1>2, <1>5, <2>1, SumOfOne
<1>9. \A l \in U : d[l] \in Int /\ c[l] \in Int /\ f[l] = d[l] - c[l]
  BY <1>1, <1>5, <1>6 DEF Effect
<1>10. SumFunctionOnSet(f, U) = SumFunctionOnSet(d, U) - SumFunctionOnSet(c, U)
  BY <1>2, <1>9, SumMinus
<1>. QED  BY <1>1, <1>5, <1>7, <1>8, <1>10

(* Double entry: over any period, all ledgers together have not moved.       *)
LEMMA MovementsCancel ==
  ASSUME ConstantsOK, Tables, NEW from \in Int, NEW to \in Int, NEW rows,
         \A l \in 1..Len(ledgers) : rows[l] = Movement(l, from, to)
  PROVE  SumFunctionOnSet(rows, 1..Len(ledgers)) = 0
<1>1. PICK U, V : U = 1..Len(ledgers) /\ V = DOMAIN vouchers
  OBVIOUS
<1>2. IsFiniteSet(U) /\ IsFiniteSet(V)
  BY <1>1, Domains, FS_Interval
<1>3. PICK m : m = [l \in U |-> [v \in V |-> IF v \in Lines(l, from, to) THEN Effect(v, l) ELSE 0]]
  OBVIOUS
<1>4. PICK t : t = [v \in V |-> [l \in U |-> m[l][v]]]
  OBVIOUS
<1>5. Transposed(m, t, U, V)
  <2>1. \A l \in U, v \in V : m[l][v] = IF v \in Lines(l, from, to) THEN Effect(v, l) ELSE 0
    BY <1>3
  <2>2. \A l \in U, v \in V : m[l][v] \in Int
    BY <1>1, <2>1, LinesAreFinite
  <2>3. \A l \in U, v \in V : t[v][l] = m[l][v]
    BY <1>4
  <2>. QED  BY <2>2, <2>3 DEF Transposed
<1>6. RowSums(rows, m, U, V)
  <2>. SUFFICES ASSUME NEW l \in U  PROVE rows[l] = SumFunctionOnSet(m[l], V)
    BY DEF RowSums
  <2>1. PICK f, g, S : f = Effects(l) /\ g = m[l] /\ S = Lines(l, from, to)
    OBVIOUS
  <2>2. S \subseteq V /\ rows[l] = SumFunctionOnSet(f, S) /\ \A v \in V : Effect(v, l) \in Int
    BY <1>1, <2>1, LinesAreFinite
  <2>3. \A v \in V : f[v] = Effect(v, l)
    BY <1>1, <2>1 DEF Effects
  <2>4. \A v \in V : g[v] = IF v \in S THEN f[v] ELSE 0
    BY <1>3, <2>1, <2>3
  <2>5. \A v \in S : f[v] \in Int
    BY <2>2, <2>3
  <2>6. SumFunctionOnSet(f, S) = SumFunctionOnSet(g, V)
    BY <1>2, <2>2, <2>4, <2>5, SumFiltered
  <2>. QED  BY <2>1, <2>2, <2>6
<1>7. PICK columns : columns = [v \in V |-> SumFunctionOnSet(t[v], U)]
  OBVIOUS
<1>8. ASSUME NEW v \in V  PROVE columns[v] = 0
  <2>1. PICK f : f = t[v]
    OBVIOUS
  <2>2. \A l \in U : f[l] = IF v \in Lines(l, from, to) THEN Effect(v, l) ELSE 0
    BY <1>3, <1>4, <2>1
  <2>3. CASE vouchers[v].active /\ vouchers[v].date \in from..to
    <3>1. \A l \in U : v \in Lines(l, from, to) \/ Effect(v, l) = 0
      BY <1>1, <2>3 DEF Lines, Effect
    <3>2. \A l \in 1..Len(ledgers) : f[l] = Effect(v, l)
      BY <1>1, <2>2, <3>1
    <3>3. SumFunctionOnSet(f, 1..Len(ledgers)) = 0
      BY <1>1, <3>2, VoucherCancels
    <3>. QED  BY <1>1, <1>7, <2>1, <3>3
  <2>4. CASE ~ (vouchers[v].active /\ vouchers[v].date \in from..to)
    <3>1. \A l \in U : f[l] = 0
      BY <2>2, <2>4 DEF Lines
    <3>. QED  BY <1>2, <1>7, <2>1, <3>1, SumZero
  <2>. QED  BY <2>3, <2>4
<1>9. RowSums(columns, t, V, U)
  BY <1>7 DEF RowSums
<1>10. SumFunctionOnSet(rows, U) = SumFunctionOnSet(columns, V)
  BY <1>2, <1>5, <1>6, <1>9, SumSwap
<1>11. SumFunctionOnSet(columns, V) = 0
  BY <1>2, <1>8, SumZero
<1>. QED  BY <1>1, <1>10, <1>11

-----------------------------------------------------------------------------
(* The answers of a report so far, with one of them changed.                 *)
Answer(c, left, rows, sums, diff) ==
  [op |-> "report", calm |-> c, left |-> left, rows |-> rows, sums |-> sums, openingDiff |-> diff]

(* One query is answered, as it should be; the others stand.                 *)
LEMMA QueryStep ==
  ASSUME ConstantsOK, IInv, UNCHANGED <<ledgers, parties, vouchers>>, NEW r \in Requests,
         NEW c, NEW left, NEW rows, NEW sums, NEW diff, req[r] = Answer(c, left, rows, sums, diff),
         NEW g, NEW k, NEW s, NEW o, req' = [req EXCEPT ![r] = Answer(c, g, k, s, o)],
         \/ g = left \ {"nets"} /\ k = Len(ledgers) /\ s = sums /\ o = diff
         \/ /\ g = left \ {"sums"} /\ k = rows /\ o = diff
            /\ s \in [1..Len(ledgers) -> Int] /\ SumFunctionOnSet(s, 1..Len(ledgers)) = 0
         \/ g = left \ {"openings"} /\ k = rows /\ s = sums /\ o = OpeningsOf(ledgers)
  PROVE  IInv'
<1>1. PICK old, q : old = req[r] /\ q = Answer(c, g, k, s, o)
  OBVIOUS
<1>2. /\ old.op = "report" /\ old.calm = c /\ old.left = left /\ old.rows = rows /\ old.sums = sums
      /\ old.openingDiff = diff
  BY <1>1 DEF Answer
<1>3. /\ q.op = "report" /\ q.calm = c /\ q.left = g /\ q.rows = k /\ q.sums = s
      /\ q.openingDiff = o
  BY <1>1 DEF Answer
<1>4. Fits(old, Len(ledgers), Len(parties)) /\ Snapshot(old, ledgers)
  BY <1>1 DEF IInv, Requested
<1>5. Fits(q, Len(ledgers), Len(parties))
  <2>1. c \in BOOLEAN
    BY <1>2, <1>4 DEF Fits
  <2>. QED  BY <1>1, <1>3, <2>1 DEF Fits, Answer
<1>6. Snapshot(q, ledgers)
  BY <1>2, <1>3, <1>4 DEF Snapshot
<1>. QED  BY <1>1, <1>5, <1>6, RequestStep

(* The queries of a report, in any order: each finds what it should, and what
   the earlier ones found is unchanged while no ledger is inserted. *)
LEMMA ReportSteps ==
  ASSUME ConstantsOK, IInv, NEW r \in Requests,
         \/ ReportLedgers(r) \/ (\E to \in Days : ReportSums(r, to))
         \/ ReportOpenings(r) \/ ReportEnd(r)
  PROVE  IInv'
<1>1. CASE ReportEnd(r)
  BY <1>1, Nothing, RequestStep DEF ReportEnd, End
<1>2. CASE req[r].op = "report"
  <2>1. PICK old, c, left, rows, sums, diff :
          /\ old = req[r] /\ c = req[r].calm /\ left = req[r].left /\ rows = req[r].rows
          /\ sums = req[r].sums /\ diff = req[r].openingDiff
    OBVIOUS
  <2>2. old = Answer(c, left, rows, sums, diff) /\ req = [s \in Requests |-> req[s]]
    BY <1>2, <2>1 DEF IInv, Requested, Fits, Answer
  <2>3. CASE ReportLedgers(r)
    <3>1. PICK n, g : n = Len(ledgers) /\ g = left \ {"nets"}
      OBVIOUS
    <3>2. PICK row : row = [old EXCEPT !.left = g, !.rows = n]
      OBVIOUS
    <3>10. req' = [req EXCEPT ![r] = row]
      BY <2>1, <2>2, <2>3, <3>1, <3>2 DEF ReportLedgers
    <3>11. row = Answer(c, g, n, sums, diff)
      <4>1. PICK mid : mid = [old EXCEPT !.left = g]
        OBVIOUS
      <4>2. mid = Answer(c, g, rows, sums, diff)
        BY <2>2, <4>1 DEF Answer
      <4>3. row = [mid EXCEPT !.rows = n]
        BY <3>2, <4>1
      <4>. QED  BY <4>2, <4>3 DEF Answer
    <3>3. req' = [req EXCEPT ![r] = Answer(c, g, n, sums, diff)]
      BY <3>10, <3>11
    <3>4. UNCHANGED <<ledgers, parties, vouchers>>
      BY <2>3 DEF ReportLedgers
    <3>. QED  BY <2>1, <2>2, <3>1, <3>3, <3>4, QueryStep, ZenonT(30)
  <2>4. ASSUME NEW to \in Days, ReportSums(r, to)  PROVE IInv'
    <3>1. PICK m, g : m = [l \in DOMAIN ledgers |-> Movement(l, 1, to)] /\ g = left \ {"sums"}
      OBVIOUS
    <3>2. PICK row : row = [old EXCEPT !.left = g, !.sums = m]
      OBVIOUS
    <3>10. req' = [req EXCEPT ![r] = row]
      BY <2>1, <2>2, <2>4, <3>1, <3>2 DEF ReportSums
    <3>11. row = Answer(c, g, rows, m, diff)
      <4>1. PICK mid : mid = [old EXCEPT !.left = g]
        OBVIOUS
      <4>2. mid = Answer(c, g, rows, sums, diff)
        BY <2>2, <4>1 DEF Answer
      <4>3. row = [mid EXCEPT !.sums = m]
        BY <3>2, <4>1
      <4>. QED  BY <4>2, <4>3 DEF Answer
    <3>3. req' = [req EXCEPT ![r] = Answer(c, g, rows, m, diff)]
      BY <3>10, <3>11
    <3>4. to \in Int /\ 1 \in Int /\ Tables /\ DOMAIN ledgers = 1..Len(ledgers)
      BY Domains DEF Days, ConstantsOK, IInv
    <3>5. ASSUME NEW l \in 1..Len(ledgers)  PROVE m[l] \in Int /\ m[l] = Movement(l, 1, to)
      BY <3>1, <3>4, LinesAreFinite
    <3>6. m \in [1..Len(ledgers) -> Int]
      BY <3>1, <3>4, <3>5
    <3>7. \A l \in 1..Len(ledgers) : m[l] = Movement(l, 1, to)
      BY <3>5
    <3>8. SumFunctionOnSet(m, 1..Len(ledgers)) = 0
      BY <3>4, <3>7, MovementsCancel
    <3>9. UNCHANGED <<ledgers, parties, vouchers>>
      BY <2>4 DEF ReportSums
    <3>12. /\ g = left \ {"sums"} /\ rows = rows /\ diff = diff
           /\ m \in [1..Len(ledgers) -> Int] /\ SumFunctionOnSet(m, 1..Len(ledgers)) = 0
      BY <3>1, <3>6, <3>8
    <3>13. req[r] = Answer(c, left, rows, sums, diff)
      BY <2>1, <2>2
    <3>. QED  BY <3>3, <3>9, <3>12, <3>13, QueryStep, ZenonT(30)
  <2>5. CASE ReportOpenings(r)
    <3>1. PICK o, g : o = OpeningsOf(ledgers) /\ g = left \ {"openings"}
      OBVIOUS
    <3>2. PICK row : row = [old EXCEPT !.left = g, !.openingDiff = o]
      OBVIOUS
    <3>10. req' = [req EXCEPT ![r] = row]
      BY <2>1, <2>2, <2>5, <3>1, <3>2 DEF ReportOpenings, TotalOpening, OpeningsOf
    <3>11. row = Answer(c, g, rows, sums, o)
      <4>1. PICK mid : mid = [old EXCEPT !.left = g]
        OBVIOUS
      <4>2. mid = Answer(c, g, rows, sums, diff)
        BY <2>2, <4>1 DEF Answer
      <4>3. row = [mid EXCEPT !.openingDiff = o]
        BY <3>2, <4>1
      <4>. QED  BY <4>2, <4>3 DEF Answer
    <3>3. req' = [req EXCEPT ![r] = Answer(c, g, rows, sums, o)]
      BY <3>10, <3>11
    <3>4. UNCHANGED <<ledgers, parties, vouchers>>
      BY <2>5 DEF ReportOpenings
    <3>. QED  BY <2>1, <2>2, <3>1, <3>3, <3>4, QueryStep, ZenonT(30)
  <2>. QED  BY <1>1, <2>3, <2>4, <2>5
<1>. QED  BY <1>1, <1>2 DEF ReportLedgers, ReportSums, ReportOpenings, Reading

-----------------------------------------------------------------------------
(* Two ledgers, no party, no voucher, no request.                            *)
LEMMA InitIInv == ASSUME ConstantsOK, Init  PROVE IInv
<1>1. PICK c, s : c = Ledger("Cash", "ASSET", 0) /\ s = Ledger("Sales", "INCOME", 0)
  OBVIOUS
<1>2. c \in LedgerRow /\ s \in LedgerRow /\ c.name # s.name
  BY <1>1 DEF Ledger, LedgerRow, Natures
<1>3. ledgers = <<c, s>>
  BY <1>1 DEF Init, SeedLedgers
<1>4. ledgers \in Seq(LedgerRow) /\ Len(ledgers) = 2 /\ ledgers[1] = c /\ ledgers[2] = s
  BY <1>2, <1>3
<1>5. \A l \in 1..Len(ledgers) : l = 1 \/ l = 2
  BY <1>4
<1>6. LedgerTable(ledgers)
  BY <1>2, <1>4, <1>5 DEF LedgerTable
<1>7. /\ parties \in Seq(PartyRow) /\ Len(parties) = 0
      /\ vouchers \in Seq(VoucherRow) /\ Len(vouchers) = 0
  BY DEF Init
<1>8. PartyTable(parties, Len(ledgers)) /\ VoucherTable(vouchers, Len(ledgers))
  BY <1>7 DEF PartyTable, VoucherTable
<1>9. Requested
  BY Nothing DEF Init, Requested
<1>10. Lockstep
  BY DEF Init, Lockstep
<1>. QED  BY <1>6, <1>8, <1>9, <1>10 DEF IInv, Tables

(* Every step keeps the tables, the reports and the names in order.          *)
LEMMA NextIInv == ASSUME ConstantsOK, IInv, [Next]_vars  PROVE IInv'
<1>1. CASE UNCHANGED vars
  BY <1>1 DEF vars, IInv, Tables, Requested, Lockstep
<1>2. ASSUME NEW r \in Requests,
             \/ \E name \in Names : InsertRead(r, name)
             \/ \E p \in DOMAIN parties, name \in Names : RenameRead(r, p, name)
             \/ \E side \in Sides : FreightRead(r, side)
             \/ ReportStart(r)
      PROVE  IInv'
  BY <1>2, BeginSteps
<1>3. ASSUME NEW r \in Requests, (\E form \in Forms : InsertCommit(r, form)) \/ FreightCreate(r)
      PROVE  IInv'
  BY <1>3, InsertSteps
<1>4. ASSUME NEW r \in Requests, RenameCommit(r)  PROVE IInv'
  BY <1>4, RenameStep
<1>5. ASSUME NEW r \in Requests,
             \/ ReportLedgers(r) \/ (\E to \in Days : ReportSums(r, to))
             \/ ReportOpenings(r) \/ ReportEnd(r)
      PROVE  IInv'
  BY <1>5, ReportSteps
<1>6. ASSUME \/ \E r \in Requests, d \in Days, k \in Amounts : FreightPost(r, d, k)
             \/ \E d \in Days, dr, cr \in DOMAIN ledgers, j, k \in Amounts : CreateVoucher(d, dr, j, cr, k)
             \/ \E v \in DOMAIN vouchers : CancelVoucher(v)
      PROVE  IInv'
  BY <1>6, VoucherSteps
<1>. QED  BY <1>1, <1>2, <1>3, <1>4, <1>5, <1>6, Zenon DEF Next

(* The tables stay in order, whatever the requests read meanwhile.           *)
THEOREM SpecIInv == ASSUME ConstantsOK PROVE Spec => []IInv
<1>1. Init => IInv
  BY InitIInv
<1>2. IInv /\ [Next]_vars => IInv'
  BY NextIInv
<1>. QED  BY <1>1, <1>2, PTL DEF Spec

(* The types of the tables; no name and no party's ledger is there twice: the
   index on the names holds although look-up and insert are apart. *)
THEOREM TypeCorrect == ASSUME ConstantsOK PROVE Spec => []TypeOK
<1>1. IInv => TypeOK
  <2>. SUFFICES ASSUME IInv  PROVE TypeOK
    OBVIOUS
  <2>1. Tables /\ ledgers \in Seq(LedgerRow) /\ parties \in Seq(PartyRow) /\ vouchers \in Seq(VoucherRow)
    BY DEF IInv, Tables, LedgerTable, PartyTable, VoucherTable
  <2>2. ASSUME NEW l \in DOMAIN ledgers
        PROVE  /\ ledgers[l] \in LedgerRow
               /\ \A k \in DOMAIN ledgers : ledgers[k].name = ledgers[l].name => k = l
    BY <2>1, Domains, ElementOfSeq DEF Tables, LedgerTable
  <2>3. ASSUME NEW p \in DOMAIN parties
        PROVE  /\ parties[p] \in [name : Names, ledger : DOMAIN ledgers, raced : BOOLEAN]
               /\ \A q \in DOMAIN parties : parties[q].ledger = parties[p].ledger => q = p
    <3>1. parties[p] \in PartyRow /\ parties[p].ledger \in DOMAIN ledgers
      BY <2>1, Domains, ElementOfSeq DEF Tables, PartyTable
    <3>2. \A q \in DOMAIN parties : parties[q].ledger = parties[p].ledger => q = p
      BY <2>1, Domains DEF Tables, PartyTable
    <3>. QED  BY <3>1, <3>2 DEF PartyRow
  <2>4. ASSUME NEW v \in DOMAIN vouchers
        PROVE  vouchers[v] \in [date : Days, dr : DOMAIN ledgers, drAmt : Amounts,
                                cr : DOMAIN ledgers, crAmt : Amounts, active : BOOLEAN]
    <3>1. /\ vouchers[v] \in VoucherRow
          /\ vouchers[v].dr \in DOMAIN ledgers /\ vouchers[v].cr \in DOMAIN ledgers
      BY <2>1, Domains, ElementOfSeq DEF Tables, VoucherTable
    <3>. QED  BY <3>1 DEF VoucherRow
  <2>. QED  BY <2>2, <2>3, <2>4 DEF TypeOK, LedgerRow
<1>. QED  BY <1>1, SpecIInv, PTL

(* A party and its ledger have one name, unless two updates of the party      *)
(* overtook each other.                                                      *)
THEOREM NamesStayInLockstep == ASSUME ConstantsOK PROVE Spec => []Lockstep
<1>1. IInv => Lockstep
  BY DEF IInv
<1>. QED  BY <1>1, SpecIInv, PTL

-----------------------------------------------------------------------------
Netted(net, n, sums) ==
  /\ IsFiniteSet(1..n)
  /\ \A l \in 1..n : ledgers[l].opening \in Int /\ ledgers[l].nature \in Natures
  /\ \A l \in 1..n : net[l] \in Int /\ net[l] = ledgers[l].opening + sums[l]
  /\ \A natures : NetsOf(n, sums, natures) = SumFunctionOnSet(net, Among(n, natures))

(* Each ledger has a net, and the nets of groups are sums of them.           *)
LEMMA Nets ==
  ASSUME ConstantsOK, Tables, NEW sums \in [1..Len(ledgers) -> Int]
  PROVE  \E net : Netted(net, Len(ledgers), sums)
<1>. DEFINE n == Len(ledgers)
            net == [l \in 1..n |-> NetOf(sums, l)]
<1>1. IsFiniteSet(1..n)
  BY Domains, FS_Interval
<1>2. ASSUME NEW l \in 1..n
      PROVE  /\ ledgers[l].opening \in Int /\ ledgers[l].nature \in Natures
             /\ net[l] \in Int /\ net[l] = ledgers[l].opening + sums[l]
  <2>1. ledgers[l] \in LedgerRow
    BY ElementOfSeq DEF Tables, LedgerTable
  <2>2. ledgers[l].opening \in Int /\ ledgers[l].nature \in Natures /\ sums[l] \in Int
    BY <2>1 DEF LedgerRow
  <2>3. net[l] = ledgers[l].opening + sums[l]
    BY DEF NetOf
  <2>. QED  BY <2>2, <2>3
<1>3. ASSUME NEW natures
      PROVE  NetsOf(n, sums, natures) = SumFunctionOnSet(net, Among(n, natures))
  <2>1. PICK S, f : S = Among(n, natures) /\ f = [l \in S |-> NetOf(sums, l)]
    OBVIOUS
  <2>2. S \subseteq 1..n
    BY <2>1 DEF Among
  <2>3. IsFiniteSet(S) /\ \A l \in S : f[l] = net[l]
    BY <1>1, <2>1, <2>2, FS_Subset
  <2>4. SumFunctionOnSet(f, S) = SumFunctionOnSet(net, S)
    BY <2>3, SumSame
  <2>. QED  BY <2>1, <2>4 DEF NetsOf
<1>4. Netted(net, n, sums)
  <2>. HIDE DEF net
  <2>. QED  BY <1>1, <1>2, <1>3 DEF Netted
<1>. QED  BY <1>4

(* A trial balance shows as much debit as credit, and a balance sheet has two
   equal sides, although its three queries see the books at different times. *)
THEOREM ReportsStayTied == ASSUME ConstantsOK PROVE Spec => []ReportsTie
<1>1. IInv => ReportsTie
  <2>. SUFFICES ASSUME IInv, NEW r \in Requests, Answered(r), req[r].calm
                PROVE  LET total(natures) == NetsOf(req[r].rows, req[r].sums, natures)
                       IN /\ total(Natures) - req[r].openingDiff = 0
                          /\ total({"ASSET"}) = SheetProfit(req[r].rows, req[r].sums)
                                                  - total({"LIABILITY"}) + req[r].openingDiff
    BY DEF ReportsTie
  <2>1. PICK n, sums, diff : n = req[r].rows /\ sums = req[r].sums /\ diff = req[r].openingDiff
    OBVIOUS
  <2>2. Tables /\ Snapshot(req[r], ledgers) /\ req[r].op = "report" /\ req[r].left = {}
    BY DEF IInv, Requested, Answered
  <2>3. /\ n = Len(ledgers) /\ sums \in [1..Len(ledgers) -> Int] /\ diff = OpeningsOf(ledgers)
        /\ SumFunctionOnSet(sums, 1..Len(ledgers)) = 0
    BY <2>1, <2>2 DEF Snapshot
  <2>4. PICK net : Netted(net, n, sums)
    BY <2>2, <2>3, Nets
  <2>5. /\ IsFiniteSet(1..n) /\ (\A l \in 1..n : ledgers[l].opening \in Int /\ ledgers[l].nature \in Natures)
        /\ \A l \in 1..n : net[l] \in Int /\ net[l] = ledgers[l].opening + sums[l]
        /\ \A natures : NetsOf(n, sums, natures) = SumFunctionOnSet(net, Among(n, natures))
    BY <2>4 DEF Netted
  <2>6. SumFunctionOnSet(net, 1..n) = diff
    <3>1. PICK opening : opening = [l \in DOMAIN ledgers |-> ledgers[l].opening]
      OBVIOUS
    <3>2. DOMAIN ledgers = 1..n
      BY <2>2, <2>3, Domains
    <3>3. diff = SumFunctionOnSet(opening, 1..n)
      BY <2>3, <3>1, <3>2 DEF OpeningsOf
    <3>4. \A l \in 1..n : opening[l] \in Int /\ sums[l] \in Int /\ net[l] = opening[l] + sums[l]
      BY <2>3, <2>5, <3>1, <3>2
    <3>5. SumFunctionOnSet(net, 1..n) = SumFunctionOnSet(opening, 1..n) + SumFunctionOnSet(sums, 1..n)
      <4>1. PICK U : U = 1..n
        OBVIOUS
      <4>2. IsFiniteSet(U)
        BY <2>5, <4>1
      <4>3. \A l \in U : opening[l] \in Int /\ sums[l] \in Int /\ net[l] = opening[l] + sums[l]
        BY <3>4, <4>1
      <4>4. SumFunctionOnSet(net, U) = SumFunctionOnSet(opening, U) + SumFunctionOnSet(sums, U)
        BY <4>2, <4>3, SumPlus
      <4>. QED  BY <4>1, <4>4
    <3>6. SumFunctionOnSet(opening, 1..n) \in Int
      BY <2>5, <3>4, SumInt
    <3>. QED  BY <2>3, <3>3, <3>5, <3>6
  <2>7. PICK assets, debts, nominal : /\ assets = Among(n, {"ASSET"}) /\ debts = Among(n, {"LIABILITY"})
                                      /\ nominal = Among(n, Sides)
    OBVIOUS
  <2>8. /\ Among(n, Natures) = 1..n /\ 1..n = (assets \cup debts) \cup nominal
        /\ assets \cap debts = {} /\ (assets \cup debts) \cap nominal = {}
    BY <2>5, <2>7 DEF Among, Natures, Sides
  <2>9. IsFiniteSet(assets) /\ IsFiniteSet(debts) /\ IsFiniteSet(nominal) /\ IsFiniteSet(assets \cup debts)
    BY <2>5, <2>8, FS_Subset
  <2>10. \A l \in (assets \cup debts) \cup nominal : net[l] \in Int
    BY <2>5, <2>8
  <2>11. SumFunctionOnSet(net, assets \cup debts)
           = SumFunctionOnSet(net, assets) + SumFunctionOnSet(net, debts)
    BY <2>8, <2>9, <2>10, SumUnion
  <2>12. SumFunctionOnSet(net, (assets \cup debts) \cup nominal)
           = SumFunctionOnSet(net, assets \cup debts) + SumFunctionOnSet(net, nominal)
    BY <2>8, <2>9, <2>10, SumUnion
  <2>13. /\ SumFunctionOnSet(net, assets) \in Int /\ SumFunctionOnSet(net, debts) \in Int
         /\ SumFunctionOnSet(net, nominal) \in Int
    BY <2>9, <2>10, SumInt
  <2>14. PICK a, d, p \in Int : /\ a = SumFunctionOnSet(net, assets) /\ d = SumFunctionOnSet(net, debts)
                                /\ p = SumFunctionOnSet(net, nominal)
    BY <2>13
  <2>15. /\ NetsOf(n, sums, {"ASSET"}) = a /\ NetsOf(n, sums, {"LIABILITY"}) = d
         /\ NetsOf(n, sums, Sides) = p
    BY <2>5, <2>7, <2>14
  <2>16. NetsOf(n, sums, Natures) = SumFunctionOnSet(net, 1..n)
    BY <2>5, <2>8
  <2>17. a + d + p = diff
    BY <2>6, <2>8, <2>11, <2>12, <2>14
  <2>. QED  BY <2>1, <2>6, <2>14, <2>15, <2>16, <2>17 DEF SheetProfit
<1>. QED  BY <1>1, SpecIInv, PTL

-----------------------------------------------------------------------------
(* A period taken apart at the start of day d.                               *)
LEMMA MovementSplit ==
  ASSUME ConstantsOK, Tables, NEW l \in 1..Len(ledgers), NEW d \in Nat, NEW to \in Nat, 1 <= d, d <= to
  PROVE  Movement(l, 1, to) = Movement(l, 1, d - 1) + Movement(l, d, to)
<1>1. PICK f, S, R : f = Effects(l) /\ S = Lines(l, 1, d - 1) /\ R = Lines(l, d, to)
  OBVIOUS
<1>2. \A v \in DOMAIN vouchers : vouchers[v].date \in Nat
  <2>. SUFFICES ASSUME NEW v \in DOMAIN vouchers  PROVE vouchers[v].date \in Nat
    OBVIOUS
  <2>1. v \in 1..Len(vouchers) /\ vouchers \in Seq(VoucherRow)
    BY Domains DEF Tables, VoucherTable
  <2>2. vouchers[v] \in VoucherRow
    BY <2>1, ElementOfSeq
  <2>. QED  BY <2>2 DEF VoucherRow, Days, ConstantsOK
<1>3. Lines(l, 1, to) = S \cup R /\ S \cap R = {}
  BY <1>1, <1>2 DEF Lines
<1>4. PICK one \in Int, eve \in Int : one = 1 /\ eve = d - 1
  OBVIOUS
<1>5. d \in Int /\ to \in Int
  OBVIOUS
<1>6. /\ IsFiniteSet(S) /\ S \subseteq DOMAIN vouchers /\ (\A v \in DOMAIN vouchers : Effect(v, l) \in Int)
      /\ Movement(l, 1, d - 1) = SumFunctionOnSet(f, S)
  BY <1>1, <1>4, LinesAreFinite
<1>7. /\ IsFiniteSet(R) /\ R \subseteq DOMAIN vouchers
      /\ Movement(l, d, to) = SumFunctionOnSet(f, R)
  BY <1>1, <1>5, LinesAreFinite
<1>8. Movement(l, 1, to) = SumFunctionOnSet(f, S \cup R)
  <2>1. Movement(l, one, to) = SumFunctionOnSet(Effects(l), Lines(l, one, to))
    BY <1>5, LinesAreFinite
  <2>. QED  BY <1>1, <1>3, <1>4, <2>1
<1>9. \A v \in S \cup R : f[v] \in Int
  BY <1>1, <1>6, <1>7 DEF Effects
<1>10. SumFunctionOnSet(f, S \cup R) = SumFunctionOnSet(f, S) + SumFunctionOnSet(f, R)
  BY <1>3, <1>6, <1>7, <1>9, SumUnion
<1>. QED  BY <1>6, <1>7, <1>8, <1>10

(* What a ledger moved from the first day, and from day d.                   *)
LEMMA MovementInt ==
  ASSUME ConstantsOK, Tables, NEW l \in 1..Len(ledgers), NEW d \in Nat, NEW to \in Nat
  PROVE  Movement(l, 1, d) \in Int /\ Movement(l, 1, d - 1) \in Int /\ Movement(l, d, to) \in Int
<1>1. PICK one \in Int, eve \in Int : one = 1 /\ eve = d - 1
  OBVIOUS
<1>2. d \in Int /\ to \in Int
  OBVIOUS
<1>3. Movement(l, one, d) \in Int /\ Movement(l, one, eve) \in Int /\ Movement(l, d, to) \in Int
  BY <1>2, LinesAreFinite
<1>. QED  BY <1>1, <1>3

(* Nothing moves in no time.                                                 *)
LEMMA MovementOfNothing ==
  ASSUME ConstantsOK, Tables, NEW l \in 1..Len(ledgers)
  PROVE  Movement(l, 1, 0) = 0
<1>1. Lines(l, 1, 0) = {}
  BY DEF Lines
<1>2. PICK one \in Int, zero \in Int : one = 1 /\ zero = 0
  OBVIOUS
<1>3. Movement(l, one, zero) = SumFunctionOnSet(Effects(l), Lines(l, one, zero))
  BY LinesAreFinite
<1>. QED  BY <1>1, <1>2, <1>3, SumEmpty

MovedBy(f, to) == f = [l \in DOMAIN ledgers |-> Movement(l, 1, to)]

(* The profit of a period is what the balance sheet's profit gained in it.   *)
LEMMA ProfitChains ==
  ASSUME ConstantsOK, Tables, NEW d \in Days, NEW n, n = Len(ledgers),
         NEW early, MovedBy(early, d - 1), NEW late, MovedBy(late, MaxDay)
  PROVE  NetProfit(d, MaxDay) = SheetProfit(n, late) - SheetProfit(n, early)
<1>1. /\ d \in Nat /\ MaxDay \in Nat /\ 1 <= d /\ d <= MaxDay /\ d - 1 \in Int /\ 1 \in Int /\ MaxDay \in Int
      /\ DOMAIN ledgers = 1..n
  BY Domains DEF Days, ConstantsOK
<1>2. ASSUME NEW l \in 1..n
      PROVE  /\ early[l] \in Int /\ late[l] \in Int /\ early[l] = Movement(l, 1, d - 1)
             /\ Movement(l, d, MaxDay) \in Int /\ late[l] = early[l] + Movement(l, d, MaxDay)
  <2>1. early[l] = Movement(l, 1, d - 1) /\ late[l] = Movement(l, 1, MaxDay)
    BY <1>1 DEF MovedBy
  <2>2. Movement(l, 1, d - 1) \in Int /\ Movement(l, 1, MaxDay) \in Int /\ Movement(l, d, MaxDay) \in Int
    BY <1>1, MovementInt
  <2>3. Movement(l, 1, MaxDay) = Movement(l, 1, d - 1) + Movement(l, d, MaxDay)
    BY <1>1, MovementSplit
  <2>. QED  BY <2>1, <2>2, <2>3
<1>3. early \in [1..Len(ledgers) -> Int]
  BY <1>1, <1>2 DEF MovedBy
<1>4. late \in [1..Len(ledgers) -> Int]
  BY <1>1, <1>2 DEF MovedBy
<1>5. PICK S : S = Among(n, Sides)
  OBVIOUS
<1>6. PICK before : Netted(before, n, early)
  BY <1>3, Nets
<1>7. PICK after : Netted(after, n, late)
  BY <1>4, Nets
<1>8. /\ IsFiniteSet(1..n) /\ \A l \in 1..n : ledgers[l].opening \in Int
      /\ \A l \in 1..n : before[l] \in Int /\ before[l] = ledgers[l].opening + early[l]
  BY <1>6 DEF Netted
<1>9. \A l \in 1..n : after[l] \in Int /\ after[l] = ledgers[l].opening + late[l]
  BY <1>7 DEF Netted
<1>10. NetsOf(n, early, Sides) = SumFunctionOnSet(before, S)
  BY <1>6, <1>5 DEF Netted
<1>11. NetsOf(n, late, Sides) = SumFunctionOnSet(after, S)
  BY <1>7, <1>5 DEF Netted
<1>12. S \subseteq 1..n /\ IsFiniteSet(S)
  BY <1>5, <1>8, FS_Subset DEF Among
<1>13. PICK gained : gained = [l \in S |-> - Movement(l, d, MaxDay)]
  OBVIOUS
<1>14. NetProfit(d, MaxDay) = SumFunctionOnSet(gained, S)
  BY <1>5, <1>13 DEF NetProfit
<1>15. ASSUME NEW l \in S  PROVE before[l] \in Int /\ after[l] \in Int /\ gained[l] = before[l] - after[l]
  <2>1. PICK o, e, g \in Int : o = ledgers[l].opening /\ e = early[l] /\ g = Movement(l, d, MaxDay)
    BY <1>2, <1>8, <1>12
  <2>2. late[l] = e + g /\ before[l] = o + e /\ after[l] = o + late[l] /\ gained[l] = - g
    BY <1>2, <1>8, <1>9, <1>12, <1>13, <2>1
  <2>. QED  BY <2>2
<1>16. SumFunctionOnSet(gained, S) = SumFunctionOnSet(before, S) - SumFunctionOnSet(after, S)
  BY <1>12, <1>15, SumMinus
<1>17. SumFunctionOnSet(before, S) \in Int /\ SumFunctionOnSet(after, S) \in Int
  BY <1>12, <1>15, SumInt
<1>. QED  BY <1>10, <1>11, <1>14, <1>16, <1>17 DEF SheetProfit

(* Statements and profits of consecutive periods connect.                    *)
THEOREM PeriodsStayChained == ASSUME ConstantsOK PROVE Spec => []PeriodsChain
<1>1. IInv => PeriodsChain
  <2>. SUFFICES ASSUME IInv, NEW d \in Days
                PROVE  /\ \A l \in DOMAIN ledgers :
                            /\ OpeningAt(l, d + 1) = ClosingOf(l, 1, d)
                            /\ ClosingOf(l, d, MaxDay) = ledgers[l].opening + Movement(l, 1, MaxDay)
                       /\ LET sheet(to) == SheetProfit(Len(ledgers), [l \in DOMAIN ledgers |-> Movement(l, 1, to)])
                          IN NetProfit(d, MaxDay) = sheet(MaxDay) - sheet(d - 1)
    BY DEF PeriodsChain
  <2>1. Tables /\ d \in Nat /\ MaxDay \in Nat /\ 1 <= d /\ d <= MaxDay
    BY DEF IInv, Days, ConstantsOK
  <2>2. ASSUME NEW l \in DOMAIN ledgers
        PROVE  /\ OpeningAt(l, d + 1) = ClosingOf(l, 1, d)
               /\ ClosingOf(l, d, MaxDay) = ledgers[l].opening + Movement(l, 1, MaxDay)
    <3>1. l \in 1..Len(ledgers) /\ ledgers \in Seq(LedgerRow)
      BY <2>1, Domains DEF Tables, LedgerTable
    <3>2. ledgers[l] \in LedgerRow
      BY <3>1, ElementOfSeq
    <3>3. /\ 1 \in Int /\ d \in Int /\ MaxDay \in Int /\ d - 1 \in Int
          /\ (d + 1) - 1 = d /\ 1 - 1 = 0
      BY <2>1
    <3>4. Movement(l, 1, d) \in Int /\ Movement(l, d, MaxDay) \in Int /\ Movement(l, 1, d - 1) \in Int
      BY <2>1, <3>1, MovementInt
    <3>5. PICK o, m, k, b \in Int : /\ o = ledgers[l].opening /\ m = Movement(l, 1, d)
                                    /\ k = Movement(l, d, MaxDay) /\ b = Movement(l, 1, d - 1)
      BY <3>2, <3>4 DEF LedgerRow
    <3>6. Movement(l, 1, 0) = 0 /\ Movement(l, 1, MaxDay) = b + k
      BY <2>1, <3>1, <3>5, MovementSplit, MovementOfNothing
    <3>7. OpeningAt(l, d + 1) = o + m /\ OpeningAt(l, 1) = o + 0 /\ OpeningAt(l, d) = o + b
      BY <3>3, <3>5, <3>6 DEF OpeningAt
    <3>. QED  BY <3>5, <3>6, <3>7 DEF ClosingOf
  <2>3. PICK n, early, late : /\ n = Len(ledgers)
                              /\ early = [l \in DOMAIN ledgers |-> Movement(l, 1, d - 1)]
                              /\ late = [l \in DOMAIN ledgers |-> Movement(l, 1, MaxDay)]
    OBVIOUS
  <2>4. NetProfit(d, MaxDay) = SheetProfit(n, late) - SheetProfit(n, early)
    BY <2>1, <2>3, ProfitChains DEF MovedBy
  <2>. QED  BY <2>2, <2>3, <2>4
<1>. QED  BY <1>1, SpecIInv, PTL
=============================================================================
