------------------------------- MODULE Ledgers -------------------------------
(***************************************************************************)
(* The chart of accounts, the vouchers posted to it, and the reports read  *)
(* from both.  A ledger comes from a form, a party, a bank account or the  *)
(* first document that charges freight, always as a look-up of its name    *)
(* and a later insert, which the unique index (company, name) may refuse.  *)
(* A report is two or three queries issued at once, with other requests    *)
(* between them.  Balances are signed: positive is debit.                  *)
(***************************************************************************)
EXTENDS Integers, Sequences, FiniteSets, Functions

CONSTANTS
  Requests,    \* concurrent API requests
  Ops,         \* the operations this instance exercises
  Names,       \* names a user gives to ledgers, parties and banks
  Forms,       \* what a request may insert: [owner, nature, opening]
  MaxAmount,   \* bound: voucher amounts are 1..MaxAmount
  MaxDay,      \* bound: dates are 1..MaxDay
  MaxLedgers,  \* bound: ledgers ever inserted
  MaxVouchers, \* bound: vouchers ever posted
  None

VARIABLES
  ledgers,   \* the ledgers table, in order of insertion
  parties,   \* the parties table: a name and a ledger
  vouchers,  \* every voucher ever posted
  req        \* what each request has read so far; a report has read the first
             \* "rows" ledgers (no nature and no opening ever changes)

vars == <<ledgers, parties, vouchers, req>>

Natures == {"ASSET", "LIABILITY", "INCOME", "EXPENSE"}
Sides == {"INCOME", "EXPENSE"}   \* freight of a sale, freight of a purchase
Freight == "Freight & Other Charges"
Amounts == 1..MaxAmount
Days == 1..MaxDay
Idle == [op |-> None]

(* A form says which side the ledger is on; None is no operation. *)
ConstantsOK ==
  /\ \A form \in Forms : form.nature \in Natures /\ form.opening \in Int
  /\ None \notin {"insert", "rename", "freight", "post", "report"}
  /\ MaxAmount \in Nat
  /\ MaxDay \in Nat

Ledger(name, nature, opening) ==
  [name |-> name, nature |-> nature, opening |-> opening]

(* Two of the system ledgers of seedDefaults stand for all.                  *)
SeedLedgers == <<Ledger("Cash", "ASSET", 0), Ledger("Sales", "INCOME", 0)>>

Taken(name) == \E l \in DOMAIN ledgers : ledgers[l].name = name
OpenPosts == {r \in Requests : req[r].op \in {"insert", "freight"}}

Init ==
  /\ ledgers = SeedLedgers
  /\ parties = <<>>
  /\ vouchers = <<>>
  /\ req = [r \in Requests |-> Idle]

Begin(r, q) == req[r] = Idle /\ req' = [req EXCEPT ![r] = q]
End(r) == req' = [req EXCEPT ![r] = Idle]

(* Request r goes on as q, having inserted a ledger: a report that is being read
   by another request may see it in some of its queries only. *)
Disturb(r, q) ==
  req' = [s \in Requests |->
            CASE s = r -> q
              [] s # r /\ req[s].op = "report" -> [req[s] EXCEPT !.calm = FALSE]
              [] OTHER -> req[s]]

(* createLedger, createParty, banks.create: the name is looked up.  The rest of
   a request's input is chosen where it is first used. *)
InsertRead(r, name) ==
  /\ "insert" \in Ops
  /\ Len(ledgers) + Cardinality(OpenPosts) < MaxLedgers
  /\ ~ Taken(name)
  /\ Begin(r, [op |-> "insert", name |-> name])
  /\ UNCHANGED <<ledgers, parties, vouchers>>

(* ... and the rows inserted; the index refuses a name taken meanwhile.      *)
InsertCommit(r, form) ==
  /\ req[r].op = "insert"
  /\ \/ /\ Taken(req[r].name)
        /\ End(r)
        /\ UNCHANGED <<ledgers, parties>>
     \/ /\ ~ Taken(req[r].name)
        /\ ledgers' = Append(ledgers, Ledger(req[r].name, form.nature, form.opening))
        /\ parties' = IF form.owner = "party"
                      THEN Append(parties, [name |-> req[r].name, ledger |-> Len(ledgers'),
                                            raced |-> FALSE])
                      ELSE parties
        /\ Disturb(r, Idle)
  /\ UNCHANGED vouchers

(* updateParty reads the party, and looks for the new name elsewhere.        *)
RenameRead(r, p, name) ==
  /\ "rename" \in Ops
  /\ \/ name = parties[p].name
     \/ \A l \in DOMAIN ledgers : ledgers[l].name = name => l = parties[p].ledger
  /\ Begin(r, [op |-> "rename", party |-> p, from |-> parties[p].name, to |-> name])
  /\ UNCHANGED <<ledgers, parties, vouchers>>

(* Broken variant: the ledger of the party keeps its name. *)
RenameCommit_LedgerForgotten(r) ==
  /\ req[r].op = "rename"
  /\ End(r)
  /\ parties' = [parties EXCEPT ![req[r].party].name = req[r].to]
  /\ UNCHANGED <<ledgers, vouchers>>

(* The ledger is renamed if the name differs from the one READ, the party in
   any case.  raced: the party had another name by then. *)
RenameCommit(r) ==
  LET q == req[r]
      own == parties[q.party].ledger
      other == {l \in DOMAIN ledgers : ledgers[l].name = q.to} \ {own}
  IN /\ q.op = "rename"
     /\ End(r)
     /\ \/ /\ q.to # q.from /\ other # {}
           /\ UNCHANGED <<ledgers, parties>>
        \/ /\ q.to = q.from \/ other = {}
           /\ ledgers' = IF q.to = q.from THEN ledgers
                         ELSE [ledgers EXCEPT ![own].name = q.to]
           /\ parties' = [parties EXCEPT ![q.party].name = q.to,
                            ![q.party].raced = @ \/ q.from # parties[q.party].name]
     /\ UNCHANGED vouchers

FreightLedger == CHOOSE l \in DOMAIN ledgers : ledgers[l].name = Freight
PostTo(l, side) == [op |-> "post", side |-> side, ledger |-> l]

(* The freight ledger of a document: found by name, whatever its group; or
   made, before the document's transaction, in the group of this side. *)
FreightRead(r, side) ==
  /\ "freight" \in Ops
  /\ Len(vouchers) + Cardinality(OpenPosts) < MaxVouchers
  /\ Taken(Freight) \/ Len(ledgers) + Cardinality(OpenPosts) < MaxLedgers
  /\ Begin(r, IF Taken(Freight) THEN PostTo(FreightLedger, side)
               ELSE [op |-> "freight", side |-> side])
  /\ UNCHANGED <<ledgers, parties, vouchers>>

(* Made by another document meanwhile: the insert fails, and the request.    *)
FreightCreate(r) ==
  /\ req[r].op = "freight"
  /\ \/ /\ Taken(Freight)
        /\ End(r)
        /\ UNCHANGED ledgers
     \/ /\ ~ Taken(Freight)
        /\ ledgers' = Append(ledgers, Ledger(Freight, req[r].side, 0))
        /\ Disturb(r, PostTo(Len(ledgers'), req[r].side))
  /\ UNCHANGED <<parties, vouchers>>

Voucher(date, dr, drAmt, cr, crAmt) ==
  [date |-> date, dr |-> dr, drAmt |-> drAmt, cr |-> cr, crAmt |-> crAmt, active |-> TRUE]

(* postVoucherTx of the document, its freight line against cash; or the
   transaction fails and leaves the new ledger behind. *)
FreightPost(r, d, a) ==
  /\ req[r].op = "post"
  /\ End(r)
  /\ \/ UNCHANGED vouchers
     \/ LET q == req[r]
            dr == IF q.side = "INCOME" THEN 1 ELSE q.ledger
            cr == IF q.side = "INCOME" THEN q.ledger ELSE 1
        IN vouchers' = Append(vouchers, Voucher(d, dr, a, cr, a))
  /\ UNCHANGED <<ledgers, parties>>

(* Broken variant: debits and credits are each there, and not compared. *)
CreateVoucher_Unbalanced(d, dr, drAmt, cr, crAmt) ==
  /\ "voucher" \in Ops
  /\ Len(vouchers) + Cardinality(OpenPosts) < MaxVouchers
  /\ vouchers' = Append(vouchers, Voucher(d, dr, drAmt, cr, crAmt))
  /\ UNCHANGED <<ledgers, parties, req>>

(* createVoucher: the sums of both sides are compared in paise; no service
   removes or deactivates a ledger, so that those found are there to post to. *)
CreateVoucher(d, dr, drAmt, cr, crAmt) ==
  /\ "voucher" \in Ops
  /\ Len(vouchers) + Cardinality(OpenPosts) < MaxVouchers
  /\ drAmt = crAmt
  /\ vouchers' = Append(vouchers, Voucher(d, dr, drAmt, cr, crAmt))
  /\ UNCHANGED <<ledgers, parties, req>>

CancelVoucher(v) ==
  /\ "voucher" \in Ops
  /\ vouchers[v].active
  /\ vouchers' = [vouchers EXCEPT ![v].active = FALSE]
  /\ UNCHANGED <<ledgers, parties, req>>

-----------------------------------------------------------------------------
(* Sums over voucher lines, as the groupBy queries return them.              *)

Lines(l, from, to) ==
  {v \in DOMAIN vouchers :
     vouchers[v].active /\ vouchers[v].date \in from..to /\ l \in {vouchers[v].dr, vouchers[v].cr}}

Effect(v, l) ==
  (IF vouchers[v].dr = l THEN vouchers[v].drAmt ELSE 0)
    - (IF vouchers[v].cr = l THEN vouchers[v].crAmt ELSE 0)

Movement(l, from, to) ==
  SumFunctionOnSet([v \in Lines(l, from, to) |-> Effect(v, l)], Lines(l, from, to))

(* The queries of trialBalance and balanceSheet, in whatever order the database
   answers them: the ledgers, the sums of the lines, the ledgers again.  Reports
   write nothing: one at a time is enough. *)
ReportStart(r) ==
  /\ "report" \in Ops
  /\ \A s \in Requests : req[s].op # "report"
  /\ Begin(r, [op |-> "report", calm |-> TRUE,
               left |-> {"nets", "sums", "openings"},
               rows |-> 0, sums |-> <<>>, openingDiff |-> 0])
  /\ UNCHANGED <<ledgers, parties, vouchers>>

Reading(r, query) == req[r].op = "report" /\ query \in req[r].left

ReportLedgers(r) ==
  /\ Reading(r, "nets")
  /\ req' = [req EXCEPT ![r].left = @ \ {"nets"}, ![r].rows = Len(ledgers)]
  /\ UNCHANGED <<ledgers, parties, vouchers>>

ReportSums(r, to) ==
  /\ Reading(r, "sums")
  /\ req' = [req EXCEPT ![r].left = @ \ {"sums"},
               ![r].sums = [l \in DOMAIN ledgers |-> Movement(l, 1, to)]]
  /\ UNCHANGED <<ledgers, parties, vouchers>>

(* Broken variant: the openings are taken without their side. *)
TotalOpening_Unsigned ==
  LET unsigned(n) == IF n > 0 THEN n ELSE -n
  IN SumFunctionOnSet([l \in DOMAIN ledgers |-> unsigned(ledgers[l].opening)], DOMAIN ledgers)

TotalOpening ==
  SumFunctionOnSet([l \in DOMAIN ledgers |-> ledgers[l].opening], DOMAIN ledgers)

ReportOpenings(r) ==
  /\ Reading(r, "openings")
  /\ req' = [req EXCEPT ![r].left = @ \ {"openings"}, ![r].openingDiff = TotalOpening]
  /\ UNCHANGED <<ledgers, parties, vouchers>>

Answered(r) == req[r].op = "report" /\ req[r].left = {}

ReportEnd(r) ==
  /\ Answered(r)
  /\ End(r)
  /\ UNCHANGED <<ledgers, parties, vouchers>>

Next ==
  \/ \E r \in Requests :
       \/ \E name \in Names : InsertRead(r, name)
       \/ \E form \in Forms : InsertCommit(r, form)
       \/ \E p \in DOMAIN parties, name \in Names : RenameRead(r, p, name)
       \/ RenameCommit(r)
       \/ \E side \in Sides : FreightRead(r, side)
       \/ FreightCreate(r)
       \/ \E d \in Days, a \in Amounts : FreightPost(r, d, a)
       \/ ReportStart(r)
       \/ ReportLedgers(r)
       \/ \E to \in Days : ReportSums(r, to)
       \/ ReportOpenings(r)
       \/ ReportEnd(r)
  \/ \E d \in Days, dr, cr \in DOMAIN ledgers, a, b \in Amounts : CreateVoucher(d, dr, a, cr, b)
  \/ \E v \in DOMAIN vouchers : CancelVoucher(v)

Spec == Init /\ [][Next]_vars

-----------------------------------------------------------------------------
(* What the reports say. *)

(* ledgerNets: a row for each ledger read, with the sum of its lines.        *)
NetOf(sums, l) == ledgers[l].opening + (IF l \in DOMAIN sums THEN sums[l] ELSE 0)

Among(rows, natures) == {l \in 1..rows : ledgers[l].nature \in natures}
NetsOf(rows, sums, natures) ==
  SumFunctionOnSet([l \in Among(rows, natures) |-> NetOf(sums, l)], Among(rows, natures))

(* profitAndLoss: income less expenses of a period, openings left out.       *)
NetProfit(from, to) ==
  LET nominal == Among(Len(ledgers), Sides)
  IN SumFunctionOnSet([l \in nominal |-> - Movement(l, from, to)], nominal)

(* The balance sheet's profit-and-loss figure, all history with openings.    *)
SheetProfit(rows, sums) == - NetsOf(rows, sums, Sides)

(* Broken variant: the first day of the period is in its opening too. *)
OpeningAt_Inclusive(l, from) == ledgers[l].opening + Movement(l, 1, from)

(* ledgerStatement: the opening of a period takes in everything before it.   *)
OpeningAt(l, from) == ledgers[l].opening + Movement(l, 1, from - 1)

ClosingOf(l, from, to) == OpeningAt(l, from) + Movement(l, from, to)

TypeOK ==
  /\ \A l \in DOMAIN ledgers :
       /\ ledgers[l] \in [name : Names \cup {"Cash", "Sales", Freight}, nature : Natures,
                          opening : Int]
       /\ \A k \in DOMAIN ledgers : ledgers[k].name = ledgers[l].name => k = l
  /\ \A p \in DOMAIN parties :
       /\ parties[p] \in [name : Names, ledger : DOMAIN ledgers, raced : BOOLEAN]
       /\ \A q \in DOMAIN parties : parties[q].ledger = parties[p].ledger => q = p
  /\ \A v \in DOMAIN vouchers :
       vouchers[v] \in [date : Days, dr : DOMAIN ledgers, drAmt : Amounts,
                        cr : DOMAIN ledgers, crAmt : Amounts, active : BOOLEAN]

(* A trial balance shows as much debit as credit, and a balance sheet as much
   in assets as in liabilities, although openings are entered without a contra
   and the three queries see different states: postings and cancellations
   between them do no harm, only a ledger inserted between them does. *)
ReportsTie ==
  \A r \in Requests : Answered(r) /\ req[r].calm =>
    LET total(natures) == NetsOf(req[r].rows, req[r].sums, natures)
    IN /\ total(Natures) - req[r].openingDiff = 0
       /\ total({"ASSET"}) = SheetProfit(req[r].rows, req[r].sums)
                               - total({"LIABILITY"}) + req[r].openingDiff

(* The statement of a period opens with what the one before it closed with,
   the statement without dates closes with the balance in the list of ledgers,
   and the profits of consecutive periods add up to what the balance sheet
   shows over the same time. *)
PeriodsChain ==
  \A d \in Days :
    /\ \A l \in DOMAIN ledgers :
         /\ OpeningAt(l, d + 1) = ClosingOf(l, 1, d)
         /\ ClosingOf(l, d, MaxDay) = ledgers[l].opening + Movement(l, 1, MaxDay)
    /\ LET sheet(to) == SheetProfit(Len(ledgers), [l \in DOMAIN ledgers |-> Movement(l, 1, to)])
       IN NetProfit(d, MaxDay) = sheet(MaxDay) - sheet(d - 1)

(* "Renaming a party renames its ledger atomically - they stay in lockstep":
   so they do, unless two updates of one party overtook each other: the one
   that read the old name compares with it, and renames the party alone. *)
Lockstep ==
  \A p \in DOMAIN parties :
    parties[p].raced \/ ledgers[parties[p].ledger].name = parties[p].name

=============================================================================
