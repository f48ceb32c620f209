----------------------------- MODULE DocumentLists -----------------------------
(***************************************************************************)
(* The lists of invoices, bills and estimates on a company's page: what a   *)
(* row offers follows from what the list last fetched and the role of the   *)
(* user, what the service accepts from the document as it is now.  Each     *)
(* service call is one step here; its own races are in the modules of the   *)
(* documents.                                                               *)
(***************************************************************************)
EXTENDS Integers, FiniteSets, FiniteSetsExt

CONSTANTS
  Docs,       \* identifiers of documents
  Calls,      \* handlers that may wait for an answer at a time
  Entries,    \* documents as they are entered: [kind, taxed, booked, batched, year, date]
  Users,      \* <<role, linked, openYear>> of those who open the page
  Today,      \* [year, date] of an invoice that a conversion enters
  Take,       \* documents a list answers at most, 200 in the code
  Total,      \* what every document comes to
  MaxOthers,  \* bound: changes made elsewhere
  MaxSends,   \* bound: actions taken on rows
  None, Gone  \* no document yet, and a document deleted

VARIABLES
  role,       \* role of the user in the company
  linked,     \* whether the page was told that sales are paid on estimates
  openYear,   \* financial year of the session
  docs,       \* documents stored
  shown,      \* rows of the lists on the page, None before the first load
  open,       \* rows whose payment form is open
  call,       \* what each handler waits for
  calm,       \* no change elsewhere, overlap or failure since the list was asked for
  others,     \* changes made elsewhere so far
  sends       \* actions taken on rows so far

vars == <<role, linked, openYear, docs, shown, open, call, calm, others, sends>>

Kinds == {"invoice", "bill", "estimate"}
Billing == {"OWNER", "ADMIN", "ACCOUNTANT", "CASHIER", "BRANCH_MANAGER"}
Stored == {d \in Docs : docs[d] \notin {None, Gone}}
Unused == {d \in Docs : docs[d] = None}
Made == Cardinality(Docs \ Unused)

-----------------------------------------------------------------------------
(* What the services answer.                                                 *)

Due(doc) == doc.total - doc.paid - doc.noted

(* Broken variant: the list leaves the notes out of what is outstanding.     *)
RowOfBill_NotesForgotten(doc) ==
  [kind |-> doc.kind, status |-> doc.status, paid |-> doc.paid, due |-> Max({0, doc.total - doc.paid}),
   payment |-> IF doc.status = "CANCELLED" THEN "CANCELLED"
               ELSE IF Due(doc) <= 0 THEN "PAID" ELSE IF Due(doc) = doc.total THEN "UNPAID" ELSE "PARTIAL"]

RowOfBill(doc) ==
  [kind |-> doc.kind, status |-> doc.status, paid |-> doc.paid, due |-> Max({0, Due(doc)}),
   payment |-> IF doc.status = "CANCELLED" THEN "CANCELLED"
               ELSE IF Due(doc) <= 0 THEN "PAID" ELSE IF Due(doc) = doc.total THEN "UNPAID" ELSE "PARTIAL"]

RowOfEstimate(doc) ==
  [kind |-> doc.kind, status |-> doc.status, taxed |-> doc.taxed, booked |-> doc.booked, sale |-> doc.sale]

Row(doc) == IF doc.kind = "estimate" THEN RowOfEstimate(doc) ELSE RowOfBill(doc)

(* What one fetch answers: no operation changes an invoice and a bill, so that the
   two are fetched at once. *)
Fetches == {{"invoice", "bill"}, {"estimate"}}

(* A list answers the documents of the session's year, by date, the latest entered
   first among those of one date, and no more than Take of them. *)
OfYear(kind) == {d \in Stored : docs[d].kind = kind /\ docs[d].year = openYear}
Before(d, e) ==
  docs[d].date > docs[e].date \/ (docs[d].date = docs[e].date /\ docs[d].made > docs[e].made)
Newest(kind) == {d \in OfYear(kind) : Cardinality({e \in OfYear(kind) : Before(e, d)}) < Take}
Rows(kinds) == [d \in UNION {Newest(kind) : kind \in kinds} |-> Row(docs[d])]

(* CompanyRoleGuard: a member of one of the roles the endpoint names.         *)
Entitled(what) ==
  role \in CASE what = "delete" -> {"OWNER", "ADMIN"}
             [] what = "cancel" -> {"OWNER", "ADMIN", "ACCOUNTANT"}
             [] OTHER -> Billing

(* The guards of the invoice and of the purchase service, which are the same.  *)
BillAccepts(doc, what, amount) ==
  CASE what = "pay" -> doc.status = "ISSUED" /\ amount <= Due(doc)
    [] what = "edit" -> doc.status = "ISSUED" /\ doc.paid = 0 /\ doc.noted = 0 /\ ~ doc.batched
    [] what = "cancel" -> doc.status = "ISSUED" /\ doc.paid = 0 /\ doc.noted = 0
    [] what = "delete" -> TRUE
    [] OTHER -> FALSE

EstimateAccepts(doc, what) ==
  LET live == doc.status \notin {"CONVERTED", "CANCELLED"}
  IN CASE what = "edit" -> live /\ ~ doc.booked
       [] what \in {"accept", "decline"} -> live
       [] what = "convert" -> live /\ doc.status # "DECLINED" /\ doc.sale = None /\ ~ doc.booked
                                /\ doc.taxed /\ ~ doc.batched
       [] what = "cancel" -> live /\ (doc.booked => doc.paid = 0)
       [] what = "delete" -> TRUE
       [] OTHER -> FALSE

Accepts(doc, what, amount) ==
  /\ Entitled(what)
  /\ IF doc.kind = "estimate" THEN EstimateAccepts(doc, what) ELSE BillAccepts(doc, what, amount)

(* What the service does when it accepts: removing an invoice opens the estimate it
   was converted from, and a conversion enters an invoice, of today. *)
Served(d, what, amount) ==
  CASE what = "pay" -> [docs EXCEPT ![d].paid = @ + amount]
    [] what = "accept" -> [docs EXCEPT ![d].status = "ACCEPTED"]
    [] what = "decline" -> [docs EXCEPT ![d].status = "DECLINED"]
    [] what = "cancel" -> [docs EXCEPT ![d].status = "CANCELLED"]
    [] what = "delete" ->
         LET from == {e \in Stored : docs[e].sale = d}
         IN [e \in Docs |-> IF e = d THEN Gone
                            ELSE IF e \in from THEN [docs[e] EXCEPT !.sale = None, !.status = "ACCEPTED"]
                            ELSE docs[e]]
    [] what = "convert" ->
         LET new == CHOOSE e \in Unused : TRUE
         IN [docs EXCEPT ![new] = [docs[d] EXCEPT !.kind = "invoice", !.status = "ISSUED", !.paid = 0,
                                           !.year = Today.year, !.date = Today.date, !.made = Made],
                         ![d].status = "CONVERTED", ![d].sale = new]

-----------------------------------------------------------------------------
(* What a row offers.                                                        *)

CanBill == role \in {"OWNER", "ADMIN", "ACCOUNTANT", "CASHIER"}
CanCancel == role \in {"OWNER", "ADMIN", "ACCOUNTANT"}

OfferedOnBill(row) ==
  LET live == row.status = "ISSUED"
  IN {what \in {"pay", "edit", "cancel", "delete"} :
        CASE what = "pay" -> CanBill /\ live /\ row.due > 0 /\ ~ (row.kind = "invoice" /\ linked)
          [] what = "edit" -> CanBill /\ live /\ row.paid = 0
          [] what = "cancel" -> CanCancel /\ live /\ row.paid = 0
          [] what = "delete" -> CanCancel}

OfferedOnEstimate(row) ==
  LET live == row.status \notin {"CONVERTED", "CANCELLED"}
  IN {what \in {"edit", "accept", "decline", "convert", "cancel", "delete"} :
        CASE what = "edit" -> CanBill /\ live
          [] what \in {"accept", "decline"} -> CanBill /\ row.status = "OPEN"
          [] what = "convert" -> CanBill /\ row.taxed /\ ~ row.booked /\ row.status \in {"OPEN", "ACCEPTED"}
          [] what = "cancel" -> CanCancel /\ live
          [] what = "delete" -> CanCancel}

Offered(row) == IF row.kind = "estimate" THEN OfferedOnEstimate(row) ELSE OfferedOnBill(row)

Listed == IF shown = None THEN {} ELSE DOMAIN shown

-----------------------------------------------------------------------------
Idle == [at |-> "idle"]
Quiet == \A c \in Calls : call[c] = Idle
Alone(c) == \A other \in Calls \ {c} : call[other] = Idle

Entered(entry, made) ==
  [kind |-> entry.kind, taxed |-> entry.taxed, booked |-> entry.booked, batched |-> entry.batched,
   year |-> entry.year, date |-> entry.date, made |-> made,
   status |-> IF entry.kind = "estimate" THEN "OPEN" ELSE "ISSUED",
   total |-> Total, paid |-> 0, noted |-> 0, sale |-> None]

First == CHOOSE d \in Docs : TRUE

(* One document is there when the page is first opened.                      *)
Init ==
  /\ \E user \in Users : role = user[1] /\ linked = user[2] /\ openYear = user[3]
  /\ \E entry \in Entries :
       docs = [d \in Docs |-> IF d = First THEN Entered(entry, 0) ELSE None]
  /\ shown = None
  /\ open = {}
  /\ call = [c \in Calls |-> Idle]
  /\ calm = FALSE
  /\ others = 0
  /\ sends = 0

Loading == [at |-> "loading", got |-> <<>>]

(* The page is opened, or opened again: reload.                              *)
Open(c) ==
  /\ Quiet
  /\ shown' = None
  /\ open' = {}
  /\ call' = [call EXCEPT ![c] = Loading]
  /\ calm' = TRUE
  /\ UNCHANGED <<role, linked, openYear, docs, others, sends>>

(* A row's payment form is opened, and stays so until a payment is recorded.   *)
OpenForm(d) ==
  /\ d \in Listed \ open
  /\ "pay" \in Offered(shown[d])
  /\ open' = open \cup {d}
  /\ UNCHANGED <<role, linked, openYear, docs, shown, call, calm, others, sends>>

Paying(c, d) == IF call[c].at = "sent" THEN call[c].what = "pay" /\ call[c].doc = d ELSE FALSE

(* A row's action is confirmed, or its form submitted with an amount the row leaves
   outstanding; other handlers may be waiting. *)
Send(c, d, what, amount) ==
  /\ call[c] = Idle
  /\ sends < MaxSends
  /\ d \in Listed
  /\ IF what = "pay" THEN d \in open /\ amount <= shown[d].due ELSE what \in Offered(shown[d])
  /\ what = "pay" => ~ \E other \in Calls : Paying(other, d)
  /\ call' = [call EXCEPT ![c] = [at |-> "sent", doc |-> d, what |-> what, amount |-> amount]]
  /\ calm' = (calm /\ Alone(c))
  /\ sends' = sends + 1
  /\ UNCHANGED <<role, linked, openYear, docs, shown, open, others>>

Granted(c) ==
  LET r == call[c]
  IN IF r.doc \in Stored THEN Accepts(docs[r.doc], r.what, r.amount) ELSE FALSE

(* The service carries the request out, and the handler reloads the lists.     *)
Accepted(c) ==
  /\ call[c].at = "sent"
  /\ Granted(c)
  /\ LET r == call[c]
     IN /\ r.what = "convert" => Unused # {}
        /\ docs' = Served(r.doc, r.what, r.amount)
        /\ open' = IF r.what = "pay" THEN open \ {r.doc} ELSE open
  /\ call' = [call EXCEPT ![c] = Loading]
  /\ calm' = Alone(c)
  /\ UNCHANGED <<role, linked, openYear, shown, others, sends>>

(* It refuses, and a message is all that changes.                             *)
Refused(c) ==
  /\ call[c].at = "sent"
  /\ ~ Granted(c)
  /\ call' = [call EXCEPT ![c] = Idle]
  /\ UNCHANGED <<role, linked, openYear, docs, shown, open, calm, others, sends>>

(* The lists of a reload are fetched apart, set together, and not set at all when
   one of them fails. *)
Fetch(c, kinds) ==
  /\ call[c].at = "loading"
  /\ kinds \notin DOMAIN call[c].got
  /\ call' = [call EXCEPT ![c].got = [k \in DOMAIN @ \cup {kinds} |-> IF k = kinds THEN Rows(k) ELSE @[k]]]
  /\ UNCHANGED <<role, linked, openYear, docs, shown, open, calm, others, sends>>

Loaded(c) ==
  /\ call[c].at = "loading"
  /\ DOMAIN call[c].got = Fetches
  /\ LET got == call[c].got
         Of(d) == {k \in Fetches : d \in DOMAIN got[k]}
     IN /\ shown' = [d \in {e \in Docs : Of(e) # {}} |-> got[CHOOSE k \in Of(d) : TRUE][d]]
        /\ open' = open \cap DOMAIN shown'
  /\ call' = [call EXCEPT ![c] = Idle]
  /\ calm' = (calm /\ Alone(c))
  /\ UNCHANGED <<role, linked, openYear, docs, others, sends>>

LoadFailed(c) ==
  /\ call[c].at = "loading"
  /\ call' = [call EXCEPT ![c] = Idle]
  /\ calm' = FALSE
  /\ UNCHANGED <<role, linked, openYear, docs, shown, open, others, sends>>

(* Elsewhere a document is entered, an advance is linked to an estimate,
   or a note is entered or cancelled. *)
Elsewhere ==
  /\ others < MaxOthers
  /\ others' = others + 1
  /\ calm' = FALSE
  /\ \/ \E d \in Unused, entry \in Entries :
          docs' = [docs EXCEPT ![d] = Entered(entry, Made)]
     \/ \E d \in Stored :
          /\ docs[d].kind = "estimate" /\ docs[d].paid < docs[d].total
          /\ docs' = [docs EXCEPT ![d].paid = @ + 1]
     \/ \E d \in Stored, noted \in 0..Total :
          /\ docs[d].kind # "estimate" /\ docs[d].status = "ISSUED"
          /\ docs' = [docs EXCEPT ![d].noted = noted]
  /\ UNCHANGED <<role, linked, openYear, shown, open, call, sends>>

Next ==
  \/ \E c \in Calls : Open(c) \/ Accepted(c) \/ Refused(c) \/ Loaded(c) \/ LoadFailed(c)
  \/ \E c \in Calls, kinds \in Fetches : Fetch(c, kinds)
  \/ \E d \in Docs : OpenForm(d)
  \/ \E c \in Calls, d \in Docs, amount \in 1..Total : Send(c, d, "pay", amount)
  \/ \E c \in Calls, d \in Docs, what \in {"accept", "decline", "convert", "cancel", "delete"} :
       Send(c, d, what, 0)
  \/ Elsewhere

Spec == Init /\ [][Next]_vars

-----------------------------------------------------------------------------
TypeOK ==
  /\ \E user \in Users : role = user[1] /\ linked = user[2] /\ openYear = user[3]
  /\ shown # None => DOMAIN shown \subseteq Docs
  /\ open \subseteq Listed
  /\ \A c \in Calls : call[c].at \in {"idle", "sent", "loading"}
  /\ \A d \in Stored : docs[d].kind \in Kinds

(* What the service looks at and a row does not: notes, batches, the advances of a
   booked estimate, and that an accountant deletes nothing. *)
Unseen(doc, what) ==
  \/ what = "delete" /\ role = "ACCOUNTANT"
  \/ what \in {"edit", "cancel"} /\ doc.noted > 0
  \/ what \in {"edit", "convert"} /\ doc.batched
  \/ doc.booked /\ (what = "edit" \/ (what = "cancel" /\ doc.paid > 0))

(* What a row that is up to date offers is accepted, a payment of all that is due
   too, unless the service looks at what the row does not show. *)
OfferedIsAccepted ==
  \A d \in Listed \cap Stored :
    shown[d] = Row(docs[d]) =>
      \A what \in Offered(shown[d]) :
        \/ Accepts(docs[d], what, IF what = "pay" THEN shown[d].due ELSE 0)
        \/ Unseen(docs[d], what)

(* When the last reload overlapped nothing and nothing changed elsewhere, the page
   lists, as they are stored, the newest documents of each kind of the session's
   year.  An invoice that a conversion entered in another year is not among them. *)
ListsFollow ==
  (calm /\ Quiet /\ shown # None) =>
    /\ \A d \in Listed : d \in Stored /\ docs[d].year = openYear /\ shown[d] = Row(docs[d])
    /\ \A kind \in Kinds : Listed \cap OfYear(kind) = Newest(kind)

(* Whatever stale rows or second tabs the payments came from, they stay within the
   total of the document, and an estimate is converted into an invoice that is still there. *)
StaleRowsAreHarmless ==
  \A d \in Stored :
    /\ docs[d].kind # "estimate" => docs[d].paid <= docs[d].total
    /\ docs[d].status = "CONVERTED" <=> docs[d].sale \in Stored
=============================================================================
