----------------------------- MODULE PaymentPage -----------------------------
(***************************************************************************)
(* The page that records receipts and payments: a party is picked, its      *)
(* documents are loaded in two fetches, an amount is entered and posted as  *)
(* a series of requests, one per document.  Loads are not aborted, other    *)
(* users pay meanwhile, and any request may fail or lose its answer.        *)
(***************************************************************************)
EXTENDS Integers, FiniteSets, FiniteSetsExt, Functions

CONSTANTS
  Parties,
  Owner,     \* the party of each document; documents are numbered by date
  Loads,     \* loads of a party that may be under way at a time
  Totals,    \* what each document may come to
  MaxAmount, \* bound: amounts are 1..MaxAmount
  MaxEntered, \* bound: what users ever enter
  MaxPosted,  \* bound: what submissions ever post
  None

VARIABLES
  mode,   \* which documents the page settles: estimates, or invoices (and bills)
  total,  \* server: the total of each document
  paid,   \* server: what is recorded against each document
  acc,    \* server: what is recorded on account of each party
  page,   \* what the page shows, and what is entered in it
  load,   \* the loads under way
  job,    \* the submission under way
  sums,   \* entered: amounts users filled in; posted: amounts this page recorded
  odd,    \* what may have gone wrong: "retried" a failed submission, "stale" view
  fresh   \* the party whose payments came last, if none was recorded since

vars == <<mode, total, paid, acc, page, load, job, sums, odd, fresh>>
server == <<total, paid, acc>>

Docs == DOMAIN Owner
Amounts == 1..MaxAmount
Zero == [d \in Docs |-> 0]
DocsOf(p) == {d \in Docs : Owner[d] = p}
Sum(f, S) == SumFunctionOnSet(f, S)
Left(d) == Max({0, total[d] - paid[d]})

Init ==
  /\ mode \in {"estimate", "invoice"}
  /\ total \in Totals
  /\ paid = Zero
  /\ acc = [p \in Parties |-> 0]
  /\ page = [party |-> None, loading |-> FALSE, shown |-> None, open |-> Zero, due |-> 0,
             received |-> 0, alloc |-> Zero, advance |-> 0, failed |-> FALSE]
  /\ load = [l \in Loads |-> None]
  /\ job = None
  /\ sums = [entered |-> 0, posted |-> 0]
  /\ odd = {}
  /\ fresh = None

Free(l) == load[l] = None
Start(l, p) == load' = [load EXCEPT ![l] = [party |-> p, pays |-> None]]

(* setPartyId and its effect: the form is cleared, the documents are not.      *)
SelectParty(l, p) ==
  /\ p # page.party /\ Free(l)
  /\ page' = [page EXCEPT !.party = p, !.loading = TRUE, !.alloc = Zero, !.advance = 0,
                !.failed = FALSE]
  /\ Start(l, p)
  /\ UNCHANGED <<mode, server, job, sums, odd, fresh>>

(* Broken variant: only what is linked to a document counts. *)
Received_Linked(p) == IF mode = "estimate" THEN Sum(paid, DocsOf(p)) ELSE 0

(* What fetchPartyPayments lists: receipts on account and for estimates; those
   of invoices are not the party's. *)
Received(p) == acc[p] + (IF mode = "estimate" THEN Sum(paid, DocsOf(p)) ELSE 0)

(* loadParty: the payments come first; a failure counts as none.              *)
LoadPays(l) ==
  /\ ~ Free(l) /\ load[l].pays = None
  /\ \E fails \in BOOLEAN :
       LET p == load[l].party
       IN /\ load' = [load EXCEPT ![l].pays = IF fails THEN Zero ELSE paid]
          /\ page' = [page EXCEPT !.received = IF fails THEN 0 ELSE Received(p)]
          /\ fresh' = IF fails THEN None ELSE p
  /\ UNCHANGED <<mode, server, job, sums, odd>>

(* ... then the documents, whichever party is selected by now: estimates with
   what was paid when the payments came, invoices with their own figure.  A
   failure empties the list of estimates and leaves that of invoices. *)
LoadDocs(l) ==
  /\ ~ Free(l) /\ load[l].pays # None
  /\ load' = [load EXCEPT ![l] = None]
  /\ LET p == load[l].party
         net == IF mode = "estimate" THEN load[l].pays ELSE paid
     IN \/ page' = [page EXCEPT !.loading = FALSE, !.shown = p,
                      !.open = [d \in Docs |-> IF d \in DocsOf(p)
                                               THEN Max({0, total[d] - net[d]}) ELSE 0],
                      !.due = Sum(total, DocsOf(p))]
        \/ /\ mode = "estimate"
           /\ page' = [page EXCEPT !.loading = FALSE, !.shown = None, !.open = Zero, !.due = 0]
        \/ /\ mode = "invoice"
           /\ page' = [page EXCEPT !.loading = FALSE]
  /\ UNCHANGED <<mode, server, job, sums, odd, fresh>>

(* Amounts typed in: one for the whole balance of an estimate customer, one per
   document shown and an advance otherwise. *)
Fill(alloc, advance) ==
  LET entered == Sum(alloc, Docs) + advance
  IN /\ page.party # None /\ ~ page.loading /\ job = None
     /\ page.advance = 0 /\ page.alloc = Zero
     /\ mode = "estimate" => alloc = Zero
     /\ \A d \in Docs : alloc[d] > 0 => page.open[d] > 0
     /\ entered > 0 /\ sums.entered + entered <= MaxEntered
     /\ page' = [page EXCEPT !.alloc = alloc, !.advance = advance, !.failed = FALSE]
     /\ sums' = [sums EXCEPT !.entered = @ + entered]
     /\ UNCHANGED <<mode, server, load, job, odd, fresh>>

Entered == Sum(page.alloc, Docs) + page.advance

(* submit works on the documents and amounts of the page as they are now.     *)
Submit ==
  /\ job = None /\ page.party # None /\ Entered > 0
  /\ sums.posted + Entered <= MaxPosted
  /\ job' = [party |-> page.party, open |-> page.open, todo |-> Docs,
             alloc |-> page.alloc, left |-> page.advance, got |-> Zero, spare |-> 0]
  /\ odd' = odd \cup (IF page.failed THEN {"retried"} ELSE {})
                \cup (IF \E d \in Docs : page.open[d] > Left(d) THEN {"stale"} ELSE {})
  /\ UNCHANGED <<mode, server, page, load, sums, fresh>>

(* Broken variant: the first document takes it all. *)
Share_All(d) ==
  IF job.open[d] = 0 THEN 0
  ELSE IF mode = "estimate" THEN job.left ELSE job.alloc[d]

(* The share of document d in a submission. *)
Share(d) ==
  IF job.open[d] = 0 THEN 0
  ELSE IF mode = "estimate" THEN Min({job.left, job.open[d]}) ELSE job.alloc[d]

(* Broken variant: the newest comes first. *)
NextDoc_NewestFirst == Max({d \in job.todo : Share(d) > 0})

(* Documents in the order of their dates.                                     *)
NextDoc == Min({d \in job.todo : Share(d) > 0})

More == \E d \in job.todo : Share(d) > 0

(* recordPartyPayment holds an estimate to its party, recordPayment an invoice
   to what is left of it. *)
Accepts(d, a) ==
  IF mode = "estimate" THEN Owner[d] = job.party ELSE a <= total[d] - paid[d]

Fails == job' = None /\ page' = [page EXCEPT !.failed = page.party = job.party]

(* The next document is paid, the answer arriving or not; or the request does
   not get there, or is refused. *)
PostDoc ==
  /\ job # None /\ More
  /\ LET d == NextDoc
         a == Share(d)
     IN \/ /\ Accepts(d, a)
           /\ paid' = [paid EXCEPT ![d] = @ + a]
           /\ fresh' = None
           /\ sums' = [sums EXCEPT !.posted = @ + a]
           /\ \/ /\ job' = [job EXCEPT !.todo = @ \ {d}, !.got[d] = a,
                              !.left = IF mode = "estimate" THEN @ - a ELSE @]
                 /\ UNCHANGED page
              \/ Fails
        \/ Fails /\ UNCHANGED <<paid, sums, fresh>>
  /\ UNCHANGED <<mode, total, acc, load, odd>>

(* What is left goes on account.                                              *)
PostAdvance ==
  /\ job # None /\ ~ More /\ job.left > 0
  /\ \/ /\ acc' = [acc EXCEPT ![job.party] = @ + job.left]
        /\ fresh' = None
        /\ sums' = [sums EXCEPT !.posted = @ + job.left]
        /\ \/ /\ job' = [job EXCEPT !.left = 0, !.spare = job.left]
              /\ UNCHANGED page
           \/ Fails
     \/ Fails /\ UNCHANGED <<acc, sums, fresh>>
  /\ UNCHANGED <<mode, total, paid, load, odd>>

(* Broken variant: the form keeps the amounts. *)
Recorded_FormKept(l) ==
  /\ job # None /\ ~ More /\ job.left = 0 /\ Free(l)
  /\ job' = None
  /\ page' = [page EXCEPT !.loading = TRUE]
  /\ Start(l, job.party)
  /\ UNCHANGED <<mode, server, sums, odd, fresh>>

(* "recorded": the form is cleared and the party that was paid is loaded again,
   whichever is selected by now. *)
Recorded(l) ==
  /\ job # None /\ ~ More /\ job.left = 0 /\ Free(l)
  /\ job' = None
  /\ page' = [page EXCEPT !.loading = TRUE, !.alloc = Zero, !.advance = 0, !.failed = FALSE]
  /\ Start(l, job.party)
  /\ UNCHANGED <<mode, server, sums, odd, fresh>>

(* Deletion of a receipt on account; the form keeps its amounts.              *)
RemovePayment(l, p, a) ==
  /\ p = page.party /\ a <= acc[p] /\ Free(l)
  /\ fresh' = None
  /\ acc' = [acc EXCEPT ![p] = @ - a]
  /\ page' = [page EXCEPT !.loading = TRUE]
  /\ Start(l, p)
  /\ odd' = IF job = None THEN odd ELSE odd \cup {"stale"}
  /\ UNCHANGED <<mode, total, paid, job, sums>>

(* Another user settles a document.                                           *)
OthersPay(d, a) ==
  /\ a <= total[d] - paid[d]
  /\ fresh' = None
  /\ paid' = [paid EXCEPT ![d] = @ + a]
  /\ odd' = IF job = None THEN odd ELSE odd \cup {"stale"}
  /\ UNCHANGED <<mode, total, acc, page, load, job, sums>>

Next ==
  \/ \E l \in Loads :
       \/ \E p \in Parties : SelectParty(l, p)
       \/ \E p \in Parties, a \in Amounts : RemovePayment(l, p, a)
       \/ LoadPays(l) \/ LoadDocs(l) \/ Recorded(l)
  \/ \E alloc \in [Docs -> 0..MaxAmount], advance \in 0..MaxAmount : Fill(alloc, advance)
  \/ Submit \/ PostDoc \/ PostAdvance
  \/ \E d \in Docs, a \in Amounts : OthersPay(d, a)

Spec == Init /\ [][Next]_vars

-----------------------------------------------------------------------------
Money == [Docs -> Nat]
TypeOK ==
  /\ total \in Totals /\ paid \in Money /\ acc \in [Parties -> Nat]
  /\ page.party \in Parties \cup {None} /\ page.shown \in Parties \cup {None}
  /\ page.open \in Money /\ page.alloc \in Money /\ page.advance \in Nat
  /\ page.received \in Nat /\ page.due \in Nat
  /\ \A l \in Loads : load[l] = None \/
       /\ load[l].party \in Parties
       /\ load[l].pays = None \/ load[l].pays \in Money
  /\ job = None \/
       /\ job.party \in Parties /\ job.todo \subseteq Docs /\ job.left \in Nat
       /\ job.open \in Money /\ job.alloc \in Money /\ job.got \in Money
  /\ fresh \in Parties \cup {None}
  /\ odd \subseteq {"retried", "stale"}

(* An estimate is never settled beyond its total by a page whose figures were
   those of the server when the amount was submitted and nobody else was paying;
   an invoice is not in any case. *)
NotOverpaid ==
  mode = "invoice" \/ "stale" \notin odd => \A d \in Docs : paid[d] <= total[d]

(* "Spread ... oldest-first ... Any excess beyond every open doc is recorded
   on-account": while a sum is being posted, a later estimate has had a share
   only if those before it are settled as far as they were open, and the account
   only if all are. *)
OldestFirst ==
  job # None /\ mode = "estimate" =>
    /\ \A d, e \in Docs : d < e /\ job.got[e] > 0 => job.got[d] = job.open[d]
    /\ job.spare > 0 => job.got = job.open

(* What users entered is recorded once at most, in answers lost too, unless a
   submission that had failed half-way was sent again. *)
RecordedOnce == "retried" \notin odd => sums.posted <= sums.entered

AmountDue == Max({0, page.due - page.received})

(* "Using the sum of ALL receipts ... keeps Balance Due in step with the party's
   ledger balance": with estimates booked and no opening, it is that balance,
   or 0 when the party has paid more, whenever the two fetches of the party
   shown saw the books as they are. *)
BalanceDueInStep ==
  /\ mode = "estimate" /\ page.shown # None
  /\ fresh = page.shown
  => LET p == page.shown
     IN AmountDue = Max({0, Sum(total, DocsOf(p)) - Sum(paid, DocsOf(p)) - acc[p]})

=============================================================================
