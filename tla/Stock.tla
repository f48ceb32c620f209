-------------------------------- MODULE Stock --------------------------------
(***************************************************************************)
(* Stock is no table: what is on hand is a sum over the lines of issued    *)
(* bills, invoices and notes, per item (stockReport) and, for items that   *)
(* track batches, per batch (availability).  A sale looks at the batch     *)
(* before its transaction, line by line; a bill makes its batches before   *)
(* its own.                                                                *)
(***************************************************************************)
EXTENDS Integers, Sequences, FiniteSets, Functions

CONSTANTS
  Requests,   \* concurrent API requests
  Items,      \* the items of the company
  BatchNos,   \* batch numbers, as typed
  Docs,       \* identities of documents; bounds how many there ever are
  MaxQty,     \* bound: the quantity of a line
  MaxLines,   \* bound: the lines of a document
  None

ASSUME FiniteAssumption == IsFiniteSet(Items) /\ IsFiniteSet(BatchNos) /\ IsFiniteSet(Docs)
ASSUME BoundsAssumption == MaxQty \in Nat /\ MaxLines \in Nat
ASSUME NoneAssumption == None \notin Docs \cup (Items \X BatchNos)

VARIABLES
  tracked,  \* Item.trackBatches
  batches,  \* the item_batches table: a batch is its item and its number
  docs,     \* bills, invoices, credit and debit notes with their lines
  req,      \* what each request has read so far
  crossed,  \* history: sales overtaken by another's commit
  plain     \* history: items that once did not track batches

vars == <<tracked, batches, docs, req, crossed, plain>>

NoDoc == [kind |-> "NONE", status |-> "NONE", lines |-> <<>>, source |-> None]
Idle == [op |-> "idle"]

LinesOf(Entry) == UNION {[1..n -> Entry] : n \in 1..MaxLines}

(* What a client enters, and what is stored of it.                           *)
Entries == LinesOf([item : Items, no : BatchNos, qty : 1..MaxQty])
StoredLines == LinesOf([item : Items, batch : Items \X BatchNos \cup {None}, qty : 1..MaxQty])

(* The lines against the item master: a batch number counts only where the   *)
(* item tracks batches, and there it is required.                            *)
Resolve(ls) ==
  [k \in DOMAIN ls |->
     [item |-> ls[k].item, qty |-> ls[k].qty,
      batch |-> IF tracked[ls[k].item] THEN <<ls[k].item, ls[k].no>> ELSE None]]

WithoutBatches(ls) ==
  [k \in DOMAIN ls |-> [item |-> ls[k].item, qty |-> ls[k].qty, batch |-> None]]

BatchesOf(ls) == {ls[k].batch : k \in DOMAIN ls} \ {None}

Issued(kind) == {d \in Docs : docs[d].kind = kind /\ docs[d].status = "ISSUED"}
IssuedNotesOf(d) == {n \in Issued("CN") \cup Issued("DN") : docs[n].source = d}

(* What lines have of a batch, and of an item.                               *)
Quantities(ls) == [k \in DOMAIN ls |-> ls[k].qty]
OfBatch(ls, b) == SumFunctionOnSet(Quantities(ls), {k \in DOMAIN ls : ls[k].batch = b})
OfItem(ls, i) == SumFunctionOnSet(Quantities(ls), {k \in DOMAIN ls : ls[k].item = i})

OnHand(qty) ==
  SumFunctionOnSet(qty, Issued("BILL")) - SumFunctionOnSet(qty, Issued("SALE"))
    + SumFunctionOnSet(qty, Issued("CN")) - SumFunctionOnSet(qty, Issued("DN"))

(* What is left of a batch.                                                  *)
Availability(b) == OnHand([d \in Docs |-> OfBatch(docs[d].lines, b)])

(* stockReport: what is on hand of an item, less its opening stock.          *)
Moved(i) == OnHand([d \in Docs |-> OfItem(docs[d].lines, i)])

Init ==
  /\ tracked \in [Items -> BOOLEAN]
  /\ batches = {}
  /\ docs = [d \in Docs |-> NoDoc]
  /\ req = [r \in Requests |-> Idle]
  /\ crossed = {}
  /\ plain = {i \in Items : ~ tracked[i]}

-----------------------------------------------------------------------------
Begin(r, readings) ==
  /\ req[r] = Idle
  /\ req' = [req EXCEPT ![r] = readings]
  /\ UNCHANGED crossed

(* A request that creates a document has one of Docs left to use.            *)
BeginCreate(r, kind, lines, source) ==
  /\ Cardinality({q \in Requests : req[q].op = "create"})
       < Cardinality({d \in Docs : docs[d] = NoDoc})
  /\ Begin(r, [op |-> "create", kind |-> kind, lines |-> lines, source |-> source])

Selling(r) == req[r].op = "create" /\ req[r].kind = "SALE"

End(r) ==
  /\ req' = [req EXCEPT ![r] = Idle]
  /\ crossed' = {q \in Requests : Selling(q)} \ {r}

(* upsertBatch of each line: found or made, and there from then on. *)
Upserted(lines) == batches \cup BatchesOf(lines)

(* resolveForSale of one line: a batch some purchase made, with enough left. *)
ResolvedForSale(line) ==
  line.batch # None => line.batch \in batches /\ line.qty <= Availability(line.batch)

(* Broken variant: a batch is made by whoever sells it first. *)
BillRead_NoUpsert(r, ls) ==
  /\ BeginCreate(r, "BILL", Resolve(ls), None)
  /\ UNCHANGED <<tracked, batches, docs, plain>>

(* purchases create up to its transaction; upsertBatch commits by itself. *)
BillRead(r, ls) ==
  /\ BeginCreate(r, "BILL", Resolve(ls), None)
  /\ batches' = Upserted(Resolve(ls))
  /\ UNCHANGED <<tracked, docs, plain>>

(* Broken variant: the quantity is compared with the stock of the item. *)
SaleRead_ItemStock(r, ls) ==
  LET lines == Resolve(ls)
  IN  /\ BatchesOf(lines) \subseteq batches
      /\ \A k \in DOMAIN lines :
           lines[k].batch # None => lines[k].qty <= Moved(lines[k].item)
      /\ BeginCreate(r, "SALE", lines, None)
      /\ UNCHANGED <<tracked, batches, docs, plain>>

(* invoices create up to its transaction: resolveForSale looks at each line   *)
(* by itself.                                                                *)
SaleRead(r, ls) ==
  LET lines == Resolve(ls)
  IN  /\ \A k \in DOMAIN lines : ResolvedForSale(lines[k])
      /\ BeginCreate(r, "SALE", lines, None)
      /\ UNCHANGED <<tracked, batches, docs, plain>>

(* notes create: any item, any quantity its rate leaves within the document's *)
(* value; the batch is not asked for.                                        *)
NoteRead(r, d, ls) ==
  /\ docs[d].kind \in {"BILL", "SALE"}
  /\ docs[d].status = "ISSUED"
  /\ BeginCreate(r, IF docs[d].kind = "SALE" THEN "CN" ELSE "DN", WithoutBatches(ls), d)
  /\ UNCHANGED <<tracked, batches, docs, plain>>

(* The transaction of each; a note's document must still exist. *)
CreateCommit(r, d) ==
  /\ req[r].op = "create"
  /\ docs[d] = NoDoc
  /\ req[r].source # None => docs[req[r].source].status # "GONE"
  /\ docs' = [docs EXCEPT ![d] = [kind |-> req[r].kind, status |-> "ISSUED",
                                  lines |-> req[r].lines, source |-> req[r].source]]
  /\ End(r)
  /\ UNCHANGED <<tracked, batches, plain>>

(* The state in which cancel and update go ahead; payments, which stop both,  *)
(* move no stock.                                                            *)
Unsettled(d) ==
  /\ docs[d].kind \in {"BILL", "SALE"}
  /\ docs[d].status = "ISSUED"
  /\ IssuedNotesOf(d) = {}

CancelRead(r, d) ==
  /\ Unsettled(d)
  /\ Begin(r, [op |-> "cancel", doc |-> d])
  /\ UNCHANGED <<tracked, batches, docs, plain>>

CancelCommit(r) ==
  /\ req[r].op = "cancel"
  /\ docs[req[r].doc].status # "GONE"
  /\ docs' = [docs EXCEPT ![req[r].doc].status = "CANCELLED"]
  /\ End(r)
  /\ UNCHANGED <<tracked, batches, plain>>

NoteCancel(r, n) ==
  /\ req[r] = Idle
  /\ n \in Issued("CN") \cup Issued("DN")
  /\ docs' = [docs EXCEPT ![n].status = "CANCELLED"]
  /\ End(r)
  /\ UNCHANGED <<tracked, batches, plain>>

(* Broken variant: the lines there are may be of items that track batches. *)
EditRead_Batched(r, d, ls) ==
  /\ Unsettled(d)
  /\ Begin(r, [op |-> "edit", doc |-> d, lines |-> WithoutBatches(ls)])
  /\ UNCHANGED <<tracked, batches, docs, plain>>

(* update: neither the lines there are nor the new ones may be of items that  *)
(* track batches now.                                                        *)
EditRead(r, d, ls) ==
  /\ Unsettled(d)
  /\ \A k \in DOMAIN docs[d].lines : ~ tracked[docs[d].lines[k].item]
  /\ \A k \in DOMAIN ls : ~ tracked[ls[k].item]
  /\ Begin(r, [op |-> "edit", doc |-> d, lines |-> WithoutBatches(ls)])
  /\ UNCHANGED <<tracked, batches, docs, plain>>

EditCommit(r) ==
  /\ req[r].op = "edit"
  /\ docs[req[r].doc].status # "GONE"
  /\ docs' = [docs EXCEPT ![req[r].doc].lines = req[r].lines]
  /\ End(r)
  /\ UNCHANGED <<tracked, batches, plain>>

(* remove: the deletes find the notes of this moment ...                     *)
RemoveRead(r, d) ==
  /\ docs[d].kind \in {"BILL", "SALE"}
  /\ docs[d].status # "GONE"
  /\ Begin(r, [op |-> "remove", doc |-> d,
               notes |-> {n \in Docs : docs[n].source = d}])
  /\ UNCHANGED <<tracked, batches, docs, plain>>

(* ... and the foreign key detaches those committed since.                   *)
RemoveCommit(r) ==
  /\ req[r].op = "remove"
  /\ docs[req[r].doc].status # "GONE"
  /\ docs' = [d \in Docs |->
       IF d \in {req[r].doc} \cup req[r].notes
       THEN [docs[d] EXCEPT !.status = "GONE", !.lines = <<>>, !.source = None]
       ELSE IF docs[d].source = req[r].doc THEN [docs[d] EXCEPT !.source = None]
       ELSE docs[d]]
  /\ End(r)
  /\ UNCHANGED <<tracked, batches, plain>>

(* updateItem may set the flag at any time, stock or no stock. *)
TrackBatches(i, flag) ==
  /\ tracked' = [tracked EXCEPT ![i] = flag]
  /\ plain' = IF flag THEN plain ELSE plain \cup {i}
  /\ UNCHANGED <<batches, docs, req, crossed>>

Abandon(r) ==
  /\ req[r] # Idle
  /\ req' = [req EXCEPT ![r] = Idle]
  /\ crossed' = crossed \ {r}
  /\ UNCHANGED <<tracked, batches, docs, plain>>

Next ==
  \/ \E r \in Requests :
       \/ \E ls \in Entries :
            \/ BillRead(r, ls)
            \/ SaleRead(r, ls)
            \/ \E d \in Docs : NoteRead(r, d, ls) \/ EditRead(r, d, ls)
       \/ \E d \in Docs :
            \/ CreateCommit(r, d)
            \/ CancelRead(r, d)
            \/ NoteCancel(r, d)
            \/ RemoveRead(r, d)
       \/ CancelCommit(r)
       \/ EditCommit(r)
       \/ RemoveCommit(r)
       \/ Abandon(r)
  \/ \E i \in Items, flag \in BOOLEAN : TrackBatches(i, flag)

Spec == Init /\ [][Next]_vars

-----------------------------------------------------------------------------
Doc == [kind : {"BILL", "SALE", "CN", "DN"}, status : {"ISSUED", "CANCELLED"},
        lines : StoredLines, source : Docs \cup {None}]
       \cup [kind : {"BILL", "SALE", "CN", "DN"}, status : {"GONE"},
             lines : {<<>>}, source : {None}]

(* Type invariant: a line stands on a batch of its own item that exists, a
   note on a document that exists. *)
TypeOK ==
  /\ batches \subseteq Items \X BatchNos
  /\ \A d \in Docs :
       /\ docs[d] \in Doc \cup {NoDoc}
       /\ \A k \in DOMAIN docs[d].lines :
            docs[d].lines[k].batch \in {None} \cup {b \in batches : b[1] = docs[d].lines[k].item}
       /\ docs[d].source # None => docs[docs[d].source].status \in {"ISSUED", "CANCELLED"}

(* resolveForSale: a sale that no other request overtook, whose lines are of
   different batches, leaves none of them below nothing, whatever bills, sales
   and edits have been cancelled, removed or returned before. *)
SaleFitsBatch ==
  [][\A r \in Requests :
       LET ls == req[r].lines
       IN  /\ Selling(r)
           /\ docs' # docs /\ req'[r] = Idle
           /\ r \notin crossed
           /\ \A j, k \in DOMAIN ls : ls[j].batch = ls[k].batch => j = k \/ ls[j].batch = None
           => \A b \in BatchesOf(ls) : Availability(b)' >= 0]_vars

Returned(i) ==
  LET qty == [d \in Docs |-> OfItem(docs[d].lines, i)]
  IN  SumFunctionOnSet(qty, Issued("CN")) - SumFunctionOnSet(qty, Issued("DN"))

InBatches(i) ==
  SumFunctionOnSet([b \in batches |-> Availability(b)], {b \in batches : b[1] = i})

(* An item that has always tracked batches: its batches hold all of its stock
   but what was returned, through any interleaving.  Nothing else is ever bought
   or sold of it without a batch. *)
BatchesMissOnlyReturns ==
  \A i \in Items \ plain : Moved(i) - InBatches(i) = Returned(i)

(* "Batch quantity = purchased - sold + sales-returns (CN) - purchase-returns
   (DN)": the batches of an item that has always tracked them hold its stock. *)
BatchesHoldStock ==
  \A i \in Items \ plain : Moved(i) = InBatches(i)
=============================================================================
