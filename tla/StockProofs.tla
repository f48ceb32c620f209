------------------------------ MODULE StockProofs ------------------------------
(***************************************************************************)
(* Every line that counts stands on a batch of its own item that exists,   *)
(* or the item did not track batches at some time.                         *)
(***************************************************************************)
EXTENDS Stock, SumLemmas, TLAPS

Kinds == {"BILL", "SALE", "CN", "DN"}
Notes == {"CN", "DN"}
Documents == {"BILL", "SALE"}
Entry == [item : Items, no : BatchNos, qty : 1..MaxQty]
StoredLine == [item : Items, batch : Items \X BatchNos \cup {None}, qty : 1..MaxQty]

(* Lines stand on batches of their items that exist.                         *)
OnBatches(ls) ==
  \A k \in DOMAIN ls : ls[k].batch \in {None} \cup {b \in batches : b[1] = ls[k].item}

(* Only a note has a source, and that is a document that still exists.       *)
SourceSound(d) ==
  docs[d].source # None =>
    /\ docs[d].kind \in Notes
    /\ docs[docs[d].source].kind \in Documents
    /\ docs[docs[d].source].status \in {"ISSUED", "CANCELLED"}

DocsSound ==
  /\ docs \in [Docs -> Doc \cup {NoDoc}]
  /\ \A d \in Docs : OnBatches(docs[d].lines) /\ SourceSound(d)

(* What a request has read is still so: batches are not deleted, and a document
   keeps its kind; whether it exists is asked again at the commit. *)
RequestSound(q) ==
  \/ /\ q.op = "create" /\ q.kind \in Kinds
     /\ q.lines \in StoredLines /\ OnBatches(q.lines)
     /\ q.source \in Docs \cup {None}
     /\ q.source # None => q.kind \in Notes /\ docs[q.source].kind \in Documents
  \/ /\ q.op \in {"cancel", "edit", "remove"} /\ q.doc \in Docs /\ docs[q.doc].kind \in Documents
     /\ q.op = "edit" => q.lines \in StoredLines /\ OnBatches(q.lines)
     /\ q.op = "remove" => q.notes \subseteq {n \in Docs : docs[n].kind \in Notes}

RequestsSound ==
  /\ DOMAIN req = Requests
  /\ \A r \in Requests : req[r] = Idle \/ RequestSound(req[r])

IInv == batches \subseteq Items \X BatchNos /\ DocsSound /\ RequestsSound

-----------------------------------------------------------------------------
(* Documents of the table, by their fields.                                  *)
LEMMA DocFields ==
  ASSUME docs \in [Docs -> Doc \cup {NoDoc}], NEW d \in Docs
  PROVE  /\ docs[d].source \in Docs \cup {None}
         /\ docs[d].kind \in Kinds => docs[d] \in Doc
         /\ docs[d].status \in {"ISSUED", "CANCELLED"} =>
              docs[d].kind \in Kinds /\ docs[d].lines \in StoredLines
         /\ docs[d] \in Doc => docs[d].kind \in Kinds
         /\ docs[d].status = "GONE" => docs[d].source = None /\ docs[d].lines = <<>>
         /\ docs[d].kind \in Kinds /\ docs[d].status # "GONE" => docs[d].status \in {"ISSUED", "CANCELLED"}
<1>1. docs[d] \in Doc \/ docs[d] = NoDoc
  OBVIOUS
<1>. QED  BY <1>1 DEF Doc, NoDoc, Kinds

(* What lines are.                                                          *)
LEMMA Lines ==
  ASSUME NEW S, NEW ls
  PROVE  ls \in LinesOf(S) <=> \E n \in 1..MaxLines : ls \in [1..n -> S]
BY DEF LinesOf

(* What resolving does to the lines of a client.                             *)
LEMMA Resolved ==
  ASSUME NEW ls \in Entries
  PROVE  /\ Resolve(ls) \in StoredLines /\ DOMAIN Resolve(ls) = DOMAIN ls
         /\ \A k \in DOMAIN Resolve(ls) :
              /\ Resolve(ls)[k].item \in Items
              /\ Resolve(ls)[k].batch \in Items \X BatchNos \cup {None}
              /\ Resolve(ls)[k].batch # None => Resolve(ls)[k].batch[1] = Resolve(ls)[k].item
              /\ tracked[Resolve(ls)[k].item] => Resolve(ls)[k].batch # None
<1>1. PICK n \in 1..MaxLines : ls \in [1..n -> Entry]
  BY DEF Entries, LinesOf, Entry
<1>2. \A k \in 1..n : /\ ls[k].item \in Items /\ ls[k].qty \in 1..MaxQty /\ ls[k].no \in BatchNos
                      /\ <<ls[k].item, ls[k].no>> \in Items \X BatchNos
  BY <1>1 DEF Entry
<1>3. Resolve(ls) \in [1..n -> StoredLine]
  BY <1>1, <1>2 DEF Resolve, StoredLine
<1>4. Resolve(ls) \in StoredLines
  BY <1>3 DEF StoredLines, LinesOf, StoredLine
<1>5. DOMAIN Resolve(ls) = 1..n /\ DOMAIN ls = 1..n
  BY <1>1, <1>3
<1>6. ASSUME NEW k \in 1..n
      PROVE  /\ Resolve(ls)[k].item = ls[k].item
             /\ Resolve(ls)[k].batch = IF tracked[ls[k].item] THEN <<ls[k].item, ls[k].no>> ELSE None
             /\ <<ls[k].item, ls[k].no>>[1] = ls[k].item /\ <<ls[k].item, ls[k].no>> # None
  <2>1. /\ Resolve(ls)[k].item = ls[k].item
        /\ Resolve(ls)[k].batch = IF tracked[ls[k].item] THEN <<ls[k].item, ls[k].no>> ELSE None
    BY <1>5 DEF Resolve
  <2>2. <<ls[k].item, ls[k].no>> # None
    BY <1>2, NoneAssumption
  <2>. QED  BY <2>1, <2>2
<1>7. \A k \in DOMAIN Resolve(ls) :
        /\ Resolve(ls)[k].item \in Items
        /\ Resolve(ls)[k].batch \in Items \X BatchNos \cup {None}
        /\ Resolve(ls)[k].batch # None => Resolve(ls)[k].batch[1] = Resolve(ls)[k].item
        /\ tracked[Resolve(ls)[k].item] => Resolve(ls)[k].batch # None
  <2>. SUFFICES ASSUME NEW k \in 1..n
                PROVE  /\ Resolve(ls)[k].item \in Items
                       /\ Resolve(ls)[k].batch \in Items \X BatchNos \cup {None}
                       /\ Resolve(ls)[k].batch # None => Resolve(ls)[k].batch[1] = Resolve(ls)[k].item
                       /\ tracked[Resolve(ls)[k].item] => Resolve(ls)[k].batch # None
    BY <1>5
  <2>1. PICK i \in Items, no \in BatchNos : i = ls[k].item /\ no = ls[k].no
    BY <1>2
  <2>2. PICK b : b = Resolve(ls)[k].batch
    OBVIOUS
  <2>3. b = (IF tracked[i] THEN <<i, no>> ELSE None) /\ <<i, no>>[1] = i /\ <<i, no>> # None
    BY <1>6, <2>1, <2>2
  <2>4. b \in Items \X BatchNos \cup {None} /\ (b # None => b[1] = i) /\ (tracked[i] => b # None)
    BY <2>3
  <2>. QED  BY <1>6, <2>1, <2>2, <2>4
<1>. QED  BY <1>4, <1>5, <1>7

(* Lines without batches are stored ones, of the same items.                *)
LEMMA Batchless ==
  ASSUME NEW ls \in Entries
  PROVE  /\ WithoutBatches(ls) \in StoredLines /\ DOMAIN WithoutBatches(ls) = DOMAIN ls
         /\ OnBatches(WithoutBatches(ls))
         /\ \A k \in DOMAIN ls : ls[k].item \in Items /\ WithoutBatches(ls)[k].item = ls[k].item
                                 /\ WithoutBatches(ls)[k].batch = None
<1>1. PICK n \in 1..MaxLines : ls \in [1..n -> Entry]
  BY DEF Entries, LinesOf, Entry
<1>2. \A k \in 1..n : ls[k].item \in Items /\ ls[k].qty \in 1..MaxQty
  BY <1>1 DEF Entry
<1>3. WithoutBatches(ls) \in [1..n -> StoredLine]
  BY <1>1, <1>2 DEF WithoutBatches, StoredLine
<1>4. WithoutBatches(ls) \in StoredLines
  BY <1>3 DEF StoredLines, LinesOf, StoredLine
<1>. QED  BY <1>1, <1>2, <1>4 DEF WithoutBatches, OnBatches

(* Nothing is stored, nothing has been read.                                *)
LEMMA InitIInv == Init => IInv
BY DEF Init, IInv, DocsSound, RequestsSound, NoDoc, OnBatches, SourceSound

(* Batches are only added.                                                   *)
LEMMA OnBatchesGrows ==
  ASSUME NEW ls, OnBatches(ls), batches \subseteq batches'
  PROVE  OnBatches(ls)'
BY DEF OnBatches

(* A request begins, moves on or ends, and no document changes.              *)
LEMMA DocsKept ==
  ASSUME IInv, NEW r \in Requests, NEW q, q = Idle \/ RequestSound(q)', req' = [req EXCEPT ![r] = q],
         UNCHANGED docs, batches \subseteq batches', batches' \subseteq Items \X BatchNos
  PROVE  IInv'
<1>1. DocsSound'
  <2>1. \A d \in Docs : OnBatches(docs[d].lines)'
    BY DEF IInv, DocsSound, OnBatches
  <2>2. \A d \in Docs : SourceSound(d)'
    BY DEF IInv, DocsSound, SourceSound
  <2>. QED  BY <2>1, <2>2 DEF IInv, DocsSound
<1>2. \A p : RequestSound(p) => RequestSound(p)'
  BY OnBatchesGrows DEF RequestSound
<1>3. /\ DOMAIN req' = Requests /\ req'[r] = q
      /\ \A s \in Requests \ {r} : req'[s] = req[s]
  BY DEF IInv, RequestsSound
<1>4. RequestsSound'
  <2>. SUFFICES ASSUME NEW s \in Requests  PROVE (req[s] = Idle \/ RequestSound(req[s]))'
    BY <1>3 DEF RequestsSound
  <2>1. CASE s = r
    BY <1>3, <2>1
  <2>2. CASE s # r
    <3>1. PICK p : p = req[s]
      OBVIOUS
    <3>2. p = Idle \/ RequestSound(p)'
      BY <1>2, <3>1 DEF IInv, RequestsSound
    <3>. QED  BY <1>3, <2>2, <3>1, <3>2
  <2>. QED  BY <2>1, <2>2
<1>. QED  BY <1>1, <1>4 DEF IInv

(* Documents change and keep their kind, or are created; batches stay.       *)
LEMMA DocsChanged ==
  ASSUME IInv, NEW r \in Requests, req' = [req EXCEPT ![r] = Idle], UNCHANGED batches, DocsSound',
         \A d \in Docs : docs[d].kind \in Kinds => docs'[d].kind = docs[d].kind
  PROVE  IInv'
<1>1. \A p : RequestSound(p) => RequestSound(p)'
  BY OnBatchesGrows DEF RequestSound, Kinds, Notes, Documents
<1>2. /\ DOMAIN req' = Requests
      /\ \A s \in Requests : req'[s] = Idle \/ req'[s] = req[s]
  BY DEF IInv, RequestsSound
<1>3. RequestsSound'
  <2>. SUFFICES ASSUME NEW s \in Requests  PROVE (req[s] = Idle \/ RequestSound(req[s]))'
    BY <1>2 DEF RequestsSound
  <2>1. PICK p : p = req[s]
    OBVIOUS
  <2>2. p = Idle \/ RequestSound(p)'
    BY <1>1, <2>1 DEF IInv, RequestsSound
  <2>. QED  BY <1>2, <2>1, <2>2
<1>. QED  BY <1>3 DEF IInv

(* Every step keeps it, action by action.                                   *)
LEMMA Inductive ==
  ASSUME IInv, [Next]_vars
  PROVE  IInv'
<1>a. docs \in [Docs -> Doc \cup {NoDoc}] /\ batches \subseteq Items \X BatchNos
  BY DEF IInv, DocsSound
<1>1. ASSUME NEW r \in Requests, NEW ls \in Entries, BillRead(r, ls)
      PROVE  IInv'
  <2>1. PICK lines \in StoredLines : lines = Resolve(ls)
    BY Resolved
  <2>. DEFINE q == [op |-> "create", kind |-> "BILL", lines |-> lines, source |-> None]
  <2>2. req' = [req EXCEPT ![r] = q] /\ UNCHANGED docs /\ batches' = batches \cup BatchesOf(lines)
    BY <1>1, <2>1 DEF BillRead, BeginCreate, Begin, Upserted
  <2>3. \A k \in DOMAIN lines : lines[k].batch \in {None} \cup BatchesOf(lines)
                               /\ (lines[k].batch # None => lines[k].batch[1] = lines[k].item)
                               /\ lines[k].batch \in Items \X BatchNos \cup {None}
    BY <2>1, Resolved DEF BatchesOf
  <2>4. OnBatches(lines)'
    BY <2>2, <2>3 DEF OnBatches
  <2>5. batches' \subseteq Items \X BatchNos
    BY <1>a, <2>2, <2>3 DEF BatchesOf
  <2>6. RequestSound(q)'
    BY <2>4 DEF RequestSound, Kinds
  <2>. HIDE DEF q
  <2>. QED  BY <2>2, <2>5, <2>6, DocsKept
<1>2. ASSUME NEW r \in Requests, NEW ls \in Entries, SaleRead(r, ls)
      PROVE  IInv'
  <2>1. PICK lines \in StoredLines : lines = Resolve(ls)
    BY Resolved
  <2>. DEFINE q == [op |-> "create", kind |-> "SALE", lines |-> lines, source |-> None]
  <2>2. req' = [req EXCEPT ![r] = q] /\ UNCHANGED <<docs, batches>>
    BY <1>2, <2>1 DEF SaleRead, BeginCreate, Begin
  <2>3. \A k \in DOMAIN lines : lines[k].batch # None => lines[k].batch \in batches
                               /\ lines[k].batch[1] = lines[k].item
    <3>1. \A k \in DOMAIN lines : lines[k].batch # None => lines[k].batch[1] = lines[k].item
      BY <2>1, Resolved
    <3>2. \A k \in DOMAIN lines : ResolvedForSale(lines[k])
      BY <1>2, <2>1 DEF SaleRead
    <3>. QED  BY <3>1, <3>2 DEF ResolvedForSale
  <2>4. OnBatches(lines)'
    BY <2>2, <2>3 DEF OnBatches
  <2>5. RequestSound(q)'
    BY <2>4 DEF RequestSound, Kinds
  <2>. HIDE DEF q
  <2>. QED  BY <1>a, <2>2, <2>5, DocsKept
<1>3. ASSUME NEW r \in Requests, NEW ls \in Entries, NEW d \in Docs, NoteRead(r, d, ls)
      PROVE  IInv'
  <2>1. PICK lines \in StoredLines : lines = WithoutBatches(ls)
    BY Batchless
  <2>2. PICK kind \in Notes : kind = IF docs[d].kind = "SALE" THEN "CN" ELSE "DN"
    BY DEF Notes
  <2>. DEFINE q == [op |-> "create", kind |-> kind, lines |-> lines, source |-> d]
  <2>3. req' = [req EXCEPT ![r] = q] /\ UNCHANGED <<docs, batches>> /\ docs[d].kind \in Documents
    BY <1>3, <2>1, <2>2 DEF NoteRead, BeginCreate, Begin, Documents
  <2>4. OnBatches(lines)'
    BY <2>1, <2>3, Batchless, OnBatchesGrows
  <2>5. RequestSound(q)'
    BY <2>3, <2>4 DEF RequestSound, Kinds, Notes
  <2>. HIDE DEF q
  <2>. QED  BY <1>a, <2>3, <2>5, DocsKept
<1>4. ASSUME NEW r \in Requests, NEW ls \in Entries, NEW d \in Docs, EditRead(r, d, ls)
      PROVE  IInv'
  <2>1. PICK lines \in StoredLines : lines = WithoutBatches(ls)
    BY Batchless
  <2>. DEFINE q == [op |-> "edit", doc |-> d, lines |-> lines]
  <2>2. req' = [req EXCEPT ![r] = q] /\ UNCHANGED <<docs, batches>> /\ docs[d].kind \in Documents
    BY <1>4, <2>1 DEF EditRead, Begin, Unsettled, Documents
  <2>3. OnBatches(lines)'
    BY <2>1, <2>2, Batchless, OnBatchesGrows
  <2>4. RequestSound(q)'
    BY <2>2, <2>3 DEF RequestSound
  <2>. HIDE DEF q
  <2>. QED  BY <1>a, <2>2, <2>4, DocsKept
<1>5. ASSUME NEW r \in Requests, NEW d \in Docs, CreateCommit(r, d)
      PROVE  IInv'
  <2>1. PICK q : q = req[r]
    OBVIOUS
  <2>2. q.op = "create" /\ docs[d] = NoDoc
        /\ (q.source # None => docs[q.source].status # "GONE")
        /\ UNCHANGED batches /\ req' = [req EXCEPT ![r] = Idle]
    BY <1>5, <2>1 DEF CreateCommit, End
  <2>3. RequestSound(q)
    BY <2>1, <2>2 DEF IInv, RequestsSound, Idle
  <2>4. /\ q.kind \in Kinds /\ q.lines \in StoredLines /\ OnBatches(q.lines)
        /\ q.source \in Docs \cup {None}
        /\ q.source # None => q.kind \in Notes /\ docs[q.source].kind \in Documents
    BY <2>2, <2>3 DEF RequestSound
  <2>. DEFINE new == [kind |-> q.kind, status |-> "ISSUED", lines |-> q.lines, source |-> q.source]
  <2>5. docs' = [docs EXCEPT ![d] = new]
    BY <1>5, <2>1 DEF CreateCommit
  <2>6. new \in Doc /\ new.kind = q.kind /\ new.source = q.source /\ new.lines = q.lines
    BY <2>4 DEF Doc, Kinds
  <2>. HIDE DEF new
  <2>7. docs'[d] = new /\ \A f \in Docs \ {d} : docs'[f] = docs[f]
    BY <1>a, <2>5
  <2>8. docs' \in [Docs -> Doc \cup {NoDoc}]
    BY <1>a, <2>5, <2>6
  <2>9. \A f \in Docs : docs[f].kind \in Kinds => f # d
    BY <2>2 DEF NoDoc, Kinds
  <2>10. ASSUME NEW f \in Docs  PROVE OnBatches(docs[f].lines)' /\ SourceSound(f)'
    <3>1. CASE f = d
      <4>1. q.source # None => /\ q.source # d
                               /\ docs[q.source].status \in {"ISSUED", "CANCELLED"}
        BY <1>a, <2>2, <2>4, <2>9, DocFields DEF Documents, Kinds
      <4>2. OnBatches(docs[f].lines)'
        BY <3>1, <2>2, <2>4, <2>6, <2>7 DEF OnBatches
      <4>3. SourceSound(f)'
        BY <3>1, <4>1, <2>4, <2>6, <2>7 DEF SourceSound
      <4>. QED  BY <4>2, <4>3
    <3>2. CASE f # d
      <4>1. OnBatches(docs[f].lines) /\ SourceSound(f) /\ docs'[f] = docs[f]
        BY <3>2, <2>7 DEF IInv, DocsSound
      <4>2. OnBatches(docs[f].lines)'
        BY <4>1, <2>2 DEF OnBatches
      <4>3. docs[f].source # None => docs[f].source \in Docs \ {d}
        BY <4>1, <1>a, <2>9, DocFields DEF SourceSound, Documents, Kinds
      <4>4. SourceSound(f)'
        BY <4>1, <4>3, <2>7 DEF SourceSound
      <4>. QED  BY <4>2, <4>4
    <3>. QED  BY <3>1, <3>2
  <2>11. DocsSound'
    BY <2>8, <2>10 DEF DocsSound
  <2>. QED  BY <2>2, <2>7, <2>9, <2>11, DocsChanged
<1>6. ASSUME NEW r \in Requests, NEW d \in Docs, CancelRead(r, d)
      PROVE  IInv'
  <2>1. PICK q : q = [op |-> "cancel", doc |-> d]
    OBVIOUS
  <2>2. req' = [req EXCEPT ![r] = q] /\ UNCHANGED <<docs, batches>> /\ docs[d].kind \in Documents
    BY <1>6, <2>1 DEF CancelRead, Begin, Unsettled, Documents
  <2>3. RequestSound(q)'
    BY <2>1, <2>2 DEF RequestSound
  <2>. QED  BY <1>a, <2>2, <2>3, DocsKept
<1>7. ASSUME NEW r \in Requests, NEW d \in Docs, RemoveRead(r, d)
      PROVE  IInv'
  <2>1. PICK notes \in SUBSET Docs : notes = {n \in Docs : docs[n].source = d}
    OBVIOUS
  <2>2. PICK q : q = [op |-> "remove", doc |-> d, notes |-> notes]
    OBVIOUS
  <2>3. req' = [req EXCEPT ![r] = q] /\ UNCHANGED <<docs, batches>> /\ docs[d].kind \in Documents
    BY <1>7, <2>1, <2>2 DEF RemoveRead, Begin, Documents
  <2>4. notes \subseteq {n \in Docs : docs[n].kind \in Notes}
    BY <2>1, NoneAssumption DEF IInv, DocsSound, SourceSound
  <2>5. RequestSound(q)'
    BY <2>2, <2>3, <2>4 DEF RequestSound
  <2>. QED  BY <1>a, <2>3, <2>5, DocsKept
<1>8. ASSUME NEW r \in Requests, NEW d \in Docs, NEW new \in Doc,
             docs[d].status \in {"ISSUED", "CANCELLED"}, docs' = [docs EXCEPT ![d] = new],
             new.kind = docs[d].kind, new.status \in {"ISSUED", "CANCELLED"},
             new.source = docs[d].source, OnBatches(new.lines),
             UNCHANGED batches, req' = [req EXCEPT ![r] = Idle]
      PROVE  IInv'
  <2>1. docs'[d] = new /\ \A f \in Docs \ {d} : docs'[f] = docs[f]
    BY <1>a, <1>8
  <2>2. docs' \in [Docs -> Doc \cup {NoDoc}]
    BY <1>a, <1>8
  <2>3. \A f \in Docs : /\ docs'[f].kind = docs[f].kind
                        /\ docs'[f].source = docs[f].source
                        /\ docs[f].status \in {"ISSUED", "CANCELLED"}
                             => docs'[f].status \in {"ISSUED", "CANCELLED"}
    BY <1>8, <2>1
  <2>4. \A f \in Docs : SourceSound(f)'
    <3>. SUFFICES ASSUME NEW f \in Docs  PROVE SourceSound(f)'
      OBVIOUS
    <3>1. SourceSound(f) /\ docs[f].source \in Docs \cup {None}
      BY <1>a, DocFields DEF IInv, DocsSound
    <3>. QED  BY <2>3, <3>1 DEF SourceSound
  <2>5. \A f \in Docs : OnBatches(docs[f].lines)'
    <3>. SUFFICES ASSUME NEW f \in Docs  PROVE OnBatches(docs[f].lines)'
      OBVIOUS
    <3>1. CASE f = d
      BY <3>1, <1>8, <2>1 DEF OnBatches
    <3>2. CASE f # d
      <4>1. OnBatches(docs[f].lines)
        BY DEF IInv, DocsSound
      <4>. QED  BY <3>2, <4>1, <1>8, <2>1 DEF OnBatches
    <3>. QED  BY <3>1, <3>2
  <2>. QED  BY <1>8, <2>2, <2>3, <2>4, <2>5, DocsChanged DEF DocsSound
<1>9. ASSUME NEW r \in Requests, NEW d \in Docs,
             docs[d].status \in {"ISSUED", "CANCELLED"}, docs' = [docs EXCEPT ![d].status = "CANCELLED"],
             UNCHANGED batches, req' = [req EXCEPT ![r] = Idle]
      PROVE  IInv'
  <2>1. PICK old \in Doc : old = docs[d]
    BY <1>a, <1>9, DocFields
  <2>2. PICK new : new = [old EXCEPT !.status = "CANCELLED"]
    OBVIOUS
  <2>3. /\ new \in Doc /\ new.kind = old.kind /\ new.status = "CANCELLED"
        /\ new.source = old.source /\ new.lines = old.lines
    BY <1>9, <2>1, <2>2 DEF Doc
  <2>4. docs' = [docs EXCEPT ![d] = new]
    BY <1>9, <2>1, <2>2
  <2>5. OnBatches(new.lines)
    BY <2>1, <2>3 DEF IInv, DocsSound
  <2>. QED  BY <1>8, <1>9, <2>1, <2>3, <2>4, <2>5
<1>10. ASSUME NEW r \in Requests, CancelCommit(r)
       PROVE  IInv'
  <2>1. PICK q : q = req[r]
    OBVIOUS
  <2>2. /\ q.op = "cancel" /\ docs[q.doc].status # "GONE" /\ UNCHANGED batches
        /\ docs' = [docs EXCEPT ![q.doc].status = "CANCELLED"] /\ req' = [req EXCEPT ![r] = Idle]
    BY <1>10, <2>1 DEF CancelCommit, End
  <2>3. q.doc \in Docs /\ docs[q.doc].kind \in Documents
    BY <2>1, <2>2 DEF IInv, RequestsSound, RequestSound, Idle
  <2>4. docs[q.doc].status \in {"ISSUED", "CANCELLED"}
    BY <1>a, <2>2, <2>3, DocFields DEF Documents, Kinds
  <2>. QED  BY <1>9, <2>2, <2>3, <2>4
<1>11. ASSUME NEW r \in Requests, NEW n \in Docs, NoteCancel(r, n)
       PROVE  IInv'
  BY <1>9, <1>11 DEF NoteCancel, Issued, End
<1>12. ASSUME NEW r \in Requests, EditCommit(r)
       PROVE  IInv'
  <2>1. PICK q : q = req[r]
    OBVIOUS
  <2>2. /\ q.op = "edit" /\ docs[q.doc].status # "GONE" /\ UNCHANGED batches
        /\ docs' = [docs EXCEPT ![q.doc].lines = q.lines] /\ req' = [req EXCEPT ![r] = Idle]
    BY <1>12, <2>1 DEF EditCommit, End
  <2>3. /\ q.doc \in Docs /\ docs[q.doc].kind \in Documents
        /\ q.lines \in StoredLines /\ OnBatches(q.lines)
    BY <2>1, <2>2 DEF IInv, RequestsSound, RequestSound, Idle
  <2>4. docs[q.doc].status \in {"ISSUED", "CANCELLED"}
    BY <1>a, <2>2, <2>3, DocFields DEF Documents, Kinds
  <2>5. PICK old \in Doc : old = docs[q.doc]
    BY <1>a, <2>3, <2>4, DocFields
  <2>6. PICK new : new = [old EXCEPT !.lines = q.lines]
    OBVIOUS
  <2>7. /\ new \in Doc /\ new.kind = old.kind /\ new.status = old.status
        /\ new.source = old.source /\ new.lines = q.lines
    BY <2>3, <2>4, <2>5, <2>6 DEF Doc
  <2>8. docs' = [docs EXCEPT ![q.doc] = new]
    BY <2>2, <2>5, <2>6
  <2>. QED  BY <1>8, <2>2, <2>3, <2>4, <2>5, <2>7, <2>8
<1>13. ASSUME NEW r \in Requests, RemoveCommit(r)
       PROVE  IInv'
  <2>. DEFINE q == req[r]
  <2>2. /\ q.op = "remove" /\ UNCHANGED batches /\ req' = [req EXCEPT ![r] = Idle]
    BY <1>13 DEF RemoveCommit, End
  <2>3. /\ q.doc \in Docs /\ docs[q.doc].kind \in Documents
        /\ q.notes \subseteq {n \in Docs : docs[n].kind \in Notes}
    BY <2>2 DEF IInv, RequestsSound, RequestSound, Idle
  <2>. DEFINE gone == {q.doc} \cup q.notes
  <2>4. gone \subseteq Docs
    BY <2>3
  <2>5. docs' = [d \in Docs |->
          IF d \in gone THEN [docs[d] EXCEPT !.status = "GONE", !.lines = <<>>, !.source = None]
          ELSE IF docs[d].source = q.doc THEN [docs[d] EXCEPT !.source = None]
          ELSE docs[d]]
    BY <1>13 DEF RemoveCommit
  <2>6. \A d \in gone : docs[d].kind \in Kinds
    BY <2>3, <2>4 DEF Kinds, Notes, Documents
  <2>12. \A f \in Docs : docs[f].kind \in Documents => f = q.doc \/ f \notin gone
    BY <2>3 DEF Notes, Documents
  <2>13. q.doc \in gone
    OBVIOUS
  <2>. HIDE DEF gone, q
  <2>7. ASSUME NEW d \in Docs
        PROVE  /\ docs'[d] \in Doc \cup {NoDoc}
               /\ docs'[d].kind = docs[d].kind
               /\ docs'[d].lines = IF d \in gone THEN <<>> ELSE docs[d].lines
               /\ docs'[d].source = IF d \in gone \/ docs[d].source = q.doc THEN None ELSE docs[d].source
               /\ d \notin gone => docs'[d].status = docs[d].status
    <3>1. CASE d \in gone
      <4>1. PICK x \in Doc : x = docs[d]
        BY <1>a, <2>6, <3>1, DocFields
      <4>2. docs'[d] = [x EXCEPT !.status = "GONE", !.lines = <<>>, !.source = None]
        BY <2>5, <3>1, <4>1
      <4>3. docs'[d] = [kind |-> x.kind, status |-> "GONE", lines |-> <<>>, source |-> None]
        BY <4>1, <4>2 DEF Doc
      <4>4. x.kind \in Kinds
        BY <4>1 DEF Doc, Kinds
      <4>5. docs'[d] \in Doc
        BY <4>3, <4>4 DEF Doc, Kinds
      <4>. QED  BY <3>1, <4>1, <4>3, <4>5
    <3>2. CASE d \notin gone /\ docs[d].source = q.doc
      <4>1. docs[d].source # None
        BY <2>3, <3>2, NoneAssumption
      <4>2. PICK x \in Doc : x = docs[d]
        BY <1>a, <4>1 DEF NoDoc
      <4>3. docs'[d] = [x EXCEPT !.source = None]
        BY <2>5, <3>2, <4>2
      <4>. QED  BY <3>2, <4>2, <4>3 DEF Doc
    <3>3. CASE d \notin gone /\ docs[d].source # q.doc
      BY <1>a, <2>5, <3>3
    <3>. QED  BY <3>1, <3>2, <3>3
  <2>8. docs' \in [Docs -> Doc \cup {NoDoc}]
    BY <2>5, <2>7
  <2>9. \A d \in Docs : OnBatches(docs[d].lines)'
    BY <2>2, <2>7 DEF IInv, DocsSound, OnBatches
  <2>10. ASSUME NEW d \in Docs  PROVE SourceSound(d)'
    <3>1. CASE docs'[d].source = None
      BY <3>1 DEF SourceSound
    <3>2. CASE docs'[d].source # None
      <4>1. /\ docs'[d].source = docs[d].source /\ docs[d].source # q.doc /\ d \notin gone
            /\ docs[d].source \in Docs
        BY <1>a, <3>2, <2>7, DocFields
      <4>2. /\ docs[d].kind \in Notes /\ docs[docs[d].source].kind \in Documents
            /\ docs[docs[d].source].status \in {"ISSUED", "CANCELLED"}
        BY <3>2, <4>1 DEF IInv, DocsSound, SourceSound
      <4>3. docs[d].source \notin gone
        BY <4>1, <4>2, <2>12
      <4>. QED  BY <2>7, <4>1, <4>2, <4>3 DEF SourceSound
    <3>. QED  BY <3>1, <3>2
  <2>. QED  BY <2>2, <2>7, <2>8, <2>9, <2>10, DocsChanged DEF DocsSound
<1>14. ASSUME NEW r \in Requests, Abandon(r)
       PROVE  IInv'
  BY <1>a, <1>14, DocsKept DEF Abandon
<1>15. CASE UNCHANGED <<batches, docs, req>>
  BY <1>15 DEF IInv, DocsSound, RequestsSound, OnBatches, SourceSound, RequestSound
<1>. QED
  BY <1>1, <1>2, <1>3, <1>4, <1>5, <1>6, <1>7, <1>10, <1>11, <1>12, <1>13, <1>14, <1>15
  DEF Next, vars, TrackBatches

(* In every state a line stands on a batch of its own item that exists, and a note
   on a document that exists, though batches are made before the bill and a note
   may be written while its document is being removed. *)
THEOREM TypeCorrect == Spec => []TypeOK
<1>1. Init => IInv
  BY InitIInv
<1>2. IInv /\ [Next]_vars => IInv'
  BY Inductive
<1>3. IInv => TypeOK
  BY DEF IInv, DocsSound, OnBatches, SourceSound, TypeOK
<1>. QED  BY <1>1, <1>2, <1>3, PTL DEF Spec

-----------------------------------------------------------------------------
(* A note's lines are of no batch; a bill's or a sale's line without one is of an
   item that at some time did not track them. *)
LinesFit(kind, ls) ==
  \A k \in DOMAIN ls :
    IF kind \in Notes THEN ls[k].batch = None ELSE ls[k].batch = None => ls[k].item \in plain

DocsFit == \A d \in Docs : LinesFit(docs[d].kind, docs[d].lines)

(* What a request is about to store fits as well, though the items may be set to
   track batches, or not to, between its reading and its commit. *)
RequestFits(q) ==
  /\ q.op = "create" => LinesFit(q.kind, q.lines)
  /\ q.op = "edit" => LinesFit("BILL", q.lines)

PlainKnown == tracked \in [Items -> BOOLEAN] /\ \A i \in Items : ~ tracked[i] => i \in plain

Fits == PlainKnown /\ DocsFit /\ \A r \in Requests : RequestFits(req[r])

(* No lines, no requests: they fit.                                         *)
LEMMA InitFits == Init => Fits
BY DEF Init, Fits, PlainKnown, DocsFit, LinesFit, RequestFits, NoDoc, Idle

(* An item that once did not track batches stays one that did not.           *)
LEMMA FitGrows ==
  ASSUME NEW kind, NEW ls, LinesFit(kind, ls), plain \subseteq plain'
  PROVE  LinesFit(kind, ls)'
BY DEF LinesFit

(* A request begins or ends, and no document changes.                        *)
LEMMA FitsKept ==
  ASSUME IInv, Fits, NEW r \in Requests, NEW q, RequestFits(q)', req' = [req EXCEPT ![r] = q],
         UNCHANGED docs, UNCHANGED plain, UNCHANGED tracked
  PROVE  Fits'
<1>1. PlainKnown' /\ DocsFit'
  BY DEF Fits, PlainKnown, DocsFit, LinesFit
<1>2. \A s \in Requests : req'[s] = IF s = r THEN q ELSE req[s]
  BY DEF IInv, RequestsSound
<1>3. \A p : RequestFits(p) => RequestFits(p)'
  BY DEF RequestFits, LinesFit
<1>4. ASSUME NEW s \in Requests  PROVE RequestFits(req[s])'
  <2>1. PICK p : p = req[s]
    OBVIOUS
  <2>2. RequestFits(p)'
    BY <1>3, <2>1 DEF Fits
  <2>. QED  BY <1>2, <2>1, <2>2
<1>. QED  BY <1>1, <1>4 DEF Fits

(* A request ends, and the documents it leaves fit.                          *)
LEMMA FitsChanged ==
  ASSUME IInv, Fits, NEW r \in Requests, req' = [req EXCEPT ![r] = Idle],
         UNCHANGED plain, UNCHANGED tracked, DocsFit'
  PROVE  Fits'
<1>1. PlainKnown'
  BY DEF Fits, PlainKnown
<1>2. \A s \in Requests : req'[s] = IF s = r THEN Idle ELSE req[s]
  BY DEF IInv, RequestsSound
<1>3. \A p : RequestFits(p) => RequestFits(p)'
  BY DEF RequestFits, LinesFit
<1>4. \A p : p = Idle => RequestFits(p)'
  BY DEF RequestFits, Idle
<1>5. ASSUME NEW s \in Requests  PROVE RequestFits(req[s])'
  <2>1. PICK p : p = req[s]
    OBVIOUS
  <2>2. RequestFits(p)'
    BY <1>3, <2>1 DEF Fits
  <2>. QED  BY <1>2, <1>4, <2>1, <2>2
<1>. QED  BY <1>1, <1>5 DEF Fits

(* Every step keeps it: what is read of items is remembered in plain.       *)
LEMMA FitInductive ==
  ASSUME IInv, Fits, [Next]_vars
  PROVE  Fits'
<1>a. docs \in [Docs -> Doc \cup {NoDoc}]
  BY DEF IInv, DocsSound
<1>b. \A f \in Docs : LinesFit(docs[f].kind, docs[f].lines)
  BY DEF Fits, DocsFit
<1>c. \A i \in Items : ~ tracked[i] => i \in plain
  BY DEF Fits, PlainKnown
<1>1. ASSUME NEW ls \in Entries
      PROVE  LinesFit("BILL", Resolve(ls)) /\ LinesFit("SALE", Resolve(ls))
  <2>1. \A k \in DOMAIN Resolve(ls) : Resolve(ls)[k].item \in Items
                                     /\ (tracked[Resolve(ls)[k].item] => Resolve(ls)[k].batch # None)
    BY Resolved
  <2>. QED  BY <2>1, <1>c DEF LinesFit, Notes
<1>2. ASSUME NEW r \in Requests, NEW ls \in Entries, BillRead(r, ls) \/ SaleRead(r, ls)
      PROVE  Fits'
  <2>1. PICK lines \in StoredLines : lines = Resolve(ls)
    BY Resolved
  <2>2. PICK kind \in Documents :
          /\ req' = [req EXCEPT ![r] = [op |-> "create", kind |-> kind, lines |-> lines, source |-> None]]
          /\ UNCHANGED docs /\ UNCHANGED plain /\ UNCHANGED tracked
    BY <1>2, <2>1 DEF BillRead, SaleRead, BeginCreate, Begin, Documents
  <2>3. PICK q : q = [op |-> "create", kind |-> kind, lines |-> lines, source |-> None]
    OBVIOUS
  <2>4. LinesFit(kind, lines)
    BY <1>1, <2>1 DEF Documents
  <2>5. LinesFit(kind, lines)'
    BY <2>2, <2>4, FitGrows
  <2>6. RequestFits(q)'
    BY <2>3, <2>5 DEF RequestFits
  <2>. QED  BY <2>2, <2>3, <2>6, FitsKept
<1>3. ASSUME NEW r \in Requests, NEW ls \in Entries, NEW d \in Docs, NoteRead(r, d, ls)
      PROVE  Fits'
  <2>1. PICK lines \in StoredLines : lines = WithoutBatches(ls)
    BY Batchless
  <2>2. PICK kind \in Notes : kind = IF docs[d].kind = "SALE" THEN "CN" ELSE "DN"
    BY DEF Notes
  <2>3. PICK q : q = [op |-> "create", kind |-> kind, lines |-> lines, source |-> d]
    OBVIOUS
  <2>4. req' = [req EXCEPT ![r] = q] /\ UNCHANGED docs /\ UNCHANGED plain /\ UNCHANGED tracked
    BY <1>3, <2>1, <2>2, <2>3 DEF NoteRead, BeginCreate, Begin
  <2>5. LinesFit(kind, lines)'
    BY <2>1, Batchless DEF LinesFit
  <2>6. RequestFits(q)'
    BY <2>3, <2>5 DEF RequestFits
  <2>. QED  BY <2>4, <2>6, FitsKept
<1>4. ASSUME NEW r \in Requests, NEW ls \in Entries, NEW d \in Docs, EditRead(r, d, ls)
      PROVE  Fits'
  <2>1. PICK lines \in StoredLines : lines = WithoutBatches(ls)
    BY Batchless
  <2>2. PICK q : q = [op |-> "edit", doc |-> d, lines |-> lines]
    OBVIOUS
  <2>3. /\ req' = [req EXCEPT ![r] = q] /\ UNCHANGED docs /\ UNCHANGED plain /\ UNCHANGED tracked
        /\ \A k \in DOMAIN ls : ~ tracked[ls[k].item]
    BY <1>4, <2>1, <2>2 DEF EditRead, Begin
  <2>4. \A k \in DOMAIN lines : lines[k].item \in plain
    BY <1>c, <2>1, <2>3, Batchless
  <2>5. LinesFit("BILL", lines)'
    BY <2>3, <2>4 DEF LinesFit, Notes
  <2>6. RequestFits(q)'
    BY <2>2, <2>5 DEF RequestFits
  <2>. QED  BY <2>3, <2>6, FitsKept
<1>5. ASSUME NEW r \in Requests, NEW d \in Docs, CreateCommit(r, d)
      PROVE  Fits'
  <2>1. PICK q : q = req[r]
    OBVIOUS
  <2>. DEFINE new == [kind |-> q.kind, status |-> "ISSUED", lines |-> q.lines, source |-> q.source]
  <2>2. /\ q.op = "create" /\ docs' = [docs EXCEPT ![d] = new] /\ req' = [req EXCEPT ![r] = Idle]
        /\ UNCHANGED plain /\ UNCHANGED tracked
    BY <1>5, <2>1 DEF CreateCommit, End
  <2>3. LinesFit(q.kind, q.lines)
    BY <2>1, <2>2 DEF Fits, RequestFits
  <2>4. new.kind = q.kind /\ new.lines = q.lines
    OBVIOUS
  <2>. HIDE DEF new
  <2>5. \A f \in Docs : docs'[f] = IF f = d THEN new ELSE docs[f]
    BY <1>a, <2>2
  <2>6. DocsFit'
    BY <1>b, <2>2, <2>3, <2>4, <2>5 DEF DocsFit, LinesFit
  <2>. QED  BY <2>2, <2>6, FitsChanged
<1>6. ASSUME NEW r \in Requests, NEW d \in Docs, CancelRead(r, d) \/ RemoveRead(r, d)
      PROVE  Fits'
  <2>1. PICK q : /\ q.op \in {"cancel", "remove"} /\ req' = [req EXCEPT ![r] = q]
                 /\ UNCHANGED docs /\ UNCHANGED plain /\ UNCHANGED tracked
    BY <1>6 DEF CancelRead, RemoveRead, Begin
  <2>2. RequestFits(q)'
    BY <2>1 DEF RequestFits
  <2>. QED  BY <2>1, <2>2, FitsKept
<1>7. ASSUME NEW r \in Requests, NEW d \in Docs, docs' = [docs EXCEPT ![d].status = "CANCELLED"],
             req' = [req EXCEPT ![r] = Idle], UNCHANGED plain, UNCHANGED tracked
      PROVE  Fits'
  <2>1. \A f \in Docs : docs'[f].kind = docs[f].kind /\ docs'[f].lines = docs[f].lines
    <3>1. PICK x \in Doc \cup {NoDoc} : x = docs[d]
      BY <1>a
    <3>2. PICK new : new = [x EXCEPT !.status = "CANCELLED"]
      OBVIOUS
    <3>3. new.kind = x.kind /\ new.lines = x.lines
      BY <3>2 DEF Doc, NoDoc
    <3>4. \A f \in Docs : docs'[f] = IF f = d THEN new ELSE docs[f]
      BY <1>a, <1>7, <3>1, <3>2
    <3>. QED  BY <3>1, <3>3, <3>4
  <2>2. DocsFit'
    BY <1>b, <1>7, <2>1 DEF DocsFit, LinesFit
  <2>. QED  BY <1>7, <2>2, FitsChanged
<1>8. ASSUME NEW r \in Requests, EditCommit(r)
      PROVE  Fits'
  <2>1. PICK q : q = req[r]
    OBVIOUS
  <2>2. /\ q.op = "edit" /\ docs' = [docs EXCEPT ![q.doc].lines = q.lines] /\ req' = [req EXCEPT ![r] = Idle]
        /\ UNCHANGED plain /\ UNCHANGED tracked
    BY <1>8, <2>1 DEF EditCommit, End
  <2>3. q.doc \in Docs /\ docs[q.doc].kind \in Documents
    BY <2>1, <2>2 DEF IInv, RequestsSound, RequestSound, Idle
  <2>4. LinesFit("BILL", q.lines)
    BY <2>1, <2>2 DEF Fits, RequestFits
  <2>5. PICK x \in Doc \cup {NoDoc} : x = docs[q.doc]
    BY <1>a, <2>3
  <2>6. PICK new : new = [x EXCEPT !.lines = q.lines]
    OBVIOUS
  <2>7. new.kind = x.kind /\ new.lines = q.lines
    BY <2>6 DEF Doc, NoDoc
  <2>8. \A f \in Docs : docs'[f] = IF f = q.doc THEN new ELSE docs[f]
    BY <1>a, <2>2, <2>3, <2>5, <2>6
  <2>9. LinesFit(new.kind, new.lines)
    BY <2>3, <2>4, <2>5, <2>7 DEF LinesFit, Documents, Notes
  <2>10. DocsFit'
    <3>. SUFFICES ASSUME NEW f \in Docs  PROVE LinesFit(docs[f].kind, docs[f].lines)'
      BY DEF DocsFit
    <3>1. LinesFit(docs'[f].kind, docs'[f].lines)
      BY <1>b, <2>8, <2>9
    <3>. QED  BY <2>2, <3>1 DEF LinesFit
  <2>. QED  BY <2>2, <2>10, FitsChanged
<1>9. ASSUME NEW r \in Requests, RemoveCommit(r)
      PROVE  Fits'
  <2>1. /\ req' = [req EXCEPT ![r] = Idle] /\ UNCHANGED plain /\ UNCHANGED tracked
    BY <1>9 DEF RemoveCommit, End
  <2>2. ASSUME NEW f \in Docs
        PROVE  docs'[f].kind = docs[f].kind /\ (docs'[f].lines = <<>> \/ docs'[f].lines = docs[f].lines)
    <3>1. PICK x \in Doc \cup {NoDoc} : x = docs[f]
      BY <1>a
    <3>2. \/ docs'[f] = [x EXCEPT !.status = "GONE", !.lines = <<>>, !.source = None]
          \/ docs'[f] = [x EXCEPT !.source = None]
          \/ docs'[f] = x
      BY <1>9, <3>1 DEF RemoveCommit
    <3>. QED  BY <3>1, <3>2 DEF Doc, NoDoc
  <2>3. DocsFit'
    BY <1>b, <2>1, <2>2 DEF DocsFit, LinesFit
  <2>. QED  BY <2>1, <2>3, FitsChanged
<1>10. ASSUME NEW i \in Items, NEW flag \in BOOLEAN, TrackBatches(i, flag)
       PROVE  Fits'
  <2>1. /\ plain' = IF flag THEN plain ELSE plain \cup {i}
        /\ UNCHANGED docs /\ UNCHANGED req
    BY <1>10 DEF TrackBatches
  <2>2. plain \subseteq plain'
    BY <2>1
  <2>3. PlainKnown'
    BY <1>10 DEF TrackBatches, Fits, PlainKnown
  <2>4. \A f \in Docs : LinesFit(docs[f].kind, docs[f].lines)'
    BY <1>b, <2>1, <2>2 DEF LinesFit
  <2>5. ASSUME NEW s \in Requests  PROVE RequestFits(req[s])'
    <3>1. RequestFits(req[s])
      BY DEF Fits
    <3>. QED  BY <2>1, <2>2, <3>1 DEF RequestFits, LinesFit
  <2>. QED  BY <2>3, <2>4, <2>5 DEF Fits, DocsFit
<1>11. ASSUME NEW r \in Requests, Abandon(r)
       PROVE  Fits'
  <2>1. \A q : q = Idle => RequestFits(q)'
    BY DEF RequestFits, Idle
  <2>. QED  BY <1>11, <2>1, FitsKept DEF Abandon
<1>12. CASE UNCHANGED <<tracked, docs, req, plain>>
  BY <1>12 DEF Fits, PlainKnown, DocsFit, LinesFit, RequestFits
<1>13. ASSUME NEW r \in Requests, NEW n \in Docs, NoteCancel(r, n)
       PROVE  Fits'
  BY <1>7, <1>13 DEF NoteCancel, End
<1>14. ASSUME NEW r \in Requests, CancelCommit(r)
       PROVE  Fits'
  <2>1. PICK f : f = req[r].doc
    OBVIOUS
  <2>2. f \in Docs
    BY <1>14, <2>1 DEF CancelCommit, IInv, RequestsSound, RequestSound, Idle
  <2>3. /\ docs' = [docs EXCEPT ![f].status = "CANCELLED"] /\ req' = [req EXCEPT ![r] = Idle]
        /\ UNCHANGED plain /\ UNCHANGED tracked
    BY <1>14, <2>1 DEF CancelCommit, End
  <2>. QED  BY <1>7, <2>2, <2>3
<1>. QED
  BY <1>2, <1>3, <1>4, <1>5, <1>6, <1>8, <1>9, <1>10, <1>11, <1>12, <1>13, <1>14 DEF Next, vars

(* In every state each line of a bill or a sale, except of an item that once did
   not track batches, stands on a batch, and no line of a note does, whatever the
   flag is set to between the reading of the item and the commit: what is between
   an item's stock and its batches' is its notes'. *)
THEOREM BatchOnEveryLine == Spec => []DocsFit
<1>1. Init => IInv /\ Fits
  BY InitIInv, InitFits
<1>2. IInv /\ Fits /\ [Next]_vars => IInv' /\ Fits'
  BY Inductive, FitInductive
<1>3. Fits => DocsFit
  BY DEF Fits
<1>. QED  BY <1>1, <1>2, <1>3, PTL DEF Spec

-----------------------------------------------------------------------------
(* Lines whose quantities can be added.                                      *)
Addable(ls) == IsFiniteSet(DOMAIN ls) /\ \A k \in DOMAIN ls : ls[k].qty \in Nat

(* Stored lines can be added, and so can those of every document.           *)
LEMMA StoredAddable ==
  ASSUME NEW ls \in StoredLines
  PROVE  Addable(ls)
<1>1. PICK n \in 1..MaxLines : ls \in [1..n -> StoredLine]
  BY DEF StoredLines, LinesOf, StoredLine
<1>2. IsFiniteSet(1..n) /\ DOMAIN ls = 1..n
  <2>1. 1 \in Int /\ n \in Int
    BY BoundsAssumption
  <2>. QED  BY <1>1, <2>1, FS_Interval
<1>3. \A k \in 1..n : ls[k].qty \in Nat
  BY <1>1, BoundsAssumption DEF StoredLine
<1>. QED  BY <1>2, <1>3 DEF Addable

LEMMA LinesAddable ==
  ASSUME docs \in [Docs -> Doc \cup {NoDoc}], NEW d \in Docs
  PROVE  Addable(docs[d].lines)
<1>1. docs[d].lines = <<>> \/ docs[d].lines \in StoredLines
  BY DEF Doc, NoDoc
<1>2. CASE docs[d].lines = <<>>
  BY <1>2, FS_EmptySet DEF Addable
<1>. QED  BY <1>1, <1>2, StoredAddable

(* What lines have of a batch, or of an item, is no less than nothing.      *)
LEMMA QuantitiesNat ==
  ASSUME NEW ls, Addable(ls)
  PROVE  /\ \A b : OfBatch(ls, b) \in Nat
         /\ \A i : OfItem(ls, i) \in Nat
<1>1. \A K \in SUBSET DOMAIN ls : SumFunctionOnSet(Quantities(ls), K) \in Nat
  <2>. SUFFICES ASSUME NEW K \in SUBSET DOMAIN ls  PROVE SumFunctionOnSet(Quantities(ls), K) \in Nat
    OBVIOUS
  <2>1. IsFiniteSet(K) /\ \A k \in K : Quantities(ls)[k] \in Nat
    BY FS_Subset DEF Addable, Quantities
  <2>. QED  BY <2>1, SumNat
<1>2. \A b : OfBatch(ls, b) \in Nat
  BY <1>1 DEF OfBatch
<1>3. \A i : OfItem(ls, i) \in Nat
  BY <1>1 DEF OfItem
<1>. QED  BY <1>2, <1>3

(* If the lines of batches B are the lines of item i, their quantities agree.  *)
LEMMA BatchesAddUp ==
  ASSUME NEW ls, Addable(ls), NEW i, NEW B, IsFiniteSet(B),
         \A k \in DOMAIN ls : ls[k].batch \in B <=> ls[k].item = i
  PROVE  SumFunctionOnSet([b \in B |-> OfBatch(ls, b)], B) = OfItem(ls, i)
<1>. DEFINE U == {k \in DOMAIN ls : ls[k].item = i}
            q == Quantities(ls)
            g == [b \in B |-> OfBatch(ls, b)]
            key == [k \in U |-> ls[k].batch]
            group == [b \in B |-> {k \in U : key[k] = b}]
<1>1. IsFiniteSet(U) /\ \A k \in U : q[k] \in Int
  <2>1. U \subseteq DOMAIN ls /\ IsFiniteSet(DOMAIN ls) /\ \A k \in U : q[k] \in Nat
    BY DEF Addable, Quantities
  <2>. QED  BY <2>1, FS_Subset
<1>2. Grouping(group, key, U, B)
  BY DEF Grouping
<1>3. ASSUME NEW b \in B  PROVE g[b] = SumFunctionOnSet(q, group[b])
  <2>1. group[b] = {k \in DOMAIN ls : ls[k].batch = b}
    OBVIOUS
  <2>2. g[b] = OfBatch(ls, b)
    OBVIOUS
  <2>. HIDE DEF group, g, q
  <2>. QED  BY <2>1, <2>2 DEF OfBatch, q
<1>4. OfItem(ls, i) = SumFunctionOnSet(q, U)
  BY DEF OfItem
<1>. HIDE DEF U, q, key, group
<1>5. SumFunctionOnSet(g, B) = SumFunctionOnSet(q, U)
  <2>. HIDE DEF g
  <2>. QED  BY <1>1, <1>2, <1>3, SumGrouped
<1>. QED  BY <1>4, <1>5

(* What the documents have of a batch, and of an item.                       *)
BatchQty(b) == [d \in Docs |-> OfBatch(docs[d].lines, b)]
ItemQty(i) == [d \in Docs |-> OfItem(docs[d].lines, i)]
BatchesOfItem(i) == {b \in batches : b[1] = i}

(* There are finitely many batches and documents to add up.                 *)
LEMMA Finite ==
  ASSUME IInv
  PROVE  /\ \A i : IsFiniteSet(BatchesOfItem(i))
         /\ \A kind : IsFiniteSet(Issued(kind)) /\ Issued(kind) \subseteq Docs
<1>1. IsFiniteSet(Items \X BatchNos)
  BY FiniteAssumption, FS_Product
<1>2. IsFiniteSet(batches)
  BY <1>1, FS_Subset DEF IInv
<1>3. \A i : BatchesOfItem(i) \subseteq batches
  BY DEF BatchesOfItem
<1>4. \A kind : Issued(kind) \subseteq Docs
  BY DEF Issued
<1>. QED  BY <1>2, <1>3, <1>4, FiniteAssumption, FS_Subset

(* What each document has is a number.                                      *)
LEMMA QtyNat ==
  ASSUME IInv
  PROVE  \A d \in Docs : /\ \A b : BatchQty(b)[d] = OfBatch(docs[d].lines, b) /\ BatchQty(b)[d] \in Nat
                         /\ \A i : ItemQty(i)[d] = OfItem(docs[d].lines, i) /\ ItemQty(i)[d] \in Nat
<1>. SUFFICES ASSUME NEW d \in Docs
              PROVE  /\ \A b : BatchQty(b)[d] = OfBatch(docs[d].lines, b) /\ BatchQty(b)[d] \in Nat
                     /\ \A i : ItemQty(i)[d] = OfItem(docs[d].lines, i) /\ ItemQty(i)[d] \in Nat
  OBVIOUS
<1>1. Addable(docs[d].lines)
  BY LinesAddable DEF IInv, DocsSound
<1>2. (\A b : OfBatch(docs[d].lines, b) \in Nat) /\ \A i : OfItem(docs[d].lines, i) \in Nat
  BY <1>1, QuantitiesNat
<1>. QED  BY <1>2 DEF BatchQty, ItemQty

(* The bills, and the sales, have of the batches of an item what they have of it. *)
LEMMA DocumentsInBatches ==
  ASSUME IInv, Fits, NEW i \in Items \ plain, NEW kind \in Documents,
         NEW f, \A b \in BatchesOfItem(i) : f[b] = SumFunctionOnSet(BatchQty(b), Issued(kind))
  PROVE  SumFunctionOnSet(f, BatchesOfItem(i)) = SumFunctionOnSet(ItemQty(i), Issued(kind))
<1>. DEFINE B == BatchesOfItem(i)
            D == Issued(kind)
            m == [d \in D |-> [b \in B |-> OfBatch(docs[d].lines, b)]]
            t == [b \in B |-> BatchQty(b)]
<1>1. IsFiniteSet(B) /\ IsFiniteSet(D) /\ D \subseteq Docs
  BY Finite
<1>2. \A b \in B, d \in D : t[b][d] \in Int /\ m[d][b] = t[b][d]
  BY <1>1, QtyNat
<1>3. ASSUME NEW d \in D  PROVE ItemQty(i)[d] = SumFunctionOnSet(m[d], B)
  <2>1. Addable(docs[d].lines)
    BY <1>1, LinesAddable DEF IInv, DocsSound
  <2>2. OnBatches(docs[d].lines) /\ LinesFit(kind, docs[d].lines) /\ kind \notin Notes
    BY <1>1 DEF IInv, DocsSound, Fits, DocsFit, Issued, Documents, Notes
  <2>3. ASSUME NEW k \in DOMAIN docs[d].lines
        PROVE  docs[d].lines[k].batch \in B <=> docs[d].lines[k].item = i
    <3>1. docs[d].lines[k].batch \in {None} \cup {b \in batches : b[1] = docs[d].lines[k].item}
      BY <2>2 DEF OnBatches
    <3>2. docs[d].lines[k].batch = None => docs[d].lines[k].item \in plain
      BY <2>2 DEF LinesFit
    <3>3. None \notin B
      BY NoneAssumption DEF IInv, BatchesOfItem
    <3>. QED  BY <3>1, <3>2, <3>3 DEF BatchesOfItem
  <2>4. SumFunctionOnSet([b \in B |-> OfBatch(docs[d].lines, b)], B) = OfItem(docs[d].lines, i)
    <3>. HIDE DEF B
    <3>. QED  BY <1>1, <2>1, <2>3, BatchesAddUp
  <2>5. m[d] = [b \in B |-> OfBatch(docs[d].lines, b)]
    OBVIOUS
  <2>. QED  BY <1>1, <2>4, <2>5, QtyNat
<1>4. \A b \in B : f[b] = SumFunctionOnSet(t[b], D)
  OBVIOUS
<1>5. SumFunctionOnSet(ItemQty(i), D) = SumFunctionOnSet(f, B)
  <2>1. /\ \A d \in D, b \in B : m[d][b] \in Int
        /\ \A d \in D, b \in B : t[b][d] = m[d][b]
        /\ \A b \in B : f[b] = SumFunctionOnSet(t[b], D)
        /\ \A d \in D : ItemQty(i)[d] = SumFunctionOnSet(m[d], B)
    <3>. HIDE DEF B, D, m, t
    <3>. QED  BY <1>2, <1>3, <1>4
  <2>2. IsFiniteSet(D) /\ IsFiniteSet(B)
    BY <1>1
  <2>. PICK sums : sums = ItemQty(i)
    OBVIOUS
  <2>3. \A d \in D : sums[d] = SumFunctionOnSet(m[d], B)
    BY <2>1
  <2>. HIDE DEF B, D, m, t
  <2>4. Transposed(m, t, D, B) /\ RowSums(sums, m, D, B) /\ RowSums(f, t, B, D)
    BY <2>1, <2>3 DEF Transposed, RowSums
  <2>5. SumFunctionOnSet(sums, D) = SumFunctionOnSet(f, B)
    BY <2>2, <2>4, SumSwap
  <2>. QED  BY <2>5
<1>. QED  BY <1>5

(* No note has any of a batch.                                               *)
LEMMA NotesInNoBatch ==
  ASSUME IInv, Fits, NEW i, NEW b \in BatchesOfItem(i), NEW kind \in Notes
  PROVE  SumFunctionOnSet(BatchQty(b), Issued(kind)) = 0
<1>1. ASSUME NEW d \in Issued(kind)  PROVE BatchQty(b)[d] = 0
  <2>1. d \in Docs /\ LinesFit(kind, docs[d].lines)
    BY DEF Fits, DocsFit, Issued
  <2>2. b # None
    BY NoneAssumption DEF IInv, BatchesOfItem
  <2>3. {k \in DOMAIN docs[d].lines : docs[d].lines[k].batch = b} = {}
    BY <2>1, <2>2 DEF LinesFit
  <2>4. OfBatch(docs[d].lines, b) = 0
    BY <2>3, SumEmpty DEF OfBatch
  <2>. QED  BY <2>1, <2>4 DEF BatchQty
<1>. QED  BY <1>1, Finite, SumZero

(* And so is what documents of a kind have together.                        *)
LEMMA SumsInt ==
  ASSUME IInv, NEW kind
  PROVE  /\ \A b : SumFunctionOnSet(BatchQty(b), Issued(kind)) \in Int
         /\ \A i : SumFunctionOnSet(ItemQty(i), Issued(kind)) \in Int
<1>1. IsFiniteSet(Issued(kind)) /\ Issued(kind) \subseteq Docs
  BY Finite
<1>2. ASSUME NEW b  PROVE SumFunctionOnSet(BatchQty(b), Issued(kind)) \in Int
  <2>1. \A d \in Issued(kind) : BatchQty(b)[d] \in Int
    BY <1>1, QtyNat
  <2>. QED  BY <1>1, <2>1, SumInt
<1>3. ASSUME NEW i  PROVE SumFunctionOnSet(ItemQty(i), Issued(kind)) \in Int
  <2>1. \A d \in Issued(kind) : ItemQty(i)[d] \in Int
    BY <1>1, QtyNat
  <2>. QED  BY <1>1, <2>1, SumInt
<1>. QED  BY <1>2, <1>3

(* What is between an item and its batches is what was returned of it.      *)
LEMMA BatchesMiss ==
  ASSUME IInv, Fits, NEW i \in Items \ plain
  PROVE  Moved(i) - InBatches(i) = Returned(i)
<1>. DEFINE B == BatchesOfItem(i)
            Of(kind) == SumFunctionOnSet(ItemQty(i), Issued(kind))
            On(kind) == [b \in B |-> SumFunctionOnSet(BatchQty(b), Issued(kind))]
            net == [b \in B |-> On("BILL")[b] - On("SALE")[b]]
            left == [b \in batches |-> Availability(b)]
<1>1. IsFiniteSet(B) /\ B \subseteq batches
  BY Finite DEF BatchesOfItem
<1>2. \A kind : \A b \in B : On(kind)[b] \in Int
  BY SumsInt
<1>3. \A b \in B : left[b] = net[b] /\ net[b] = On("BILL")[b] - On("SALE")[b]
  <2>. SUFFICES ASSUME NEW b \in B  PROVE left[b] = net[b]
    OBVIOUS
  <2>1. On("CN")[b] = 0 /\ On("DN")[b] = 0
    BY NotesInNoBatch DEF Notes
  <2>2. left[b] = On("BILL")[b] - On("SALE")[b] + On("CN")[b] - On("DN")[b]
    BY <1>1 DEF Availability, OnHand, BatchQty
  <2>3. On("BILL")[b] \in Int /\ On("SALE")[b] \in Int
    BY <1>2
  <2>4. net[b] = On("BILL")[b] - On("SALE")[b]
    OBVIOUS
  <2>. HIDE DEF On, net, left
  <2>. QED  BY <2>1, <2>2, <2>3, <2>4
<1>4. \A kind : \A b \in B : On(kind)[b] = SumFunctionOnSet(BatchQty(b), Issued(kind))
  OBVIOUS
<1>5. InBatches(i) = SumFunctionOnSet(left, B)
  BY DEF InBatches, BatchesOfItem
<1>6. Moved(i) = Of("BILL") - Of("SALE") + Of("CN") - Of("DN")
  BY DEF Moved, OnHand, ItemQty
<1>7. Returned(i) = Of("CN") - Of("DN")
  BY DEF Returned, ItemQty
<1>8. Of("BILL") \in Int /\ Of("SALE") \in Int /\ Of("CN") \in Int /\ Of("DN") \in Int
  BY SumsInt
<1>. HIDE DEF On, net, left, Of
<1>9. SumFunctionOnSet(left, B) = SumFunctionOnSet(net, B)
  <2>. HIDE DEF B
  <2>. QED  BY <1>1, <1>3, SumSame
<1>10. SumFunctionOnSet(net, B) = SumFunctionOnSet(On("BILL"), B) - SumFunctionOnSet(On("SALE"), B)
  <2>. HIDE DEF B
  <2>. QED  BY <1>1, <1>2, <1>3, SumMinus
<1>11. SumFunctionOnSet(On("BILL"), B) = Of("BILL") /\ SumFunctionOnSet(On("SALE"), B) = Of("SALE")
  BY <1>4, DocumentsInBatches DEF Documents, Of
<1>. QED  BY <1>5, <1>6, <1>7, <1>8, <1>9, <1>10, <1>11

(* In every state the batches of an item that has always tracked them hold all of
   its stock but what was returned: whatever was bought, sold, edited, cancelled and
   removed, in whatever interleaving. *)
THEOREM BatchesHoldTheRest == Spec => []BatchesMissOnlyReturns
<1>1. Init => IInv /\ Fits
  BY InitIInv, InitFits
<1>2. IInv /\ Fits /\ [Next]_vars => IInv' /\ Fits'
  BY Inductive, FitInductive
<1>3. IInv /\ Fits => BatchesMissOnlyReturns
  BY BatchesMiss DEF BatchesMissOnlyReturns
<1>. QED  BY <1>1, <1>2, <1>3, PTL DEF Spec

-----------------------------------------------------------------------------
(* Of a sale that nobody overtook, every line still has what it saw.         *)
SaleResolved(q) ==
  q.op = "create" /\ q.kind = "SALE" => \A k \in DOMAIN q.lines : ResolvedForSale(q.lines[k])

SalesResolved == \A r \in Requests \ crossed : SaleResolved(req[r])

(* A step that leaves the documents leaves what is on hand.                  *)
LEMMA StillResolved ==
  ASSUME UNCHANGED docs, batches \subseteq batches', NEW q, SaleResolved(q)
  PROVE  SaleResolved(q)'
<1>1. \A b : Availability(b)' = Availability(b)
  BY DEF Availability, OnHand, Issued, OfBatch, Quantities
<1>2. \A line : ResolvedForSale(line) => ResolvedForSale(line)'
  BY <1>1 DEF ResolvedForSale
<1>. QED  BY <1>2 DEF SaleResolved

(* A step of one request that sells nothing new and leaves the documents.    *)
LEMMA ResolvedKept ==
  ASSUME IInv, SalesResolved, NEW r \in Requests, NEW q, req' = [req EXCEPT ![r] = q],
         UNCHANGED docs, batches \subseteq batches', crossed \ {r} \subseteq crossed',
         SaleResolved(q)
  PROVE  SalesResolved'
<1>1. req'[r] = q /\ \A t \in Requests \ {r} : req'[t] = req[t]
  BY DEF IInv, RequestsSound
<1>2. ASSUME NEW s \in Requests, s \notin crossed'  PROVE SaleResolved(req[s])'
  <2>1. PICK p : p = IF s = r THEN q ELSE req[s]
    OBVIOUS
  <2>2. SaleResolved(p)
    BY <1>2, <2>1 DEF SalesResolved
  <2>3. SaleResolved(p)'
    BY <2>2, StillResolved
  <2>4. req'[s] = p
    BY <1>1, <2>1
  <2>. QED  BY <2>3, <2>4
<1>. QED  BY <1>2 DEF SalesResolved

(* A commit overtakes whoever is selling.                                    *)
LEMMA Overtaken ==
  ASSUME IInv, NEW r \in Requests, End(r)
  PROVE  SalesResolved'
<1>1. \A s \in Requests : s \notin crossed' => ~ Selling(s)'
  <2>. SUFFICES ASSUME NEW s \in Requests, s \notin crossed', Selling(s)'  PROVE FALSE
    OBVIOUS
  <2>1. req'[r] = Idle /\ \A t \in Requests \ {r} : req'[t] = req[t]
    BY DEF End, IInv, RequestsSound
  <2>2. s # r
    BY <2>1 DEF Selling, Idle
  <2>3. Selling(s)
    BY <2>1, <2>2 DEF Selling
  <2>. QED  BY <2>2, <2>3 DEF End
<1>. QED  BY <1>1 DEF SalesResolved, SaleResolved, Selling

(* Every step keeps it: readings by the guard, commits by overtaking.       *)
LEMMA ResolvedInductive ==
  ASSUME IInv, SalesResolved, [Next]_vars
  PROVE  SalesResolved'
<1>1. ASSUME NEW r \in Requests, NEW ls \in Entries, BillRead(r, ls)
      PROVE  SalesResolved'
  <2>1. PICK q : /\ q = [op |-> "create", kind |-> "BILL", lines |-> Resolve(ls), source |-> None]
                 /\ req' = [req EXCEPT ![r] = q]
                 /\ UNCHANGED docs /\ UNCHANGED crossed /\ batches \subseteq batches'
    BY <1>1 DEF BillRead, BeginCreate, Begin, Upserted
  <2>2. SaleResolved(q)
    BY <2>1 DEF SaleResolved
  <2>. QED  BY <2>1, <2>2, ResolvedKept
<1>2. ASSUME NEW r \in Requests, NEW ls \in Entries, SaleRead(r, ls)
      PROVE  SalesResolved'
  <2>1. PICK lines : lines = Resolve(ls)
    OBVIOUS
  <2>2. PICK q : q = [op |-> "create", kind |-> "SALE", lines |-> lines, source |-> None]
    OBVIOUS
  <2>3. /\ req' = [req EXCEPT ![r] = q]
        /\ UNCHANGED docs /\ UNCHANGED crossed /\ batches \subseteq batches'
        /\ \A k \in DOMAIN lines : ResolvedForSale(lines[k])
    BY <1>2, <2>1, <2>2 DEF SaleRead, BeginCreate, Begin
  <2>4. SaleResolved(q)
    BY <2>2, <2>3 DEF SaleResolved
  <2>. QED  BY <2>3, <2>4, ResolvedKept
<1>3. ASSUME NEW r \in Requests, NEW d \in Docs, NEW ls \in Entries, NoteRead(r, d, ls)
      PROVE  SalesResolved'
  <2>1. PICK kind \in Notes : req' = [req EXCEPT ![r] =
              [op |-> "create", kind |-> kind, lines |-> WithoutBatches(ls), source |-> d]]
    BY <1>3 DEF NoteRead, BeginCreate, Begin, Notes
  <2>2. PICK q : q = [op |-> "create", kind |-> kind, lines |-> WithoutBatches(ls), source |-> d]
    OBVIOUS
  <2>3. SaleResolved(q)
    BY <2>2 DEF SaleResolved, Notes
  <2>4. UNCHANGED docs /\ UNCHANGED crossed /\ UNCHANGED batches
    BY <1>3 DEF NoteRead, BeginCreate, Begin
  <2>. QED  BY <2>1, <2>2, <2>3, <2>4, ResolvedKept
<1>4. ASSUME NEW r \in Requests, NEW d \in Docs, NEW ls \in Entries, EditRead(r, d, ls)
      PROVE  SalesResolved'
  <2>1. PICK q : q = [op |-> "edit", doc |-> d, lines |-> WithoutBatches(ls)]
    OBVIOUS
  <2>2. SaleResolved(q)
    BY <2>1 DEF SaleResolved
  <2>3. /\ req' = [req EXCEPT ![r] = q]
        /\ UNCHANGED docs /\ UNCHANGED crossed /\ UNCHANGED batches
    BY <1>4, <2>1 DEF EditRead, Begin
  <2>. QED  BY <2>2, <2>3, ResolvedKept
<1>5. ASSUME NEW r \in Requests, NEW d \in Docs, CancelRead(r, d) \/ RemoveRead(r, d)
      PROVE  SalesResolved'
  <2>1. PICK q : /\ q.op \in {"cancel", "remove"} /\ req' = [req EXCEPT ![r] = q]
                 /\ UNCHANGED docs /\ UNCHANGED crossed /\ UNCHANGED batches
    BY <1>5 DEF CancelRead, RemoveRead, Begin
  <2>2. SaleResolved(q)
    BY <2>1 DEF SaleResolved
  <2>. QED  BY <2>1, <2>2, ResolvedKept
<1>6. ASSUME NEW r \in Requests, Abandon(r)
      PROVE  SalesResolved'
  <2>1. SaleResolved(Idle)
    BY DEF Idle, SaleResolved
  <2>2. /\ req' = [req EXCEPT ![r] = Idle]
        /\ UNCHANGED docs /\ UNCHANGED batches /\ crossed \ {r} \subseteq crossed'
    BY <1>6 DEF Abandon
  <2>. QED  BY <2>1, <2>2, ResolvedKept
<1>7. ASSUME NEW r \in Requests, NEW d \in Docs, CreateCommit(r, d) \/ NoteCancel(r, d)
      PROVE  SalesResolved'
  BY <1>7, Overtaken DEF CreateCommit, NoteCancel
<1>8. ASSUME NEW r \in Requests, CancelCommit(r) \/ EditCommit(r) \/ RemoveCommit(r)
      PROVE  SalesResolved'
  BY <1>8, Overtaken DEF CancelCommit, EditCommit, RemoveCommit
<1>9. CASE \/ \E i \in Items, flag \in BOOLEAN : TrackBatches(i, flag) 
           \/ UNCHANGED <<tracked, batches, docs, req, crossed, plain>>
  <2>1. UNCHANGED <<docs, req, crossed, batches>>
    BY <1>9 DEF TrackBatches
  <2>2. ASSUME NEW s \in Requests, s \notin crossed'  PROVE SaleResolved(req[s])'
    <3>1. PICK p : p = req[s]
      OBVIOUS
    <3>2. SaleResolved(p)'
      BY <2>1, <2>2, <3>1, StillResolved DEF SalesResolved
    <3>. QED  BY <2>1, <3>1, <3>2
  <2>. QED  BY <2>2 DEF SalesResolved
<1>. QED
  BY <1>1, <1>2, <1>3, <1>4, <1>5, <1>6, <1>7, <1>8, <1>9 DEF Next, vars


(* A sale at its commit: each batch of its lines loses what they have of it.  *)
LEMMA SaleLeaves ==
  ASSUME IInv, NEW r \in Requests, NEW d \in Docs, CreateCommit(r, d), Selling(r), NEW b
  PROVE  /\ Availability(b) \in Int /\ OfBatch(req[r].lines, b) \in Int
         /\ Availability(b)' = Availability(b) - OfBatch(req[r].lines, b)
<1>1. PICK ls : ls = req[r].lines
  OBVIOUS
<1>2. PICK new : new = [kind |-> "SALE", status |-> "ISSUED", lines |-> ls, source |-> req[r].source]
  OBVIOUS
<1>3. new.kind = "SALE" /\ new.status = "ISSUED" /\ new.lines = ls
  BY <1>2
<1>4. docs[d] = NoDoc /\ DOMAIN docs = Docs /\ docs' = [docs EXCEPT ![d] = new]
  BY <1>1, <1>2 DEF CreateCommit, Selling, IInv, DocsSound
<1>5. docs'[d] = new /\ \A f \in Docs \ {d} : docs'[f] = docs[f]
  BY <1>4
<1>6. d \notin Issued("SALE") /\ d \notin Issued("BILL") /\ d \notin Issued("CN") /\ d \notin Issued("DN")
  BY <1>4 DEF Issued, NoDoc
<1>7. Issued("SALE")' = Issued("SALE") \cup {d} /\ \A kind \in {"BILL", "CN", "DN"} : Issued(kind)' = Issued(kind)
  BY <1>3, <1>4, <1>5 DEF Issued, NoDoc
<1>. PICK old : old = BatchQty(b)
  OBVIOUS
<1>. PICK now : now = [f \in Docs |-> OfBatch(docs'[f].lines, b)]
  OBVIOUS
<1>8. \A f \in Docs \ {d} : now[f] = old[f]
  BY <1>5 DEF BatchQty
<1>9. now[d] = OfBatch(ls, b)
  BY <1>3, <1>5
<1>10. OfBatch(ls, b) \in Int
  <2>1. ls \in StoredLines
    BY <1>1 DEF IInv, RequestsSound, RequestSound, Idle, Selling
  <2>2. Addable(ls)
    BY <2>1, StoredAddable
  <2>. QED  BY <2>2, QuantitiesNat
<1>11. \A f \in Docs : old[f] \in Int
  BY QtyNat
<1>12. \A kind : IsFiniteSet(Issued(kind)) /\ Issued(kind) \subseteq Docs
  BY Finite
<1>13. \A kind \in {"BILL", "CN", "DN"} :
         SumFunctionOnSet(now, Issued(kind)) = SumFunctionOnSet(old, Issued(kind))
  <2>. SUFFICES ASSUME NEW kind \in {"BILL", "CN", "DN"}
                PROVE  SumFunctionOnSet(now, Issued(kind)) = SumFunctionOnSet(old, Issued(kind))
    OBVIOUS
  <2>1. \A f \in Issued(kind) : now[f] = old[f]
    BY <1>6, <1>8, <1>12
  <2>. QED  BY <1>12, <2>1, SumSame
<1>14. SumFunctionOnSet(now, Issued("SALE") \cup {d}) = SumFunctionOnSet(old, Issued("SALE")) + OfBatch(ls, b)
  <2>1. \A f \in Issued("SALE") : now[f] = old[f]
    BY <1>6, <1>8, <1>12
  <2>2. SumFunctionOnSet(now, Issued("SALE")) = SumFunctionOnSet(old, Issued("SALE"))
    BY <1>12, <2>1, SumSame
  <2>3. \A f \in Issued("SALE") \cup {d} : now[f] \in Int
    BY <1>8, <1>9, <1>10, <1>11, <1>12
  <2>4. IsFiniteSet(Issued("SALE"))
    BY <1>12
  <2>5. SumFunctionOnSet(now, Issued("SALE") \cup {d}) = SumFunctionOnSet(now, Issued("SALE")) + now[d]
    BY <1>6, <2>3, <2>4, SumAdd
  <2>. QED  BY <1>9, <2>2, <2>5
<1>15. \A kind : SumFunctionOnSet(old, Issued(kind)) \in Int
  <2>. SUFFICES ASSUME NEW kind  PROVE SumFunctionOnSet(old, Issued(kind)) \in Int
    OBVIOUS
  <2>1. \A f \in Issued(kind) : old[f] \in Int
    BY <1>11, <1>12
  <2>. QED  BY <1>12, <2>1, SumInt
<1>16. Availability(b) = SumFunctionOnSet(old, Issued("BILL")) - SumFunctionOnSet(old, Issued("SALE"))
                           + SumFunctionOnSet(old, Issued("CN")) - SumFunctionOnSet(old, Issued("DN"))
  BY DEF Availability, OnHand, BatchQty
<1>17. Availability(b)' = SumFunctionOnSet(now, Issued("BILL")') - SumFunctionOnSet(now, Issued("SALE")')
                            + SumFunctionOnSet(now, Issued("CN")') - SumFunctionOnSet(now, Issued("DN")')
  BY DEF Availability, OnHand
<1>18. Availability(b)' = SumFunctionOnSet(now, Issued("BILL")) - SumFunctionOnSet(now, Issued("SALE") \cup {d})
                            + SumFunctionOnSet(now, Issued("CN")) - SumFunctionOnSet(now, Issued("DN"))
  BY <1>7, <1>17
<1>. QED  BY <1>1, <1>10, <1>13, <1>14, <1>15, <1>16, <1>18

(* A line alone on its batch has of it what the lines have.                  *)
LEMMA LineAlone ==
  ASSUME NEW ls, Addable(ls), NEW k \in DOMAIN ls,
         \A j \in DOMAIN ls : ls[j].batch = ls[k].batch => j = k
  PROVE  OfBatch(ls, ls[k].batch) = ls[k].qty
<1>1. {j \in DOMAIN ls : ls[j].batch = ls[k].batch} = {k}
  OBVIOUS
<1>2. PICK q : q = Quantities(ls)
  OBVIOUS
<1>3. q[k] = ls[k].qty /\ ls[k].qty \in Int
  BY <1>2 DEF Quantities, Addable
<1>4. SumFunctionOnSet(q, {k}) = q[k]
  <2>1. IsFiniteSet({k})
    BY FS_Singleton
  <2>2. q[k] \in Int /\ \A y \in {k} \ {k} : q[y] = 0
    BY <1>3
  <2>. QED  BY <2>1, <2>2, SumOfOne
<1>. QED  BY <1>1, <1>2, <1>3, <1>4 DEF OfBatch

(* resolveForSale asked each line for its batch; a sale nobody overtook finds at
   its commit what it found then, and takes no more. *)
LEMMA SaleStep ==
  ASSUME IInv, SalesResolved, [Next]_vars, NEW r \in Requests, Selling(r),
         docs' # docs, req'[r] = Idle, r \notin crossed, NEW k \in DOMAIN req[r].lines,
         NEW b, b = req[r].lines[k].batch, b # None,
         \A j \in DOMAIN req[r].lines : req[r].lines[j].batch = req[r].lines[k].batch => j = k
  PROVE  Availability(b)' >= 0
<1>1. req[r] # Idle /\ req[r].op = "create" /\ DOMAIN req = Requests
  BY DEF Selling, Idle, IInv, RequestsSound
<1>2. PICK d \in Docs : CreateCommit(r, d)
  <2>1. Next
    BY DEF vars
  <2>2. \A s \in Requests, ls \in Entries : ~ BillRead(s, ls) /\ ~ SaleRead(s, ls)
    BY DEF BillRead, SaleRead
  <2>3. \A s \in Requests, d \in Docs, ls \in Entries : ~ NoteRead(s, d, ls) /\ ~ EditRead(s, d, ls)
    BY DEF NoteRead, EditRead
  <2>4. \A s \in Requests, d \in Docs : ~ CancelRead(s, d) /\ ~ RemoveRead(s, d)
    BY DEF CancelRead, RemoveRead
  <2>5. \A i \in Items, flag \in BOOLEAN : ~ TrackBatches(i, flag)
    BY DEF TrackBatches
  <2>6. \A s \in Requests \ {r} : ~ (req' = [req EXCEPT ![s] = Idle])
    BY <1>1
  <2>7. \A s \in Requests, d \in Docs : ~ NoteCancel(s, d)
    BY <1>1, <2>6 DEF NoteCancel, End
  <2>8. \A s \in Requests : ~ CancelCommit(s) /\ ~ EditCommit(s) /\ ~ RemoveCommit(s) /\ ~ Abandon(s)
    BY <1>1, <2>6 DEF CancelCommit, EditCommit, RemoveCommit, Abandon, End
  <2>9. \A s \in Requests \ {r}, d \in Docs : ~ CreateCommit(s, d)
    BY <2>6 DEF CreateCommit, End
  <2>10. \E d \in Docs : CreateCommit(r, d)
    <3>1. PICK s \in Requests, d \in Docs : CreateCommit(s, d)
      BY <2>1, <2>2, <2>3, <2>4, <2>5, <2>7, <2>8 DEF Next
    <3>. QED  BY <2>9, <3>1
  <2>. QED  BY <2>10
<1>3. PICK ls : ls = req[r].lines
  OBVIOUS
<1>4. ls \in StoredLines
  BY <1>1, <1>3 DEF IInv, RequestsSound, RequestSound
<1>5. OfBatch(ls, ls[k].batch) = ls[k].qty
  BY <1>3, <1>4, StoredAddable, LineAlone
<1>6. ls[k].qty <= Availability(ls[k].batch)
  BY <1>3 DEF SalesResolved, SaleResolved, Selling, ResolvedForSale
<1>7. b = ls[k].batch
  BY <1>3
<1>8. /\ Availability(b) \in Int /\ OfBatch(ls, b) \in Int
      /\ Availability(b)' = Availability(b) - OfBatch(ls, b)
  BY <1>2, <1>3, SaleLeaves
<1>. QED  BY <1>5, <1>6, <1>7, <1>8

(* A sale that no other request overtook, whose lines are of different batches,
   leaves none of them below nothing, with any number of items, batches, documents
   and requests. *)
THEOREM SalesFitBatches == Spec => SaleFitsBatch
<1>1. Init => IInv /\ SalesResolved
  <2>1. Init => SalesResolved
    BY DEF Init, SalesResolved, SaleResolved, Idle
  <2>. QED  BY <2>1, InitIInv
<1>2. IInv /\ SalesResolved /\ [Next]_vars => IInv' /\ SalesResolved'
  BY Inductive, ResolvedInductive
<1>3. IInv /\ SalesResolved /\ [Next]_vars =>
        [\A r \in Requests :
           LET ls == req[r].lines
           IN  /\ Selling(r)
               /\ docs' # docs /\ req'[r] = Idle
               /\ r \notin crossed
               /\ \A j, k \in DOMAIN ls : ls[j].batch = ls[k].batch => j = k \/ ls[j].batch = None
               => \A b \in BatchesOf(ls) : Availability(b)' >= 0]_vars
  <2>. SUFFICES ASSUME IInv, SalesResolved, [Next]_vars, NEW r \in Requests, Selling(r),
                       docs' # docs, req'[r] = Idle, r \notin crossed,
                       \A j, k \in DOMAIN req[r].lines :
                         req[r].lines[j].batch = req[r].lines[k].batch => j = k \/ req[r].lines[j].batch = None,
                       NEW b \in BatchesOf(req[r].lines)
                PROVE  Availability(b)' >= 0
    OBVIOUS
  <2>1. PICK k \in DOMAIN req[r].lines : req[r].lines[k].batch = b /\ b # None
    BY DEF BatchesOf
  <2>2. \A j \in DOMAIN req[r].lines : req[r].lines[j].batch = req[r].lines[k].batch => j = k
    BY <2>1
  <2>. QED  BY <2>1, <2>2, SaleStep
<1>. QED  BY <1>1, <1>2, <1>3, PTL DEF Spec, SaleFitsBatch
=============================================================================
