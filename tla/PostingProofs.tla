--------------------------- MODULE PostingProofs ---------------------------
(***************************************************************************)
(* The numbering properties of Posting, for any number of requests, dates  *)
(* and documents.                                                          *)
(***************************************************************************)
EXTENDS Posting, TLAPS

(* The table of series, kind by kind.                                        *)
LEMMA SeriesTable ==
  /\ SeriesOf("invoice") = <<"SALES", "INVOICE">>
  /\ SeriesOf("conversion") = <<"SALES", "INVOICE">>
  /\ SeriesOf("bill") = <<"PURCHASE", "BILL">>
  /\ SeriesOf("note") = <<"CREDIT_NOTE", "CRN">>
  /\ SeriesOf("estimate") = <<"ESTIMATE">>
  /\ SeriesOf("bookedEstimate") = <<"ESTIMATE", "SALES">>
  /\ SeriesOf("receipt") = <<"RECEIPT">>
  /\ SeriesOf("voucher") = <<"JOURNAL">>
  /\ SeriesOf("salesVoucher") = <<"SALES">>
BY DEF SeriesOf, VoucherSeries, InvoiceSeries, BillSeries, NoteSeries,
       EstimateSeries, BookedEstimateSeries, ReceiptSeries

(* A posting takes one or two counter rows, and not the same one twice.      *)
LEMMA SeriesFacts ==
  ASSUME NEW kind \in AllKinds
  PROVE  /\ SeriesOf(kind) \in Seq(Series)
         /\ Len(SeriesOf(kind)) \in 1..2
         /\ Len(SeriesOf(kind)) = 2 => SeriesOf(kind)[1] # SeriesOf(kind)[2]
<1>1. CASE kind \in {"estimate", "receipt", "voucher", "salesVoucher"}
  <2>1. \E a \in Series : SeriesOf(kind) = <<a>>
    BY <1>1, SeriesTable DEF Series
  <2>. QED  BY <2>1
<1>2. CASE kind \in {"invoice", "conversion", "bill", "note", "bookedEstimate"}
  <2>1. \E a, b \in Series : a # b /\ SeriesOf(kind) = <<a, b>>
    BY <1>2, SeriesTable DEF Series
  <2>. QED  BY <2>1
<1>. QED  BY <1>1, <1>2 DEF AllKinds

(* No three postings can each wait for a row the next one holds: the second  *)
(* row of the first would be the first row of the second, and so on.         *)
LEMMA NoChainOfThree ==
  ASSUME NEW j \in AllKinds, NEW k \in AllKinds, NEW l \in AllKinds,
         Len(SeriesOf(j)) = 2, Len(SeriesOf(k)) = 2, Len(SeriesOf(l)) = 2,
         SeriesOf(j)[2] = SeriesOf(k)[1], SeriesOf(k)[2] = SeriesOf(l)[1]
  PROVE  FALSE
<1>1. \A kind \in AllKinds : Len(SeriesOf(kind)) = 2 =>
        /\ SeriesOf(kind)[1] \in {"SALES", "PURCHASE", "CREDIT_NOTE", "ESTIMATE"}
        /\ SeriesOf(kind)[2] \in {"INVOICE", "BILL", "CRN", "SALES"}
        /\ SeriesOf(kind)[2] = "SALES" <=> SeriesOf(kind)[1] = "ESTIMATE"
  BY SeriesTable DEF AllKinds
<1>2. SeriesOf(j)[2] = "SALES" /\ SeriesOf(k)[2] = "SALES"
  BY <1>1
<1>. QED  BY <1>1, <1>2

-----------------------------------------------------------------------------
(* The inductive invariant.  A number in hand is the locked counter's value; *)
(* a locked row belongs to an open posting that drew from it; the counter is *)
(* above every number committed.                                             *)
Held ==
  \A r \in Requests : Open(r) => \A k \in 1..Len(txn[r].nos) :
    /\ holder[CounterOf(txn[r], k)] = r
    /\ txn[r].nos[k] = nextNo[CounterOf(txn[r], k)]

HoldersOpen ==
  \A c \in Counters : holder[c] # None => Open(holder[c]) /\ Drawn(holder[c], c)

Below ==
  \A i \in DOMAIN docs : \A a \in DOMAIN docs[i].nos :
    docs[i].nos[a] < nextNo[CounterOf(docs[i], a)]

IInv == TypeOK /\ Held /\ HoldersOpen /\ Below /\ InCommitOrder /\ NoGaps

(* What the type invariant says of an open posting and of its next row.      *)
LEMMA OpenFacts ==
  ASSUME TypeOK, NEW r \in Requests, Open(r)
  PROVE  /\ txn[r] \in Posting_
         /\ txn[r].kind \in AllKinds
         /\ txn[r].nos \in Seq(Nat)
         /\ Len(txn[r].nos) <= Len(SeriesOf(txn[r].kind))
         /\ \A k \in 1..Len(txn[r].nos) : CounterOf(txn[r], k) \in Counters
         /\ Drawing(r) => NextCounter(r) \in Counters
<1>1. txn[r] \in Posting_
  BY DEF TypeOK, Open, Idle
<1>2. txn[r].kind \in AllKinds /\ txn[r].nos \in Seq(Nat) /\ txn[r].year \in Years
  BY <1>1, KindsAssumption DEF Posting_
<1>3. Len(txn[r].nos) <= Len(SeriesOf(txn[r].kind))
  BY DEF TypeOK
<1>4. SeriesOf(txn[r].kind) \in Seq(Series)
  BY <1>2, SeriesFacts
<1>5. \A k \in 1..Len(SeriesOf(txn[r].kind)) : CounterOf(txn[r], k) \in Counters
  BY <1>2, <1>4 DEF CounterOf, Counters
<1>6. Drawing(r) => NextCounter(r) \in Counters
  BY <1>2, <1>3, <1>4, <1>5 DEF Drawing, NextCounter
<1>. QED  BY <1>1, <1>2, <1>3, <1>5, <1>6

(* The same of a committed document.                                         *)
LEMMA DocFacts ==
  ASSUME TypeOK, NEW i \in DOMAIN docs
  PROVE  /\ docs[i] \in Document
         /\ docs[i].nos \in Seq(Nat)
         /\ DOMAIN docs[i].nos = 1..Len(docs[i].nos)
         /\ \A a \in DOMAIN docs[i].nos : /\ CounterOf(docs[i], a) \in Counters
                                          /\ docs[i].nos[a] \in Nat
<1>1. docs[i] \in Document /\ Len(docs[i].nos) = Len(SeriesOf(docs[i].kind))
  BY DEF TypeOK
<1>2. docs[i].kind \in AllKinds /\ docs[i].nos \in Seq(Nat) /\ docs[i].year \in Years
  BY <1>1, KindsAssumption DEF Document
<1>3. SeriesOf(docs[i].kind) \in Seq(Series)
  BY <1>2, SeriesFacts
<1>. QED  BY <1>1, <1>2, <1>3 DEF CounterOf, Counters

(* No counter row, no posting, no document.                                  *)
LEMMA InitIInv == Init => IInv
<1>. SUFFICES ASSUME Init PROVE IInv
  OBVIOUS
<1>1. TypeOK
  BY NoneAssumption DEF Init, TypeOK, Idle, Open
<1>. QED  BY <1>1 DEF Init, IInv, Held, HoldersOpen, Below, InCommitOrder, NoGaps,
                     Idle, Open

-----------------------------------------------------------------------------
(* One lemma per action.                                                     *)
LEMMA BeginIInv ==
  ASSUME IInv, NEW r \in Requests, NEW kind \in Kinds, NEW d \in Dates,
         NEW session \in Years, Begin(r, kind, d, session)
  PROVE  IInv'
<1>. DEFINE t == [kind |-> kind, date |-> d, session |-> session,
                  year |-> FiscalYearOf(d), nos |-> <<>>]
<1>. USE DEF IInv
<1>1. t \in Posting_ /\ kind \in AllKinds /\ Len(t.nos) = 0
  BY KindsAssumption DEF Posting_, Years
<1>2. txn' = [txn EXCEPT ![r] = t] /\ UNCHANGED <<nextNo, holder, docs>> /\ ~ Open(r)
  BY DEF Begin
<1>3. TypeOK'
  <2>1. Len(t.nos) <= Len(SeriesOf(t.kind))
    BY <1>1, SeriesFacts
  <2>. QED  BY <1>1, <1>2, <2>1 DEF TypeOK, Open
<1>4. Held'
  BY <1>1, <1>2 DEF Held, Open, TypeOK, CounterOf
<1>5. HoldersOpen'
  BY <1>1, <1>2 DEF HoldersOpen, Open, Drawn, TypeOK, CounterOf
<1>6. (Below /\ InCommitOrder /\ NoGaps)'
  BY <1>2 DEF Below, InCommitOrder, NoGaps, CounterOf
<1>. QED  BY <1>3, <1>4, <1>5, <1>6

(* Drawing a number locks its row, which nobody held.                        *)
LEMMA DrawIInv ==
  ASSUME IInv, NEW r \in Requests, Draw(r)
  PROVE  IInv'
<1>. DEFINE c == NextCounter(r)
            n == Len(txn[r].nos)
<1>. USE DEF IInv
<1>1. /\ Open(r) /\ txn[r] \in Posting_ /\ txn[r].nos \in Seq(Nat)
      /\ txn[r].kind \in AllKinds
      /\ n \in Nat /\ n + 1 <= Len(SeriesOf(txn[r].kind)) /\ c \in Counters
  <2>1. Open(r)
    BY DEF Draw, Drawing
  <2>2. Len(SeriesOf(txn[r].kind)) \in Nat
    BY <2>1, OpenFacts, SeriesFacts
  <2>. QED  BY <2>1, <2>2, OpenFacts DEF Draw, Drawing
<1>2. /\ holder[c] = None /\ holder' = [holder EXCEPT ![c] = r]
      /\ txn' = [txn EXCEPT ![r].nos = Append(txn[r].nos, nextNo[c])]
      /\ UNCHANGED <<nextNo, docs>>
  BY DEF Draw
<1>3. /\ txn'[r].nos = Append(txn[r].nos, nextNo[c]) /\ txn'[r].kind = txn[r].kind
      /\ txn'[r].year = txn[r].year /\ txn'[r] \in Posting_
      /\ \A s \in Requests \ {r} : txn'[s] = txn[s]
  <2>1. /\ txn'[r] = [txn[r] EXCEPT !.nos = Append(txn[r].nos, nextNo[c])]
        /\ \A s \in Requests \ {r} : txn'[s] = txn[s]
    BY <1>2 DEF TypeOK
  <2>2. Append(txn[r].nos, nextNo[c]) \in Seq(Nat)
    BY <1>1 DEF TypeOK
  <2>. QED  BY <2>1, <2>2, <1>1 DEF Posting_
<1>4. Len(txn'[r].nos) = n + 1 /\ txn'[r].nos[n + 1] = nextNo[c]
      /\ \A k \in 1..n : txn'[r].nos[k] = txn[r].nos[k]
  BY <1>1, <1>3 DEF TypeOK
<1>5. /\ \A k : CounterOf(txn'[r], k) = CounterOf(txn[r], k)
      /\ c = CounterOf(txn[r], n + 1)
  BY <1>3 DEF CounterOf, NextCounter
<1>6. TypeOK'
  BY <1>1, <1>2, <1>3, <1>4 DEF TypeOK, Open
<1>7. Held'
  <2>. SUFFICES ASSUME NEW s \in Requests, Open(s)', NEW k \in 1..Len(txn'[s].nos)
                PROVE  /\ holder'[CounterOf(txn'[s], k)] = s
                       /\ txn'[s].nos[k] = nextNo[CounterOf(txn'[s], k)]
    BY <1>2 DEF Held, CounterOf
  <2>1. CASE s = r
    <3>1. CASE k = n + 1
      BY <2>1, <3>1, <1>1, <1>2, <1>4, <1>5 DEF TypeOK
    <3>2. CASE k \in 1..n
      <4>1. /\ holder[CounterOf(txn[r], k)] = r
            /\ txn[r].nos[k] = nextNo[CounterOf(txn[r], k)]
        BY <3>2, <1>1 DEF Held
      <4>2. CounterOf(txn[r], k) \in Counters
        BY <3>2, <1>1, OpenFacts
      <4>. QED  BY <2>1, <3>2, <4>1, <4>2, <1>2, <1>4, <1>5 DEF TypeOK
    <3>. QED  BY <2>1, <3>1, <3>2, <1>1, <1>4
  <2>2. CASE s # r
    <3>1. Open(s) /\ txn'[s] = txn[s]
      BY <2>2, <1>3 DEF Open
    <3>2. holder[CounterOf(txn[s], k)] = s /\ txn[s].nos[k] = nextNo[CounterOf(txn[s], k)]
      BY <3>1 DEF Held
    <3>3. CounterOf(txn[s], k) # c
      BY <3>2, <1>2, NoneAssumption
    <3>4. CounterOf(txn[s], k) \in Counters
      BY <3>1, OpenFacts
    <3>. QED  BY <3>1, <3>2, <3>3, <3>4, <1>1, <1>2 DEF TypeOK
  <2>. QED  BY <2>1, <2>2
<1>8. HoldersOpen'
  <2>. SUFFICES ASSUME NEW e \in Counters, holder'[e] # None
                PROVE  Open(holder[e])' /\ Drawn(holder[e], e)'
    BY DEF HoldersOpen
  <2>1. CASE e = c
    <3>1. holder'[e] = r
      BY <2>1, <1>1, <1>2 DEF TypeOK
    <3>. QED  BY <2>1, <3>1, <1>1, <1>3, <1>4, <1>5 DEF Open, Drawn
  <2>2. CASE e # c
    <3>1. holder'[e] = holder[e] /\ holder[e] \in Requests
      BY <2>2, <1>1, <1>2 DEF TypeOK
    <3>2. Open(holder[e]) /\ Drawn(holder[e], e)
      BY <3>1 DEF HoldersOpen
    <3>3. CASE holder[e] = r
      BY <3>1, <3>2, <3>3, <1>1, <1>3, <1>4, <1>5 DEF Open, Drawn
    <3>4. CASE holder[e] # r
      BY <3>1, <3>2, <3>4, <1>3 DEF Open, Drawn, CounterOf
    <3>. QED  BY <3>3, <3>4
  <2>. QED  BY <2>1, <2>2
<1>9. (Below /\ InCommitOrder /\ NoGaps)'
  BY <1>2 DEF Below, InCommitOrder, NoGaps, CounterOf
<1>. QED  BY <1>6, <1>7, <1>8, <1>9

(* Ending a posting frees exactly the rows its request holds.                *)
LEMMA ReleaseFacts ==
  ASSUME IInv, NEW r \in Requests, ReleaseAll(r), txn' = [txn EXCEPT ![r] = Idle]
  PROVE  /\ holder' \in [Counters -> Requests \cup {None}]
         /\ \A c \in Counters : holder[c] # r => holder'[c] = holder[c]
         /\ \A s \in Requests : Open(s)' =>
              /\ s # r /\ txn'[s] = txn[s] /\ Open(s)
              /\ \A k \in 1..Len(txn[s].nos) : /\ CounterOf(txn[s], k) \in Counters
                                               /\ holder[CounterOf(txn[s], k)] = s
                                               /\ holder'[CounterOf(txn[s], k)] = s
         /\ HoldersOpen'
<1>. USE DEF IInv
<1>1. /\ holder' \in [Counters -> Requests \cup {None}]
      /\ \A c \in Counters : /\ holder[c] # r => holder'[c] = holder[c]
                             /\ holder[c] = r => holder'[c] = None
  BY DEF ReleaseAll, TypeOK
<1>2. ASSUME NEW s \in Requests, Open(s)'
      PROVE  /\ s # r /\ txn'[s] = txn[s] /\ Open(s)
             /\ \A k \in 1..Len(txn[s].nos) : /\ CounterOf(txn[s], k) \in Counters
                                              /\ holder[CounterOf(txn[s], k)] = s
                                              /\ holder'[CounterOf(txn[s], k)] = s
  <2>1. s # r /\ txn'[s] = txn[s] /\ Open(s)
    BY <1>2 DEF Open, Idle, TypeOK
  <2>. QED  BY <2>1, <1>1, OpenFacts DEF Held
<1>3. HoldersOpen'
  <2>. SUFFICES ASSUME NEW e \in Counters, holder'[e] # None
                PROVE  Open(holder[e])' /\ Drawn(holder[e], e)'
    BY DEF HoldersOpen
  <2>1. holder'[e] = holder[e] /\ holder[e] # r /\ holder[e] \in Requests
    BY <1>1 DEF TypeOK
  <2>2. Open(holder[e]) /\ Drawn(holder[e], e) /\ txn'[holder[e]] = txn[holder[e]]
    BY <2>1 DEF HoldersOpen, TypeOK
  <2>. QED  BY <2>1, <2>2 DEF Open, Drawn, CounterOf
<1>. QED  BY <1>1, <1>2, <1>3

(* A commit appends its document and moves exactly the counters it drew from.*)
LEMMA CommitIInv ==
  ASSUME IInv, NEW r \in Requests, Commit(r)
  PROVE  IInv'
<1>. DEFINE d == [kind |-> txn[r].kind, date |-> txn[r].date,
                  session |-> txn[r].session, year |-> txn[r].year,
                  nos |-> txn[r].nos, live |-> TRUE]
            m == Len(docs)
<1>. USE DEF IInv
<1>1. /\ Open(r) /\ ~ Drawing(r) /\ ReleaseAll(r) /\ txn' = [txn EXCEPT ![r] = Idle]
      /\ docs' = Append(docs, d) /\ docs \in Seq(Document) /\ m \in Nat
      /\ nextNo' = [c \in Counters |-> IF Drawn(r, c) THEN nextNo[c] + 1 ELSE nextNo[c]]
  BY DEF Commit, TypeOK
<1>2. /\ txn[r] \in Posting_ /\ txn[r].nos \in Seq(Nat) /\ txn[r].kind \in AllKinds
      /\ Len(txn[r].nos) = Len(SeriesOf(txn[r].kind))
  <2>1. Len(SeriesOf(txn[r].kind)) \in Nat /\ Len(txn[r].nos) \in Nat
    BY <1>1, OpenFacts, SeriesFacts
  <2>. QED  BY <1>1, <2>1, OpenFacts DEF Drawing
<1>3. /\ d \in Document /\ d.kind = txn[r].kind /\ d.nos = txn[r].nos
      /\ DOMAIN d.nos = 1..Len(txn[r].nos)
      /\ \A k : CounterOf(d, k) = CounterOf(txn[r], k)
  BY <1>2 DEF Document, Posting_, CounterOf
<1>4. \A k \in 1..Len(txn[r].nos) :
        LET c == CounterOf(txn[r], k)
        IN  c \in Counters /\ holder[c] = r /\ txn[r].nos[k] = nextNo[c] /\ Drawn(r, c)
  BY <1>1, OpenFacts DEF Held, Drawn
<1>5. /\ docs' \in Seq(Document) /\ Len(docs') = m + 1 /\ docs'[m + 1] = d
      /\ \A i \in 1..m : docs'[i] = docs[i]
      /\ DOMAIN docs = 1..m /\ DOMAIN docs' = 1..(m + 1)
  BY <1>1, <1>3
<1>. HIDE DEF d
<1>6. \A c \in Counters : /\ nextNo[c] \in Nat \ {0} /\ nextNo'[c] \in Nat \ {0}
                          /\ nextNo[c] <= nextNo'[c]
                          /\ Drawn(r, c) => nextNo'[c] = nextNo[c] + 1
                          /\ ~ Drawn(r, c) => nextNo'[c] = nextNo[c]
  BY <1>1 DEF TypeOK
<1>7. TypeOK'
  <2>1. nextNo' \in [Counters -> Nat \ {0}]
    BY <1>1, <1>6
  <2>2. txn' \in [Requests -> Posting_ \cup {Idle}]
    BY <1>1 DEF TypeOK
  <2>3. \A s \in Requests : Open(s)' => Len(txn'[s].nos) <= Len(SeriesOf(txn'[s].kind))
    BY <1>1, ReleaseFacts DEF TypeOK
  <2>4. \A i \in DOMAIN docs' : Len(docs'[i].nos) = Len(SeriesOf(docs'[i].kind))
    BY <1>2, <1>3, <1>5 DEF TypeOK
  <2>. QED  BY <1>1, <1>5, <2>1, <2>2, <2>3, <2>4, ReleaseFacts DEF TypeOK
<1>8. Held'
  <2>. SUFFICES ASSUME NEW s \in Requests, Open(s)', NEW k \in 1..Len(txn'[s].nos)
                PROVE  /\ holder'[CounterOf(txn'[s], k)] = s
                       /\ txn'[s].nos[k] = nextNo'[CounterOf(txn'[s], k)]
    BY DEF Held, CounterOf
  <2>. DEFINE c == CounterOf(txn[s], k)
  <2>1. /\ s # r /\ txn'[s] = txn[s] /\ Open(s) /\ c \in Counters
        /\ holder[c] = s /\ holder'[c] = s
    BY <1>1, ReleaseFacts
  <2>2. ~ Drawn(r, c)
    BY <2>1, <1>4 DEF Drawn
  <2>. QED  BY <2>1, <2>2, <1>6 DEF Held
<1>9. Below'
  <2>. SUFFICES ASSUME NEW i \in DOMAIN docs', NEW a \in DOMAIN docs'[i].nos
                PROVE  docs'[i].nos[a] < nextNo'[CounterOf(docs'[i], a)]
    BY DEF Below, CounterOf
  <2>1. CASE i \in 1..m
    BY <2>1, <1>5, <1>6, DocFacts DEF Below
  <2>2. CASE i = m + 1
    BY <2>2, <1>2, <1>3, <1>4, <1>5, <1>6
  <2>. QED  BY <2>1, <2>2, <1>1, <1>5
<1>10. InCommitOrder'
  <2>. SUFFICES ASSUME NEW i \in DOMAIN docs', NEW j \in DOMAIN docs', i < j,
                       NEW a \in DOMAIN docs'[i].nos, NEW b \in DOMAIN docs'[j].nos,
                       CounterOf(docs'[i], a) = CounterOf(docs'[j], b)
                PROVE  docs'[i].nos[a] < docs'[j].nos[b]
    BY DEF InCommitOrder, CounterOf
  <2>1. i \in 1..m
    BY <1>1, <1>5
  <2>2. CASE j \in 1..m
    BY <2>1, <2>2, <1>5 DEF InCommitOrder
  <2>3. CASE j = m + 1
    <3>1. docs[i].nos[a] < nextNo[CounterOf(docs[i], a)]
      BY <2>1, <1>5 DEF Below
    <3>2. /\ b \in 1..Len(txn[r].nos) /\ docs'[j].nos[b] = txn[r].nos[b]
          /\ CounterOf(docs'[j], b) = CounterOf(txn[r], b) /\ docs'[i] = docs[i]
      BY <2>1, <2>3, <1>3, <1>5
    <3>3. docs'[j].nos[b] = nextNo[CounterOf(docs[i], a)]
      BY <3>2, <1>4
    <3>. QED  BY <3>1, <3>2, <3>3
  <2>. QED  BY <2>2, <2>3, <1>1, <1>5
<1>11. NoGaps'
  <2>. SUFFICES ASSUME NEW c \in Counters, NEW n \in 1..(nextNo'[c] - 1)
                PROVE  \E i \in DOMAIN docs' : \E a \in DOMAIN docs'[i].nos :
                         CounterOf(docs'[i], a) = c /\ docs'[i].nos[a] = n
    BY DEF NoGaps, CounterOf
  <2>1. CASE n \in 1..(nextNo[c] - 1)
    <3>1. PICK i \in DOMAIN docs : \E a \in DOMAIN docs[i].nos :
            CounterOf(docs[i], a) = c /\ docs[i].nos[a] = n
      BY <2>1 DEF NoGaps
    <3>. QED  BY <3>1, <1>1, <1>5
  <2>2. CASE ~ (n \in 1..(nextNo[c] - 1))
    <3>1. n = nextNo[c] /\ Drawn(r, c)
      BY <2>2, <1>6
    <3>2. PICK k \in 1..Len(txn[r].nos) : CounterOf(txn[r], k) = c
      BY <3>1 DEF Drawn
    <3>3. d.nos[k] = n /\ k \in DOMAIN d.nos /\ CounterOf(d, k) = c
      BY <3>1, <3>2, <1>2, <1>3, <1>4
    <3>. QED  BY <3>3, <1>1, <1>5
  <2>. QED  BY <2>1, <2>2
<1>. QED  BY <1>1, <1>7, <1>8, <1>9, <1>10, <1>11, ReleaseFacts

(* A rollback frees the rows, and leaves counters and documents alone.       *)
LEMMA RollbackIInv ==
  ASSUME IInv, NEW r \in Requests, Rollback(r)
  PROVE  IInv'
<1>. USE DEF IInv
<1>1. ReleaseAll(r) /\ txn' = [txn EXCEPT ![r] = Idle] /\ UNCHANGED <<nextNo, docs>>
  BY DEF Rollback
<1>2. TypeOK'
  BY <1>1, ReleaseFacts DEF TypeOK
<1>3. Held'
  <2>. SUFFICES ASSUME NEW s \in Requests, Open(s)', NEW k \in 1..Len(txn'[s].nos)
                PROVE  /\ holder'[CounterOf(txn'[s], k)] = s
                       /\ txn'[s].nos[k] = nextNo'[CounterOf(txn'[s], k)]
    BY DEF Held, CounterOf
  <2>1. s # r /\ txn'[s] = txn[s] /\ Open(s) /\ holder'[CounterOf(txn[s], k)] = s
    BY <1>1, ReleaseFacts
  <2>. QED  BY <2>1, <1>1 DEF Held
<1>4. (Below /\ InCommitOrder /\ NoGaps)'
  BY <1>1 DEF Below, InCommitOrder, NoGaps, CounterOf
<1>. QED  BY <1>1, <1>2, <1>3, <1>4, ReleaseFacts

(* Remove and Redate rewrite a document's live flag or date, nothing that    *)
(* its numbers or its counters depend on.                                    *)
LEMMA RewriteIInv ==
  ASSUME IInv, NEW i \in DOMAIN docs, NEW e \in Document,
         e.kind = docs[i].kind, e.year = docs[i].year, e.nos = docs[i].nos,
         docs' = [docs EXCEPT ![i] = e], UNCHANGED <<nextNo, holder, txn>>
  PROVE  IInv'
<1>. USE DEF IInv
<1>1. docs \in Seq(Document) /\ docs' \in Seq(Document) /\ DOMAIN docs' = DOMAIN docs
  BY DEF TypeOK
<1>2. \A j \in DOMAIN docs : /\ docs'[j].nos = docs[j].nos /\ docs'[j].kind = docs[j].kind
                             /\ docs'[j].year = docs[j].year
  BY <1>1
<1>3. \A j \in DOMAIN docs : \A a : CounterOf(docs'[j], a) = CounterOf(docs[j], a)
  BY <1>2 DEF CounterOf
<1>4. TypeOK'
  BY <1>1, <1>2 DEF TypeOK, Open
<1>5. (Held /\ HoldersOpen)'
  BY DEF Held, HoldersOpen, Open, Drawn, CounterOf
<1>6. Below'
  <2>. SUFFICES ASSUME NEW j \in DOMAIN docs, NEW a \in DOMAIN docs[j].nos
                PROVE  docs'[j].nos[a] < nextNo[CounterOf(docs'[j], a)]
    BY <1>1, <1>2 DEF Below, CounterOf
  <2>. QED  BY <1>2, <1>3 DEF Below
<1>7. InCommitOrder'
  <2>. SUFFICES ASSUME NEW j \in DOMAIN docs, NEW k \in DOMAIN docs, j < k,
                       NEW a \in DOMAIN docs[j].nos, NEW b \in DOMAIN docs[k].nos,
                       CounterOf(docs'[j], a) = CounterOf(docs'[k], b)
                PROVE  docs'[j].nos[a] < docs'[k].nos[b]
    BY <1>1, <1>2 DEF InCommitOrder, CounterOf
  <2>. QED  BY <1>2, <1>3 DEF InCommitOrder
<1>8. NoGaps'
  <2>. SUFFICES ASSUME NEW c \in Counters, NEW n \in 1..(nextNo[c] - 1)
                PROVE  \E j \in DOMAIN docs' : \E a \in DOMAIN docs'[j].nos :
                         CounterOf(docs'[j], a) = c /\ docs'[j].nos[a] = n
    BY DEF NoGaps, CounterOf
  <2>1. PICK j \in DOMAIN docs : \E a \in DOMAIN docs[j].nos :
          CounterOf(docs[j], a) = c /\ docs[j].nos[a] = n
    BY DEF NoGaps
  <2>. QED  BY <2>1, <1>1, <1>2, <1>3
<1>. QED  BY <1>4, <1>5, <1>6, <1>7, <1>8

(* Removing a document is such a rewriting.                                  *)
LEMMA RemoveIInv ==
  ASSUME IInv, NEW i \in DOMAIN docs, Remove(i)
  PROVE  IInv'
<1>. DEFINE e == [docs[i] EXCEPT !.live = FALSE]
<1>1. docs[i] \in Document
  BY DocFacts DEF IInv
<1>2. /\ e \in Document /\ e.kind = docs[i].kind /\ e.year = docs[i].year
      /\ e.nos = docs[i].nos
  BY <1>1 DEF Document
<1>3. docs' = [docs EXCEPT ![i] = e] /\ UNCHANGED <<nextNo, holder, txn>>
  BY DEF Remove
<1>. HIDE DEF e
<1>. QED  BY <1>2, <1>3, RewriteIInv

(* And so is redating it.                                                    *)
LEMMA RedateIInv ==
  ASSUME IInv, NEW i \in DOMAIN docs, NEW d \in Dates, Redate(i, d)
  PROVE  IInv'
<1>. DEFINE e == [docs[i] EXCEPT !.date = d]
<1>1. docs[i] \in Document
  BY DocFacts DEF IInv
<1>2. /\ e \in Document /\ e.kind = docs[i].kind /\ e.year = docs[i].year
      /\ e.nos = docs[i].nos
  BY <1>1 DEF Document
<1>3. docs' = [docs EXCEPT ![i] = e] /\ UNCHANGED <<nextNo, holder, txn>>
  BY DEF Redate
<1>. HIDE DEF e
<1>. QED  BY <1>2, <1>3, RewriteIInv

(* Every step of the database and its clients preserves the invariant.       *)
LEMMA NextIInv == IInv /\ [Next]_vars => IInv'
<1>. SUFFICES ASSUME IInv, [Next]_vars PROVE IInv'
  OBVIOUS
<1>1. CASE UNCHANGED vars
  BY <1>1 DEF vars, IInv, TypeOK, Held, HoldersOpen, Below, InCommitOrder, NoGaps,
              Open, Drawn, CounterOf
<1>2. ASSUME NEW r \in Requests, NEW kind \in Kinds, NEW d \in Dates,
             NEW session \in Years, Begin(r, kind, d, session)
      PROVE  IInv'
  BY <1>2, BeginIInv
<1>3. ASSUME NEW r \in Requests, Draw(r) \/ Commit(r) \/ Rollback(r)
      PROVE  IInv'
  BY <1>3, DrawIInv, CommitIInv, RollbackIInv
<1>4. ASSUME NEW i \in DOMAIN docs, Remove(i) PROVE IInv'
  BY <1>4, RemoveIInv
<1>5. ASSUME NEW i \in DOMAIN docs, NEW d \in Dates, Redate(i, d) PROVE IInv'
  BY <1>5, RedateIInv
<1>. QED  BY <1>1, <1>2, <1>3, <1>4, <1>5 DEF Next

(* A request that waits, and whose holder waits too, gives three postings    *)
(* in a row whose series overlap: there are none.                            *)
LEMMA IInvNoDeadlock == IInv => NoDeadlock
<1>. SUFFICES ASSUME IInv, NEW S \in SUBSET Requests, NEW r \in S,
                     \A s \in S : Waiting(s) /\ holder[NextCounter(s)] \in S
              PROVE  FALSE
  BY DEF NoDeadlock
<1>. USE DEF IInv
<1>1. ASSUME NEW s \in S
      PROVE  /\ Open(s) /\ txn[s].kind \in AllKinds
             /\ Drawn(holder[NextCounter(s)], NextCounter(s))
             /\ holder[NextCounter(s)] \in S
  <2>1. Open(s) /\ Drawing(s) /\ holder[NextCounter(s)] # None
    BY DEF Waiting, Drawing
  <2>. QED  BY <2>1, OpenFacts DEF HoldersOpen
<1>2. ASSUME NEW s \in S
      PROVE  Len(txn[s].nos) \in Nat /\ Len(txn[s].nos) < Len(SeriesOf(txn[s].kind))
  BY <1>1, OpenFacts DEF Waiting, Drawing
<1>3. ASSUME NEW s \in S, Len(txn[s].nos) >= 1
      PROVE  /\ Len(txn[s].nos) = 1 /\ Len(SeriesOf(txn[s].kind)) = 2
             /\ NextCounter(s) = <<SeriesOf(txn[s].kind)[2], txn[s].year>>
             /\ \A c : Drawn(s, c) => c[1] = SeriesOf(txn[s].kind)[1]
  <2>1. Len(txn[s].nos) = 1 /\ Len(SeriesOf(txn[s].kind)) = 2
    <3>1. Len(SeriesOf(txn[s].kind)) \in 1..2
      BY <1>1, SeriesFacts
    <3>2. Len(txn[s].nos) \in Nat /\ Len(txn[s].nos) < Len(SeriesOf(txn[s].kind))
      BY <1>2
    <3>3. Len(txn[s].nos) >= 1
      BY <1>3
    <3>. DEFINE m == Len(txn[s].nos)
                n == Len(SeriesOf(txn[s].kind))
    <3>4. n \in 1..2 /\ m \in Nat /\ m < n /\ m >= 1
      BY <3>1, <3>2, <3>3
    <3>. HIDE DEF m, n
    <3>5. m = 1 /\ n = 2
      BY <3>4
    <3>. QED  BY <3>5 DEF m, n
  <2>2. NextCounter(s) = <<SeriesOf(txn[s].kind)[2], txn[s].year>>
    BY <2>1 DEF NextCounter, CounterOf
  <2>3. \A c : Drawn(s, c) => c[1] = SeriesOf(txn[s].kind)[1]
    BY <2>1 DEF Drawn, CounterOf
  <2>. QED  BY <2>1, <2>2, <2>3
<1>4. ASSUME NEW s \in S, NEW c, Drawn(s, c)
      PROVE  Len(txn[s].nos) >= 1
  BY <1>2, <1>4 DEF Drawn
<1>. DEFINE a == holder[NextCounter(r)]
            b == holder[NextCounter(a)]
            e == holder[NextCounter(b)]
<1>5. /\ a \in S /\ Drawn(a, NextCounter(r))
      /\ b \in S /\ Drawn(b, NextCounter(a))
      /\ e \in S /\ Drawn(e, NextCounter(b))
  BY <1>1
<1>. HIDE DEF a, b, e
<1>6. Len(txn[a].nos) >= 1 /\ Len(txn[b].nos) >= 1 /\ Len(txn[e].nos) >= 1
  BY <1>4, <1>5
<1>7. SeriesOf(txn[a].kind)[2] = SeriesOf(txn[b].kind)[1]
  BY <1>3, <1>5, <1>6
<1>8. SeriesOf(txn[b].kind)[2] = SeriesOf(txn[e].kind)[1]
  BY <1>3, <1>5, <1>6
<1>9. /\ Len(SeriesOf(txn[a].kind)) = 2 /\ Len(SeriesOf(txn[b].kind)) = 2
      /\ Len(SeriesOf(txn[e].kind)) = 2
      /\ txn[a].kind \in AllKinds /\ txn[b].kind \in AllKinds /\ txn[e].kind \in AllKinds
  BY <1>1, <1>3, <1>5, <1>6
<1>. QED  BY <1>7, <1>8, <1>9, NoChainOfThree

-----------------------------------------------------------------------------
(* The strengthened invariant of upsert-numbered postings holds always: rows *)
(* are held by open postings that drew from them, in the order of the code.  *)
THEOREM SpecIInv == Spec => []IInv
BY InitIInv, NextIInv, PTL DEF Spec

(* Every state of the posting transactions is well typed: a committed        *)
(* document carries exactly the numbers its kind draws.                      *)
THEOREM TypeCorrect == Spec => []TypeOK
<1>1. IInv => TypeOK
  BY DEF IInv
<1>. QED  BY <1>1, SpecIInv, PTL

(* postVoucherTx never hands out a number twice: numbers of a series grow    *)
(* in commit order, whatever the number of concurrent requests.              *)
THEOREM NumbersInCommitOrder == Spec => []InCommitOrder
<1>1. IInv => InCommitOrder
  BY DEF IInv
<1>. QED  BY <1>1, SpecIInv, PTL

(* A posting rolled back after it drew a number leaves no hole behind.       *)
THEOREM NumbersHaveNoGaps == Spec => []NoGaps
<1>1. IInv => NoGaps
  BY DEF IInv
<1>. QED  BY <1>1, SpecIInv, PTL

(* The order in which the services upsert counter rows cannot deadlock.      *)
THEOREM PostingsNeverDeadlock == Spec => []NoDeadlock
BY SpecIInv, IInvNoDeadlock, PTL
=============================================================================
