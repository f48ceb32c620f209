----------------------------- MODULE Settlement -----------------------------
(***************************************************************************)
(* What an invoice promises as an account: each operation of the invoice   *)
(* service as one indivisible change of four numbers.  Payments are held   *)
(* to what payments and notes have left of the total; notes only to what   *)
(* earlier notes have left, since what is returned may have been paid for. *)
(***************************************************************************)
EXTENDS Integers

CONSTANTS Invoices, MaxTotal

VARIABLES total, paid, noted, status

vars == <<total, paid, noted, status>>

Amounts == 1..MaxTotal
Outstanding(i) == total[i] - paid[i] - noted[i]

Init ==
  /\ total = [i \in Invoices |-> 0]
  /\ paid = [i \in Invoices |-> 0]
  /\ noted = [i \in Invoices |-> 0]
  /\ status = [i \in Invoices |-> "NONE"]

Create(i, t) ==
  /\ status[i] = "NONE"
  /\ status' = [status EXCEPT ![i] = "ISSUED"]
  /\ total' = [total EXCEPT ![i] = t]
  /\ UNCHANGED <<paid, noted>>

RecordPayment(i, a) ==
  /\ status[i] = "ISSUED"
  /\ a <= Outstanding(i)
  /\ paid' = [paid EXCEPT ![i] = @ + a]
  /\ UNCHANGED <<total, noted, status>>

IssueNote(i, a) ==
  /\ status[i] = "ISSUED"
  /\ a <= total[i] - noted[i]
  /\ noted' = [noted EXCEPT ![i] = @ + a]
  /\ UNCHANGED <<total, paid, status>>

CancelNote(i, a) ==
  /\ status[i] = "ISSUED"
  /\ a <= noted[i]
  /\ noted' = [noted EXCEPT ![i] = @ - a]
  /\ UNCHANGED <<total, paid, status>>

Unsettled(i) == status[i] = "ISSUED" /\ paid[i] = 0 /\ noted[i] = 0

Edit(i, t) ==
  /\ Unsettled(i)
  /\ total' = [total EXCEPT ![i] = t]
  /\ UNCHANGED <<paid, noted, status>>

Cancel(i) ==
  /\ Unsettled(i)
  /\ status' = [status EXCEPT ![i] = "CANCELLED"]
  /\ UNCHANGED <<total, paid, noted>>

(* Payments and notes go with the invoice. *)
Remove(i) ==
  /\ status[i] \in {"ISSUED", "CANCELLED"}
  /\ status' = [status EXCEPT ![i] = "GONE"]
  /\ paid' = [paid EXCEPT ![i] = 0]
  /\ noted' = [noted EXCEPT ![i] = 0]
  /\ UNCHANGED total

Next ==
  \E i \in Invoices :
    \/ \E a \in Amounts :
         \/ Create(i, a)
         \/ RecordPayment(i, a)
         \/ IssueNote(i, a)
         \/ CancelNote(i, a)
         \/ Edit(i, a)
    \/ Cancel(i)
    \/ Remove(i)

Spec == Init /\ [][Next]_vars

-----------------------------------------------------------------------------
(* Type invariant: no account goes below zero. *)
TypeOK ==
  /\ total \in [Invoices -> Nat]
  /\ paid \in [Invoices -> Nat]
  /\ noted \in [Invoices -> Nat]
  /\ status \in [Invoices -> {"NONE", "ISSUED", "CANCELLED", "GONE"}]

(* Neither payments nor notes ever exceed what the invoice was for, and       *)
(* nothing is settled on an invoice that is cancelled or removed.            *)
WithinTotal ==
  \A i \in Invoices :
    /\ paid[i] <= total[i]
    /\ noted[i] <= total[i]
    /\ status[i] # "ISSUED" => paid[i] = 0 /\ noted[i] = 0

PaysOutOfBalance == \A i \in Invoices : paid'[i] > paid[i] => paid'[i] + noted'[i] <= total'[i]

(* A payment is taken only out of what payments and notes have left open: the *)
(* total is not paid and returned at once, even if notes may follow payments. *)
PaidOutOfBalance == [][PaysOutOfBalance]_vars
=============================================================================
