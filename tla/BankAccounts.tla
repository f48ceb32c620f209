----------------------------- MODULE BankAccounts -----------------------------
(***************************************************************************)
(* The bank accounts of a company: one of them is the default, and its      *)
(* details are copied onto the company, where documents print them from.    *)
(* Requests read before their transaction, and a statement sees the rows    *)
(* committed when it started, whatever it waited for since.                 *)
(***************************************************************************)
EXTENDS Naturals, FiniteSets

CONSTANTS
  Requests,
  Banks,      \* bank accounts ever made, 1..n by age
  MaxServed,  \* bound: requests ever made
  None

VARIABLES
  row,     \* the rows of bank_accounts
  mirror,  \* Company.bank*: the account it was copied from
  req,     \* the requests under way
  served,  \* requests made so far
  plain    \* no removal or creation has met another request, and no removed
           \* account was given a default

vars == <<row, mirror, req, served, plain>>

Absent == [there |-> FALSE, active |-> FALSE, default |-> FALSE]
Idle == [at |-> "idle", op |-> "none", bank |-> 0, was |-> FALSE, sees |-> {}, pick |-> None]

Init ==
  /\ row = [b \in Banks |-> Absent]
  /\ mirror = None
  /\ req = [r \in Requests |-> Idle]
  /\ served = 0
  /\ plain = TRUE

There == {b \in Banks : row[b].there}
Active == {b \in Banks : row[b].active}
Step(r, new) == req' = [req EXCEPT ![r] = new]
Oldest(S) == CHOOSE b \in S : \A c \in S : b <= c

(* A request is read first: create counts the accounts, setDefault looks for an
   active one, update for any, remove notes whether it is the default.  Creations
   and updates may ask for the default. *)
Start(r, op, b, asks) ==
  LET met == \E q \in Requests \ {r} : req[q].at # "idle"
      alone == \A q \in Requests \ {r} : req[q].op \in {"none", "setDefault", "update"}
  IN /\ req[r].at = "idle" /\ served < MaxServed
     /\ op = "create" => ~ row[b].there /\ \A q \in Requests : req[q].bank # b
     /\ op = "setDefault" => row[b].active
     /\ op \in {"update", "remove"} => row[b].there
     /\ asks => op \in {"create", "update"}
     /\ Step(r, [Idle EXCEPT !.at = "read", !.op = op, !.bank = b,
                   !.was = CASE op = "create" -> asks \/ Active = {}
                             [] op = "update" -> asks
                             [] op = "setDefault" -> TRUE
                             [] op = "remove" -> row[b].default])
     /\ served' = served + 1
     /\ plain' = (plain /\ (met => alone /\ op \in {"setDefault", "update"})
                        /\ (op = "update" /\ asks => row[b].active))
     /\ UNCHANGED <<row, mirror>>

(* The rows a request holds: those it has written, until it commits.          *)
Holds(q) ==
  IF req[q].at \in {"cleared", "found"} THEN req[q].sees
  ELSE IF req[q].at \in {"own", "looked"} /\ req[q].op \in {"update", "remove"} THEN {req[q].bank}
  ELSE {}
FreeFor(r, S) == \A q \in Requests \ {r} : Holds(q) \cap S = {}

(* update and remove write their own row first.                                *)
WriteOwn(r) ==
  /\ req[r].at = "read" /\ req[r].op \in {"update", "remove"}
  /\ FreeFor(r, {req[r].bank})
  /\ Step(r, [req[r] EXCEPT !.at = "own"])
  /\ UNCHANGED <<row, mirror, served, plain>>

(* The statement that clears the other defaults, or looks for the oldest account
   left, starts: these are the rows it sees. *)
Look(r) ==
  LET op == req[r].op
      b == req[r].bank
      left == Active \ {b}
      sees == IF op = "remove" THEN {b} \cup (IF req[r].was /\ left # {} THEN {Oldest(left)} ELSE {})
              ELSE (IF req[r].was THEN There ELSE {}) \cup (IF op = "update" THEN {b} ELSE {})
  IN /\ req[r].at = (IF op \in {"update", "remove"} THEN "own" ELSE "read")
     /\ Step(r, [req[r] EXCEPT !.at = "looked", !.sees = sees])
     /\ UNCHANGED <<row, mirror, served, plain>>

(* It waits for whoever has written them.                                      *)
Clear(r) ==
  /\ req[r].at = "looked" /\ FreeFor(r, req[r].sees)
  /\ Step(r, [req[r] EXCEPT !.at = "cleared"])
  /\ UNCHANGED <<row, mirror, served, plain>>

(* Broken variant: setDefault does not clear the others. *)
Written_KeepsOthers(r) ==
  LET op == req[r].op
      b == req[r].bank
      S == req[r].sees
      isDefault == req[r].was \/ (op = "update" /\ row[b].default)
  IN [c \in Banks |->
        IF op = "remove"
        THEN IF c = b THEN [row[c] EXCEPT !.active = FALSE, !.default = FALSE]
             ELSE IF c \in S THEN [row[c] EXCEPT !.default = TRUE] ELSE row[c]
        ELSE IF c = b THEN [there |-> TRUE, active |-> op = "create" \/ row[c].active,
                            default |-> isDefault]
        ELSE IF c \in S /\ op = "create" THEN [row[c] EXCEPT !.default = FALSE] ELSE row[c]]

(* The rows as the request leaves them: its own, those it cleared, and the one a
   removal promotes. *)
Written(r) ==
  LET op == req[r].op
      b == req[r].bank
      S == req[r].sees
      isDefault == req[r].was \/ (op = "update" /\ row[b].default)
  IN [c \in Banks |->
        IF op = "remove"
        THEN IF c = b THEN [row[c] EXCEPT !.active = FALSE, !.default = FALSE]
             ELSE IF c \in S THEN [row[c] EXCEPT !.default = TRUE] ELSE row[c]
        ELSE IF c = b THEN [there |-> TRUE, active |-> op = "create" \/ row[c].active,
                            default |-> isDefault]
        ELSE IF c \in S THEN [row[c] EXCEPT !.default = FALSE] ELSE row[c]]

(* syncDefault finds an active default, of the rows committed and its own, ...   *)
Find(r) ==
  LET found == {b \in Banks : Written(r)[b].active /\ Written(r)[b].default}
  IN /\ req[r].at = "cleared"
     /\ \E pick \in (IF found = {} THEN {None} ELSE found) :
          Step(r, [req[r] EXCEPT !.at = "found", !.pick = pick])
     /\ UNCHANGED <<row, mirror, served, plain>>

(* ... and copies it; the transaction commits.                                 *)
Commit(r) ==
  /\ req[r].at = "found"
  /\ row' = Written(r)
  /\ mirror' = req[r].pick
  /\ Step(r, Idle)
  /\ UNCHANGED <<served, plain>>

(* The request fails, or is the victim of a deadlock.                          *)
Abandon(r) ==
  /\ req[r].at # "idle"
  /\ Step(r, Idle)
  /\ UNCHANGED <<row, mirror, served, plain>>

Next ==
  \E r \in Requests :
    \/ \E op \in {"create", "setDefault", "update", "remove"}, b \in Banks, asks \in BOOLEAN :
         Start(r, op, b, asks)
    \/ WriteOwn(r) \/ Look(r) \/ Clear(r) \/ Find(r) \/ Commit(r) \/ Abandon(r)

Spec == Init /\ [][Next]_vars

-----------------------------------------------------------------------------
TypeOK ==
  /\ row \in [Banks -> [there : BOOLEAN, active : BOOLEAN, default : BOOLEAN]]
  /\ mirror \in Banks \cup {None}
  /\ \A b \in Banks : row[b].active => row[b].there
  /\ \A r \in Requests : req[r].sees \subseteq Banks /\ req[r].bank \in Banks \cup {0}

(* A company with accounts has one default, and prints it: through changes of the
   default that wait for each other, and creations and removals that meet no
   other request. *)
OneDefaultBank ==
  plain =>
    LET defaults == {b \in Active : row[b].default}
    IN /\ Cardinality(defaults) = (IF Active = {} THEN 0 ELSE 1)
       /\ mirror = (IF Active = {} THEN None ELSE CHOOSE b \in defaults : TRUE)
=============================================================================
