------------------------------ MODULE PartyDraft ------------------------------
(***************************************************************************)
(* The form over the list of parties.  Editing a party opens its row of the *)
(* list as a draft, without its image; the party is fetched meanwhile and   *)
(* the answer completes the draft, if it is of that party then.  Saving     *)
(* sends the whole draft.                                                   *)
(***************************************************************************)
EXTENDS Naturals, Sequences

CONSTANTS
  Parties,
  MaxImage,   \* bound: images; 0 is none
  MaxOpened,  \* bound: drafts ever opened
  MaxOthers,  \* bound: saves of other users
  None

VARIABLES
  party,   \* the rows of parties
  list,    \* the rows as the page loaded them
  draft,   \* the open draft, or None
  fetch,   \* the fetches: what each has been answered, or its stage
  sent,    \* what is being saved, or None
  others   \* saves of other users so far

vars == <<party, list, draft, fetch, sent, others>>

(* Two of the fields: the alias, of the row listed and kept when left empty, and
   the image, fetched and cleared when it is not there. *)
Rows == [alias : 0..1, image : 0..MaxImage]
Row0 == [alias |-> 1, image |-> 1]

Init ==
  /\ party = [p \in Parties |-> Row0] /\ list = party
  /\ draft = None
  /\ fetch = <<>>
  /\ sent = None
  /\ others = 0

Opened == Len(fetch)

(* startEdit, of any row and over any draft.                                   *)
StartEdit(p) ==
  /\ Opened < MaxOpened
  /\ draft' = [id |-> p, nr |-> Opened + 1, row |-> [list[p] EXCEPT !.image = 0],
               typed |-> {}, sound |-> sent = None /\ list[p] = party[p], waits |-> TRUE]
  /\ fetch' = Append(fetch, [of |-> p, at |-> "asked", row |-> Row0])
  /\ UNCHANGED <<party, list, sent, others>>

Served(n) ==
  /\ fetch[n].at = "asked"
  /\ fetch' = [fetch EXCEPT ![n].at = "served", ![n].row = party[fetch[n].of]]
  /\ UNCHANGED <<party, list, draft, sent, others>>

FetchFails(n) ==
  /\ fetch[n].at \in {"asked", "served"}
  /\ fetch' = [fetch EXCEPT ![n].at = "over", ![n].row = Row0]
  /\ UNCHANGED <<party, list, draft, sent, others>>

(* Broken variant: the answer completes whatever draft is open. *)
IsFor_Any(n, d) == d # None

IsFor(n, d) == IF d = None THEN FALSE ELSE d.id = fetch[n].of

(* The answers arrive, in any order.                                           *)
Fetched(n) ==
  LET full == fetch[n].row
  IN /\ fetch[n].at = "served"
     /\ fetch' = [fetch EXCEPT ![n].at = "over", ![n].row = Row0]
     /\ draft' = IF ~ IsFor(n, draft) THEN draft
                 ELSE [draft EXCEPT !.row.image = full.image,
                         !.waits = @ /\ n # draft.nr,
                         !.sound = @ /\ (draft.id = fetch[n].of => n = draft.nr /\ draft.typed = {})]
     /\ UNCHANGED <<party, list, sent, others>>

(* Bound: a field is typed in once in a draft.                                 *)
Type(f, v) ==
  /\ draft # None
  /\ f \notin draft.typed /\ v # draft.row[f]
  /\ draft' = [draft EXCEPT !.row[f] = v, !.typed = @ \cup {f}]
  /\ UNCHANGED <<party, list, fetch, sent, others>>

Close ==
  /\ draft # None
  /\ draft' = None
  /\ UNCHANGED <<party, list, fetch, sent, others>>

(* One save at a time; the form can be typed in, or opened on another party,
   before its answer. *)
Submit ==
  /\ draft # None /\ sent = None
  /\ sent' = [id |-> draft.id, row |-> draft.row, typed |-> draft.typed,
              sound |-> draft.sound /\ ~ draft.waits]
  /\ UNCHANGED <<party, list, draft, fetch, others>>

(* Broken variant: an alias left empty is cleared. *)
Patched_Clears(old, new) == new

(* updateParty, of what onSubmit sends: an empty alias is not sent, an image that
   is not there clears the party's. *)
Patched(old, new) ==
  [new EXCEPT !.alias = IF @ = 0 THEN old.alias ELSE @]

(* The draft is saved, the form closed, whatever it holds, and the list loaded.  *)
Saved ==
  /\ sent # None
  /\ party' = [party EXCEPT ![sent.id] = Patched(@, sent.row)]
  /\ list' = party'
  /\ draft' = None /\ sent' = None
  /\ UNCHANGED <<fetch, others>>

(* The save is refused or lost, or its answer is.                              *)
SaveFails ==
  /\ sent # None
  /\ party' \in {party, [party EXCEPT ![sent.id] = Patched(@, sent.row)]}
  /\ draft' = IF draft = None THEN None
              ELSE [draft EXCEPT !.sound = @ /\ (party' = party \/ draft.id # sent.id)]
  /\ sent' = None
  /\ UNCHANGED <<list, fetch, others>>

(* Another user saves a party.                                                 *)
Elsewhere(p, row) ==
  /\ others < MaxOthers /\ others' = others + 1
  /\ row # party[p]
  /\ party' = [party EXCEPT ![p] = row]
  /\ draft' = IF draft = None THEN None ELSE [draft EXCEPT !.sound = @ /\ draft.id # p]
  /\ sent' = IF sent = None THEN None ELSE [sent EXCEPT !.sound = @ /\ sent.id # p]
  /\ UNCHANGED <<list, fetch>>

Next ==
  \/ \E p \in Parties : StartEdit(p) \/ \E row \in Rows : Elsewhere(p, row)
  \/ \E n \in DOMAIN fetch : Served(n) \/ FetchFails(n) \/ Fetched(n)
  \/ \E v \in 0..1 : Type("alias", v)
  \/ \E v \in 0..MaxImage : Type("image", v)
  \/ Close \/ Submit \/ Saved \/ SaveFails

Spec == Init /\ [][Next]_vars

-----------------------------------------------------------------------------
TypeOK ==
  /\ party \in [Parties -> Rows] /\ list \in [Parties -> Rows]
  /\ others \in 0..MaxOthers /\ Opened <= MaxOpened
  /\ draft # None => draft.id \in Parties /\ draft.row \in Rows
  /\ sent # None => sent.id \in Parties /\ sent.row \in Rows

(* A save changes what was typed, where it was not emptied, and nothing else of any
   party: when the row was up to date, nobody else saved the party since, and the
   answer to this opening of it, and to no earlier one, had come before typing. *)
SaveChangesTyped ==
  sent # None /\ list' # list /\ sent.sound
  => party' = [party EXCEPT ![sent.id] =
                 [f \in DOMAIN @ |->
                    IF f \in sent.typed /\ (f = "alias" => sent.row[f] # 0)
                    THEN sent.row[f] ELSE @[f]]]
SavedAsTyped == [][SaveChangesTyped]_vars
=============================================================================
