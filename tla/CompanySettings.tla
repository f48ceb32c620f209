--------------------------- MODULE CompanySettings ---------------------------
(***************************************************************************)
(* The settings cards: each loads its columns of the company, lets the user *)
(* type over them and writes all of them back.  The profile card, the card  *)
(* of the payment links, and a layout card for each kind of document, which *)
(* writes the logo too and its layout in the map of all the layouts.        *)
(***************************************************************************)
EXTENDS Naturals

CONSTANTS
  Cards,     \* settings cards on the screens of the company's users
  Kinds,     \* kinds of documents
  MaxValue,  \* bound: values typed in a field; 0 is empty, or the default
  MaxSaves   \* bound: saves ever made

VARIABLES
  company,  \* the company row, a value for each field
  card,     \* the cards
  saves,    \* saves made so far
  meant,    \* for each field, what was last typed and saved
  lost      \* fields that a failed load or cards open at a time may have lost

vars == <<company, card, saves, meant, lost>>

Fields == {"gstin", "state", "sales", "logo"} \cup Kinds
Values == 0..MaxValue
Blank == [f \in Fields |-> 0]
Shut == [at |-> "shut", of |-> "none", form |-> Blank, typed |-> {}, failed |-> FALSE,
         map |-> [k \in Kinds |-> 0]]

(* The fields a card shows and sends.                                          *)
FieldsOf(of) ==
  CASE of = "profile" -> {"gstin", "state"}
    [] of = "links" -> {"sales"}
    [] of \in Kinds -> {"logo", of}
    [] OTHER -> {}

Init ==
  /\ company = Blank
  /\ card = [c \in Cards |-> Shut]
  /\ saves = 0
  /\ meant = Blank
  /\ lost = {}

Card(c, new) == card' = [card EXCEPT ![c] = new]
Own(c) == FieldsOf(card[c].of)

(* A card is put on a screen, and asks for the company.                        *)
Mount(c, of) ==
  /\ card[c].at = "shut" /\ saves < MaxSaves
  /\ Card(c, [Shut EXCEPT !.at = "loading", !.of = of])
  /\ lost' = lost \cup {f \in FieldsOf(of) : \E d \in Cards \ {c} : f \in Own(d)}
  /\ UNCHANGED <<company, saves, meant>>

Loaded(c) ==
  /\ card[c].at = "loading"
  /\ Card(c, [card[c] EXCEPT !.at = "open",
                !.form = [f \in Fields |-> IF f \in Own(c) THEN company[f] ELSE 0]])
  /\ UNCHANGED <<company, saves, meant, lost>>

(* A failed load counts as loaded: the card shows empty fields and defaults.   *)
LoadFailed(c) ==
  /\ card[c].at = "loading"
  /\ Card(c, [card[c] EXCEPT !.at = "open", !.failed = TRUE])
  /\ UNCHANGED <<company, saves, meant, lost>>

(* Bound: one field is typed in between two saves.                             *)
Type(c, f, v) ==
  /\ card[c].at = "open" /\ saves < MaxSaves
  /\ card[c].typed = {} /\ f \in Own(c) /\ v # card[c].form[f]
  /\ Card(c, [card[c] EXCEPT !.form[f] = v, !.typed = @ \cup {f}])
  /\ UNCHANGED <<company, saves, meant, lost>>

Save(c) ==
  /\ card[c].at = "open" /\ saves < MaxSaves
  /\ Card(c, [card[c] EXCEPT !.at = "sent"])
  /\ saves' = saves + 1
  /\ UNCHANGED <<company, meant, lost>>

(* Broken variant: a save writes every column, those it was not sent as empty. *)
Updated_Whole(c) == [f \in Fields |-> IF f \in Kinds THEN company[f] ELSE card[c].form[f]]

(* update: an empty GSTIN is not sent, and an empty state follows the GSTIN sent.
   (The link of purchases the second card sends is never written.) *)
Updated(c) ==
  LET form == card[c].form
      sent == Own(c) \ ({f \in {"gstin"} : form[f] = 0} \cup Kinds)
  IN [f \in Fields |->
        IF f \notin sent THEN company[f]
        ELSE IF f # "state" \/ form["state"] # 0 THEN form[f]
        ELSE IF form["gstin"] # 0 THEN form["gstin"] ELSE company["state"]]

(* What the user of card c meant by the fields S he typed, where the save keeps it. *)
Meant(c, S) ==
  [f \in Fields |-> IF f \in S /\ (f \in {"gstin", "state"} => card[c].form[f] # 0)
                    THEN card[c].form[f] ELSE meant[f]]

PatchCompany(c) ==
  LET typed == (card[c].typed \cap Own(c)) \ Kinds
      left == card[c].typed \cap Kinds
  IN /\ card[c].at = "sent"
     /\ company' = Updated(c)
     /\ meant' = Meant(c, typed)
     /\ lost' = lost \cup (IF card[c].failed THEN Own(c) ELSE {})
                     \cup (IF card[c].of = "profile" /\ card[c].form["state"] = 0
                           THEN {"state"} ELSE {})
     /\ Card(c, [card[c] EXCEPT !.at = IF card[c].of \in Kinds THEN "patched" ELSE "open",
                                !.typed = left])
     /\ UNCHANGED saves

(* setDocumentTemplate reads the map of layouts ...                            *)
ReadMap(c) ==
  /\ card[c].at = "patched"
  /\ Card(c, [card[c] EXCEPT !.at = "read", !.map = [k \in Kinds |-> company[k]]])
  /\ lost' = lost \cup (IF \E d \in Cards \ {c} : card[d].at = "read" THEN Kinds ELSE {})
  /\ UNCHANGED <<company, saves, meant>>

(* Broken variant: the map is written with the one layout only. *)
MapOf_OneKind(c) == [k \in Kinds |-> IF k = card[c].of THEN card[c].form[k] ELSE 0]

MapOf(c) == [k \in Kinds |-> IF k = card[c].of THEN card[c].form[k] ELSE card[c].map[k]]

(* ... and writes it back with its own changed.                                *)
WriteMap(c) ==
  /\ card[c].at = "read"
  /\ company' = [f \in Fields |-> IF f \in Kinds THEN MapOf(c)[f] ELSE company[f]]
  /\ meant' = Meant(c, card[c].typed \cap Kinds)
  /\ Card(c, [card[c] EXCEPT !.at = "open", !.typed = {}, !.map = Shut.map])
  /\ UNCHANGED <<saves, lost>>

SaveFails(c) ==
  /\ card[c].at \in {"sent", "patched", "read"}
  /\ Card(c, [card[c] EXCEPT !.at = "open", !.map = Shut.map])
  /\ UNCHANGED <<company, saves, meant, lost>>

Unmount(c) ==
  /\ card[c].at \in {"loading", "open"}
  /\ Card(c, Shut)
  /\ UNCHANGED <<company, saves, meant, lost>>

Next ==
  \E c \in Cards :
    \/ \E of \in {"profile", "links"} \cup Kinds : Mount(c, of)
    \/ \E f \in Fields, v \in Values : Type(c, f, v)
    \/ Loaded(c) \/ LoadFailed(c) \/ Save(c) \/ PatchCompany(c)
    \/ ReadMap(c) \/ WriteMap(c) \/ SaveFails(c) \/ Unmount(c)

Spec == Init /\ [][Next]_vars

-----------------------------------------------------------------------------
TypeOK ==
  /\ company \in [Fields -> Values] /\ meant \in [Fields -> Values]
  /\ lost \subseteq Fields /\ saves \in 0..MaxSaves
  /\ \A c \in Cards : card[c].typed \subseteq Own(c) /\ card[c].form \in [Fields -> Values]

(* What a user typed and saved is on the company until a user types over it: other
   cards, open at the same time, saved before, between or after the two writes of
   a layout card, or failing half way, take nothing of it.  Lost are only fields
   that two open cards showed, that a card saved after its load had failed, and
   layouts when two saves of layouts overlap. *)
SettingsKept == \A f \in Fields \ lost : company[f] = meant[f]
=============================================================================
