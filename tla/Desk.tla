--------------------------------- MODULE Desk ---------------------------------
(***************************************************************************)
(* What a user sees and sends: the session, which every part of the client *)
(* goes through, and the parts, one at a time.  Each behaviour is one of   *)
(* the parts, picked at the start, and the variables of the others keep    *)
(* their initial values: no part shares state with another.                *)
(***************************************************************************)
EXTENDS Sessions

CONSTANTS
  Items, Rates, Drafts, MaxDocs, MaxMoves, MaxSends,                \* EntryForm
  Parties, Owner, Loads, Totals, MaxAmount, MaxEntered, MaxPosted,  \* PaymentPage
  Requests, Banks, MaxServed,                                       \* BankAccounts
  Cards, CardKinds, MaxValue, MaxSaves,                             \* CompanySettings
  Edited, MaxImage, MaxOpened, MaxOthers,                           \* PartyDraft
  Documents, Layouts, Heights, Tops, Spelled,                       \* DocumentPrint
  DocIds, Entries, Users, Today, Take, Total, Gone                  \* DocumentLists

VARIABLES
  part,
  master, docs, form, moves,                                        \* EntryForm
  mode, total, paid, acc, page, load, job, sums, odd, fresh,        \* PaymentPage
  row, mirror, req, served, plain,                                  \* BankAccounts
  company, card, saves, meant, lost,                                \* CompanySettings
  party, list, draft, fetch, sent, others,                          \* PartyDraft
  print,                                                            \* DocumentPrint
  role, linked, openYear, stored, shown, open, waits, still,        \* DocumentLists
  changes, sends

Entry == INSTANCE EntryForm
Payments == INSTANCE PaymentPage
BankList == INSTANCE BankAccounts
Settings == INSTANCE CompanySettings WITH Kinds <- CardKinds
PartyForm == INSTANCE PartyDraft WITH Parties <- Edited
Paper == INSTANCE DocumentPrint WITH Amounts <- Spelled
Lists == INSTANCE DocumentLists WITH
  Docs <- DocIds, docs <- stored, call <- waits, calm <- still, others <- changes

-----------------------------------------------------------------------------
(* What a submission of the page of payments is, and a document of the lists.  *)
PageJobs ==
  [party : Parties, open : Payments!Money, todo : SUBSET Payments!Docs, alloc : Payments!Money,
   left : Nat, got : Payments!Money, spare : Nat]
ListDoc ==
  [kind : Lists!Kinds, taxed : BOOLEAN, booked : BOOLEAN, batched : BOOLEAN,
   year : Nat, date : Nat, made : Nat,
   status : {"ISSUED", "CANCELLED", "OPEN", "ACCEPTED", "DECLINED", "CONVERTED"},
   total : {Total}, paid : Nat, noted : Nat, sale : DocIds \cup {None}]
BillRows ==
  [kind : {"invoice", "bill"}, status : {"ISSUED", "CANCELLED"}, paid : Nat, due : Nat,
   payment : {"CANCELLED", "PAID", "UNPAID", "PARTIAL"}]
EstimateRows ==
  [kind : {"estimate"}, status : {"CANCELLED", "OPEN", "ACCEPTED", "DECLINED", "CONVERTED"},
   taxed : BOOLEAN, booked : BOOLEAN, sale : DocIds \cup {None}]

(* The rates the DTOs accept (GST_RATES) end at 28 percent; a draft is what the form
   holds, of any length. *)
ASSUME EntryAssumption ==
  /\ 0 \in Rates /\ Rates \subseteq 0..28
  /\ Drafts \subseteq [lines : Seq(Entry!Line), extra : Nat, inter : BOOLEAN]
ASSUME PageAssumption == Owner \in Seq(Parties) /\ Totals \subseteq Payments!Money /\ None \notin PageJobs
ASSUME BanksAssumption == Banks \subseteq Nat
ASSUME SettingsAssumption ==
  /\ MaxValue \in Nat /\ MaxSaves \in Nat
  /\ CardKinds \cap {"none", "profile", "links", "gstin", "state", "sales", "logo"} = {}
ASSUME PaperAssumption ==
  /\ \A doc \in Documents : Paper!Saved(doc)
  /\ Heights \subseteq Nat /\ Tops \subseteq Nat /\ Spelled \subseteq Nat
ASSUME DraftAssumption == MaxImage \in Nat \ {0} /\ MaxOpened \in Nat /\ MaxOthers \in Nat
ASSUME ListAssumption ==
  /\ Total \in Nat /\ None \notin DocIds /\ {None, Gone} \cap ListDoc = {} /\ IsFiniteSet(DocIds)
  /\ \A D \in SUBSET DocIds : None \notin [D -> BillRows \cup EstimateRows]
  /\ Entries \subseteq [kind : Lists!Kinds, taxed : BOOLEAN, booked : BOOLEAN, batched : BOOLEAN,
                        year : Nat, date : Nat]
  /\ Today \in [year : Nat, date : Nat]

-----------------------------------------------------------------------------
Parts == {"entry", "session", "payments", "banks", "settings", "party", "print", "lists"}

(* What is free at the start of one part is fixed in the others.               *)
DeskInit ==
  /\ part \in Parts
  /\ Init /\ Entry!Init /\ Payments!Init /\ BankList!Init /\ Settings!Init /\ PartyForm!Init
  /\ Paper!Init /\ Lists!Init
  /\ part # "entry" => master = CHOOSE rates \in [Items -> Rates] : TRUE
  /\ part # "session" => ~ native
  /\ part # "payments" => mode = "invoice"
  /\ part # "lists" => /\ <<role, linked, openYear>> = CHOOSE user \in Users : TRUE
                       /\ stored[Lists!First] = Lists!Entered(CHOOSE entry \in Entries : TRUE, 0)

entryVars == <<master, docs, form, moves>>
pageVars == <<mode, total, paid, acc, page, load, job, sums, odd, fresh>>
bankVars == <<row, mirror, req, served, plain>>
cardVars == <<company, card, saves, meant, lost>>
draftVars == <<party, list, draft, fetch, sent, others>>
listVars == <<role, linked, openYear, stored, shown, open, waits, still, changes, sends>>

Rest(p) ==
  /\ part = p /\ part' = p
  /\ p # "entry" => UNCHANGED entryVars
  /\ p # "session" => UNCHANGED vars
  /\ p # "payments" => UNCHANGED pageVars
  /\ p # "banks" => UNCHANGED bankVars
  /\ p # "settings" => UNCHANGED cardVars
  /\ p # "party" => UNCHANGED draftVars
  /\ p # "print" => UNCHANGED print
  /\ p # "lists" => UNCHANGED listVars

DeskNext ==
  \/ Rest("entry") /\ Entry!Next
  \/ Rest("session") /\ Next
  \/ Rest("payments") /\ Payments!Next
  \/ Rest("banks") /\ BankList!Next
  \/ Rest("settings") /\ Settings!Next
  \/ Rest("party") /\ PartyForm!Next
  \/ Rest("print") /\ Paper!Next
  \/ Rest("lists") /\ Lists!Next

deskVars == <<part, vars, entryVars, pageVars, bankVars, cardVars, draftVars, print, listVars>>
DeskSpec == DeskInit /\ [][DeskNext]_deskVars

-----------------------------------------------------------------------------
DeskTypeOK ==
  /\ part \in Parts
  /\ part = "entry" => Entry!TypeOK
  /\ part = "session" => TypeOK
  /\ part = "payments" => Payments!TypeOK
  /\ part = "banks" => BankList!TypeOK
  /\ part = "settings" => Settings!TypeOK
  /\ part = "party" => PartyForm!TypeOK
  /\ part = "print" => Paper!TypeOK
  /\ part = "lists" => Lists!TypeOK

(* What a form showed is what is saved, posted and settled, and an estimate's
   invoice comes to what the estimate came to. *)
SavedAsEntered ==
  part = "entry" =>
    Entry!SavedAsShown /\ Entry!DocumentsAddUp /\ Entry!CashIsSettled /\ Entry!ConversionKeepsRates

(* A sum is posted once, oldest document first, and not beyond what is due; the
   balance due on the page is that of the party's ledger. *)
PostedAsEntered ==
  part = "payments" =>
    /\ Payments!NotOverpaid /\ Payments!OldestFirst /\ Payments!RecordedOnce
    /\ Payments!BalanceDueInStep

(* One default bank account, the one that documents print, and settings that
   stay as they were typed and saved. *)
SettingsHold ==
  /\ part = "banks" => BankList!OneDefaultBank
  /\ part = "settings" => Settings!SettingsKept

(* Each block of a document stands whole on a page, the amounts above its total add
   up to it, and the words say the total. *)
PrintedAsSaved ==
  part = "print" =>
    Paper!BlocksStayWhole /\ Paper!PrintedAddsUp /\ Paper!WordsSayAmount

(* What an up-to-date row offers is accepted, lists reloaded undisturbed show the
   newest documents of the session's year as they are stored, and stale rows do no
   harm. *)
ListsOfferRightly ==
  part = "lists" =>
    Lists!OfferedIsAccepted /\ Lists!ListsFollow /\ Lists!StaleRowsAreHarmless

(* The save of a party changes what was typed.                                 *)
SavedAsTyped == [][part = "party" => PartyForm!SaveChangesTyped]_draftVars
=============================================================================
