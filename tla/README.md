# Books under concurrency: a TLA+ development of the accounting application

The repository is a multi-tenant accounting and GST-invoicing application: a
NestJS API over PostgreSQL (`apps/api`), a Next.js client (`apps/web`) and a
shared package. The API keeps double-entry books. Every document (invoice,
bill, note, estimate, receipt) posts a voucher, and reports are sums over
vouchers and documents. The hard part is not the arithmetic of one request. It
is that a handler reads, decides, and writes in a later transaction. The
database runs at READ COMMITTED, and two users of a company, or two clicks of
one user, may be in the same handler at once; and the client shows, and sends
back, what it loaded some time ago. These modules say what survives.

Contents: [parts of the system](#parts-of-the-system),
[how the code becomes a model](#how-the-code-becomes-a-model),
[modules](#modules), [runs](#runs), [bounds](#bounds), [fairness](#fairness),
[proofs](#proofs), [disagreements](#disagreements-between-code-and-text),
[what is not modelled](#what-is-not-modelled), [plan](#plan).

## Parts of the system

Paths are below `apps/api/src` unless they say otherwise.

| Part | State | Operations | What makes it correct | Modelled in |
|---|---|---|---|---|
| Posting (`accounting/accounting.service.ts`, `fiscal-year.util.ts`) | `voucher_counters` rows, one per company, series and fiscal year | upsert-and-increment inside the document's transaction; rollback | numbers follow commit order, no gaps, no deadlock between counter rows | `Posting` |
| Sales invoices (`invoices/invoices.service.ts`) | `invoices`, `payments`, `vouchers`, `voucher_lines` | create, recordPayment, update, cancel, remove | payments fit the balance; a cancelled or removed invoice is out of the books; ledger and documents agree | `SalesInvoice`, `Settlement` |
| Credit notes (`notes/notes.service.ts`) | `notes` | create, cancel | notes fit the invoice; a note has its voucher | `SalesInvoice`, `Settlement`, `GstReturns` |
| Purchase bills, debit notes (`purchases/`, `notes/`) | `purchase_bills`, `bill_payments`, `notes` | create, recordPayment, update, cancel, remove | as sales; what a vendor is said to be owed | `Purchases` |
| Estimates (`estimates/estimates.service.ts`) | `estimates` | create, update, setStatus, cancel, remove, convertToInvoice | one sale is in the books once; one invoice per estimate | `Estimates` |
| Vouchers and ledgers (`accounting/`) | `ledgers`, `vouchers` | createLedger, createVoucher, cancelVoucher, ledgerStatement, the freight ledger made on demand | balanced; a statement starts where the one before ended | `Ledgers` and the modules above |
| Party payments, parties (`parties/parties.service.ts`) | `party_payments`, `parties` | recordPartyPayment, deletePartyPayment, createParty, updateParty | money received stays in the books; a party and its ledger have one name | `Estimates`, `PartyAccount`, `Ledgers` |
| Party balances (`balances/party-balance.service.ts`) | none: sums | statement, outstandingDetail, outstandingByParty | agree with the ledger and with each other | `PartyAccount`, `Purchases` |
| Stock and batches (`inventory/`, lines of documents) | `item_batches`, `trackBatches` of an item; quantities are sums over lines | availability, upsertBatch, resolveForSale, stockReport | a sale fits its batch; the batches of an item hold its stock | `Stock` |
| GST calculator (`invoices/gst-calculator.ts`) | none | line and document totals | sides of the voucher balance; halves of the tax add up | `GstCalculator` |
| Reports and GST returns (`reports/`, `exports/gstr1-json.service.ts`) | none: several queries each | trial balance, profit and loss, balance sheet, GSTR-1, GSTR-3B | equal sides; the returns are what the books gained, and agree with each other | `Ledgers`, `GstReturns` |
| Sign-in and sessions (`auth/`) with the client's `apps/web/src/lib/api.ts` | `refresh_tokens`; the client's store and flag | login, refresh, logout, resetPassword; refresh-and-retry | a session stays in its year; a token is exchanged once; a client knows that it is signed in | `Sessions` |
| Bank accounts (`banks/`) | default flags, `Company.bank*` | create, update, setDefault, remove | one default, and the company prints it | `BankAccounts` |
| Companies (`companies/`) with the settings cards of the client | the company row, the map of layouts | update, setDocumentTemplate | what was typed and saved stays | `CompanySettings` |
| Entry form (`apps/web/.../_entry/doc-entry-form.tsx`) | a draft, a second request for cash | submit, retry, cash payment | what is saved is what was shown | `EntryForm` |
| Payment page (`apps/web/.../payment-page.tsx`) | two fetches, a loop of requests | load, allocate, submit | a sum is recorded once, oldest document first | `PaymentPage` |
| Parties tab (`apps/web/.../parties-tab.tsx`) | a draft completed by a fetch | edit, save | a save changes what was typed | `PartyDraft` |
| Lists (`page.tsx`, `invoices-tab.tsx`, `estimates-tab.tsx`, `purchases-tab.tsx`) | rows as last fetched | reload, pay, cancel, convert, delete | what a row offers is accepted; stale rows do no harm | `DocumentLists` |
| Print (`invoices/invoice-pdf.service.ts`, `invoice-template.ts`) | a page and a height | resolve the layout, draw | blocks stand whole; printed amounts add up | `DocumentPrint` |
| Mail, Redis, health, audit log, i18n | none, or a log | read, format, send | I/O | not modelled |

The parts interact in four ways. Services call each other
(`estimates.convertToInvoice` calls `invoices.create`, documents call
`postVoucherTx`, `estimates.cancel` calls `accounting.cancelVoucher`). They
share rows: a removal of an invoice deletes the vouchers of its payments and
notes and rewrites the estimate it came from, and foreign keys act behind
handlers' backs (`SET NULL` on notes and estimates, `RESTRICT` on payments).
`accounting.cancelVoucher` can take any document's voucher out of the books
without the document knowing. And the client computes from copies: the total of
a form, the open documents of a party, the fields of a settings card, the rows
of a list are all older than what the service then finds.

The behaviours that are hard to test, each at its line, are listed under
`hazards` in `PROJECT.json`. The recurring ones are: a check before the
transaction that is not repeated in it; a list of rows made before the
transaction that deletes them; a sequence of separately committed writes that a
crash or another request can cut in two; row locks taken in sequence; one sum
computed in two places; an answer that arrives after the screen has moved on.

## How the code becomes a model

*A step is what the database does at once.* A handler is split at its awaits
only where another request can change something that matters to it. A handler
that reads, checks and then runs one transaction becomes `XRead` and `XCommit`;
what `XRead` saw is kept in the request's record `req[r]`, and `XCommit` uses
that record for what the code keeps in variables and the current tables for
what the transaction reads again. A transaction gets a third step where READ
COMMITTED shows: the deletes of `invoices.update` and `invoices.remove` find
the rows of their moment, the statements after them see what has been committed
since. A handler that awaits several transactions (`estimates.convertToInvoice`,
`estimates.cancel`, `auth.refresh`) has a step for each, and `Abandon` or `Lose`
may end it in between: a refusal, a lost connection, a timeout or a crash.
`Abandon` before a transaction ends is its rollback.

*Row locks* are guards. A counter row is held until its transaction ends
(`holder` in `Posting`). `SELECT ... FOR UPDATE` in `recordPayment` makes its
check and insert one step; a row that an open transaction has updated or
deleted blocks other writers (`BeingDeleted`, `Locked`, `Holds`). The foreign
keys that act by themselves are part of the delete that triggers them:
`Detached` and the `RESTRICT` conjunct of `RemoveCommit`, the last branch of
`InvoiceDelete`.

*The client* is its React state: what a fetch returned, what was typed, what is
under way. A fetch or a save is a request step and an answer step; answers of
overlapping requests arrive in any order, and none is aborted by moving on
(the code has no abort controllers). A failing request takes the `catch` branch
of the code and no other.

*Coarser where another module is finer.* `PartyAccount`, `GstReturns`,
`EntryForm`, `PaymentPage` and `DocumentLists` run each service handler as one
step: the races inside a handler are the subject of `SalesInvoice`, `Purchases`,
`Estimates` and `Posting`. Each of them says so in its header.

*Data.* Amounts are small integers standing for rupees, except in the modules
about arithmetic (`GstCalculator`, `EntryForm`, `GstReturns`, `DocumentPrint`),
where they are paise and every rounding of the code is there. A voucher's
lines are abstracted to one line per posting with the party and the amount it
moves, where the other side carries the same amount. A voucher deleted by a
removal stays in the sequence with status `GONE`, so that its number is its
identity. Dates are pairs of year and month, or days, or months, as the module
needs.

*Floating point.* `round2` works on binary doubles. On the sums the code makes,
the only place where a binary half decides is half of an odd number of paise
(`round2(tax / 2)`): from 29 paise on it may fall either way, which is the
parameter `short` of `CgstOf`, chosen freely for each document. The comment
above that line says that the odd paisa goes to SGST; in the code it goes to
CGST mostly. `DocumentsAddUp` holds either way.

*History variables* state the premises of properties: `crossed` and `plain` in
`Stock`, `disturbed` and `voided` in `Estimates`, `calm` and `failed` in `Sessions`,
`calm` in `Ledgers` and `DocumentLists`, `plain` in `BankAccounts`, `lost` and `meant` in
`CompanySettings`, `odd` and `fresh` in `PaymentPage`, `sound` in `PartyDraft`.
None of them guards an action. Each names in its comment what has to have gone
wrong for the property to be void, and the action that makes it so is in the
model, so that the property says exactly where the code stops keeping its word.

*Broken variants.* Beside some actions stands a definition named
`Action_WhatIsWrong`, introduced by "Broken variant". No specification uses it.
It is the action with a plausible bug, for which a property of the module is
violated; this shows that the property depends on the code and not on the shape
of the model. A property made of several conjuncts has one for each that is
about something else.


## Modules

| Module | Models | Checked by |
|---|---|---|
| `Posting` | counter rows, their locks, the transactions that draw from them, the open year | `MCPosting`, `PostingProofs` |
| `SalesInvoice` | one table each of invoices, payments, credit notes, vouchers, and every handler on them | `MCSalesInvoice`, `MCBooks`, `SalesInvoiceProofs` |
| `Settlement` | the abstract account of an invoice: total, paid, noted, status, each operation atomic | `MCBooks` and `SalesInvoiceProofs`, as `SalesInvoice`'s instance `Account` |
| `Purchases` | bills, vendor payments and debit notes: `SalesInvoice`'s handlers on the tables of the other side, and the vendor's balances | `MCBooks`, `BooksProofs`; the handlers by `SalesInvoiceProofs` |
| `Estimates` | estimates, their conversions, their vouchers as bills, their advances | `MCEstimates`, `EstimatesProofs` |
| `Stock` | the lines of bills, invoices and notes, batches, and what is on hand | `MCStock`, `StockProofs` |
| `PartyAccount` | one customer's account over invoices, estimates, notes and all kinds of receipts, and every display of what is owed | `MCBooks`, `BooksProofs` |
| `Ledgers` | the chart of accounts, vouchers, the reports and the queries they are made of | `MCBooks`, `LedgersProofs` |
| `GstReturns` | invoices and credit notes with their tax, the vouchers they post, GSTR-1, GSTR-3B | `MCBooks`, `BooksProofs` |
| `GstCalculator` | the arithmetic of a document, as operators | the modules that use it, `DeskProofs`, `BooksProofs` |
| `EntryForm` | the form for invoices and estimates, the service that saves, cash, conversion | `MCEntryForm`, `MCDesk` (drafts in `MCDrafts`), `DeskProofs` |
| `PaymentPage` | the page that splits a receipt over documents | `MCDesk`, `DeskProofs` |
| `Sessions` | token pairs, the client's store, the refresh-and-retry of calls | `MCDesk`, `DeskProofs` |
| `BankAccounts` | the default account | `MCDesk`, `DeskProofs` |
| `CompanySettings` | the settings cards and the company row | `MCDesk`, `DeskProofs` |
| `PartyDraft` | the party form | `MCDesk`, `DeskProofs` |
| `DocumentLists` | lists, what rows offer, what services accept | `MCDesk`, `DeskProofs` |
| `DocumentPrint` | layout resolution, page breaks, printed sums, amounts in words | `MCDesk`, `DeskProofs` |
| `Books` | `SalesInvoice`, `Purchases`, `PartyAccount`, `Ledgers` (twice) and `GstReturns` beside each other, one of them moving in each behaviour | `MCBooks`, `BooksProofs` |
| `Desk` | `Sessions` and the seven parts of the client, in the same way | `MCDesk`, `DeskProofs` |
| `SumLemmas` | nothing of the code: what adding, splitting, regrouping and exchanging finite sums does | proved there, cited by the proof modules |

Modules whose names begin with `MC` hold values for the constants of a run, and
nothing that a run checks: what is checked and what is proved are the same
definitions of the same modules.

### Posting

`Begin` is what precedes the transaction, with the one comparison of years
(`YearAccepted`, only for invoices made at the invoice endpoint). `Draw` is one
`voucherCounter.upsert`: it waits for the row, locks it and takes its number.
`Commit` is the end of the transaction: numbers and document become visible
together. `Rollback` leaves the counters as they were. `SeriesOf` names the
rows each kind of document draws, in the order of its transaction: an invoice
draws its sales voucher number and then the invoice number, a booked estimate
the estimate number and then the sales number. That all orders together have no
cycle is what `NoDeadlock` is about. `Remove` and `Redate` are the two things
done to a committed document that numbering must survive.

### SalesInvoice and Settlement

`Create`, `PayRead/PayCommit`, `NoteRead/NoteCommit`, `NoteCancel`,
`CancelRead/CancelCommit`, `EditRead/EditDelete/EditCommit`,
`RemoveRead/RemoveDelete/RemoveCommit` and `VoucherCancel` are the handlers of
`invoices.service.ts`, `notes.service.ts` and `accounting.cancelVoucher`.
`Lines(rev, ...)` marks a voucher's lines with the revision that wrote them, so
that the lines of two edits are told apart.

`Settlement` says what the same operations promise to a reader of the account
who sees no interleaving. `SalesInvoice` defines
`Account == INSTANCE Settlement WITH ...`, mapping `paid` and `noted` to the
sums over the tables; `Settles` is the claim that every step of the service,
one request at a time, is a step of the account or a stutter, and `WithinTotal`
and `PaidOutOfBalance` are the account's promises said of the service. None of
the three holds of concurrent requests: the cap on notes and the emptiness check of `cancel`
are not repeated in their transactions. Both are listed as hazards; two notes that
together exceed their invoice are a behaviour of the model, and were met by
checking it with notes alone for `Noted(i) <= invoice[i].total`.

### Purchases

`purchases.service.ts` repeats `invoices.service.ts` call for call: the same
checks before the transaction, the same `FOR UPDATE`, the same deletes, the same
foreign keys (`RESTRICT` on `bill_payments`, `SET NULL` on notes). `Side` is
therefore `SalesInvoice` on `bill`, `debitNotes` and the voucher types of this
side, which are constants there, and each action of `Purchases` is the handler
of that name. The two calls that only sales make, the comparison
of years and the reverting of an estimate, are not part of that module
(`Posting` and `Estimates` have them). What is different is
`party-balance.service.ts`: an invoice's balance deducts its credit notes, a
bill's does not deduct its debit notes (`VendorBalance`), and the list of
parties stops each document at zero (`ListedBalance`). `PayableTies` says by
exactly how much the ledger and the vendor's balance are then apart.

### Estimates

An estimate is plain, or booked as a bill when it is created (the company's
`salesPaymentLink` is `estimate`); a booked one has a voucher and cannot be
converted. The history variable `disturbed` collects the estimates that two
requests handled at a time, that a request lost midway left half written
(`Abandon` between the two writes of a cancellation or a conversion), or whose
voucher was cancelled under them. The first group of properties holds of all
estimates; `InBooksUntilCancelled` and `ConvertedOnce` hold of an estimate that
is *settled*: stored, undisturbed, no request in flight on it. The code makes
no such promise beyond that, and `OneInvoicePerEstimate` shows it: the sale that a
crash leaves in the books after a cancellation, the second invoice after one in a
conversion, and a status overwritten in a race are in the model, and exempt there.

What an estimate bills (`Contents`) is its lines, with the rates of tax stored on
them, and whether it has freight or other charges. A conversion hands the lines to
`invoices.create`, each with its stored rate, and no charges (`TakenOver`), so that
an estimate with charges and its invoice come to different totals; `ConvertedOnce`
says that the invoice is for exactly what is handed over, and `EntryForm` does the
arithmetic. Only lines that carry tax, of items that track no batches, are
`Convertible`. `AdvancesStayInBooks` ties each receipt to its advance: active
exactly as long as the advance is on record, unless the accounting endpoint has
cancelled it by itself (`voided`), which leaves the advance on record.

### Stock

Quantities are in no table. `Availability` is `batches.availability`, `Moved`
the on-hand column of `stockReport` less the opening stock: both sum the lines
of issued bills, invoices and notes, one by batch and one by item. Documents
here are their lines; payments and amounts are left out, since they only refuse
requests. `BillRead` includes `upsertBatch` (`Upserted`), which commits before
the bill's transaction and stays if the bill is refused. `SaleRead` compares
each line with the whole of its batch (`ResolvedForSale`), and nothing compares
again at `CreateCommit`. `NoteRead` stores lines without a batch. `EditRead` has
the two guards that keep an edit from items that track batches; `TrackBatches`
is `updateItem` switching the flag under them.

### PartyAccount

One customer with documents of both kinds. The ledger follows the vouchers: an
invoice debits it, a booked estimate does, receipts and notes credit it, a
declined booked estimate stays in it (`SetStatus` posts nothing), a conversion
posts the invoice without the estimate's charges. The balance follows the
documents of one type (`DocType`: the party's own, or the company's link), read
in three ways: the statement, the open documents, and the list with its clamp at
zero per document. `LedgerExplained` is the whole difference between the two
worlds, term by term; `StatementIsLedger` the condition under which a customer
sees one figure (`OneTypeOnly`); `DisplaysAgree` where the three displays and
the dashboard may differ.

### Ledgers

A ledger is made in two steps wherever the code looks a name up and inserts
afterwards (form, party, bank, freight), and the unique index refuses the
second of two. A freight posting keeps the id of the ledger it found and posts
to that, whatever the ledger is called by then. A report is two or three queries at READ COMMITTED with any other
request in between; `ReportLedgers`, `ReportSums` and `ReportOpenings` are those
queries and `Disturb` marks a report as crossed when a ledger is inserted between
them. `ReportsTie` shows that vouchers posted and cancelled in between do no
harm, because each voucher enters the sums whole, and that the line for the
difference of openings makes up for openings that were entered without a contra.
`PeriodsChain` relates statements and profits of consecutive periods, each
computed by its own query. `RenameCommit` compares the new name with the one
that `RenameRead` saw, which is why of two renamings that overtook each other
one may leave the ledger behind (`raced`).

### GstCalculator, EntryForm

`LineOf` and `Calculated` are `calculateInvoice`; `SalesVoucher` the lines
`buildSalesVoucherLines` makes of the result and `Balanced` the check that would
refuse them. `Preview` is the form's own sum, which rounds nothing until the
rupee. `EntryForm` runs both: a draft is filled and sent, the service resolves
it against the items as they are by then (their GST rates move under
`ItemChanges`), a cash sale is paid by a second request with the form's total,
whose failure is swallowed (`LoseCash`), a failed submission may have been saved
and is sent again, and an estimate is converted: computed anew from its stored
lines, at the rates they have, and without its charges.

### GstReturns

Documents are chosen from bills that `GstCalculator` computed, within the state
and across its border. `Outward` is GSTR-3B; `B2b`, `B2cl`, `Small` (B2CS by place
and rate), `Cdnr` and `SmallNotes` are the sections of the JSON, by their own
tests; `HsnRow` its HSN table; `ReportB2b`, `ReportB2c`, `ReportHsn`,
`ReportNotes` and `ReportTotals` the GSTR-1 report on the screen. Customers
register (`Register`) after they bought, which moves their sales from one section
to another. `ReturnTiesBooks` compares 3B with the vouchers, `SectionsTieReturn`
and `TablesTieReturn` the rest with 3B.

### Sessions

`Serve` denies a call whose access token has run out; `Refresh` presents what is
in the store; `RefreshRead`, `RefreshRevoke` and `RefreshIssue` are the three
awaited statements of `auth.refresh`, which no transaction holds together;
`RefreshAnswer` stores the pair and sends the call once more. Cookies and native
storage differ where the code differs: who keeps the pair when a refresh is
refused or a sign-out gets no answer. Any answer to an exchange that is not ok drops
the client's flag, and in a native shell the pair (`Dropped`): a token that is not
live (`RefreshRefused`), and an error of the throttler, the proxy or the server,
before the token was looked at, between two statements or after the last
(`RefreshFailed`, which the history variable `failed` records). Only a fetch that
throws leaves both (`Lose`). `SessionKeepsYear` holds of any interleaving and is
proved. The rest holds while exchanges, sign-ins and resets do not overlap (`calm`),
and `SessionIsKnown` as long as no exchange was answered with an error either; the
model has overlaps and errors, and without `calm` each of those properties is
violated: of two calls that exchange one pair at a time, the second may be refused
after the first has put a live pair in the store, and drops the flag.

### PaymentPage

Two fetches of a party, not aborted when another is picked, each answered in any
order or failing; a split over documents and account made on what was loaded; a
loop of requests that stops at the first failure and leaves the earlier ones
recorded. `NotOverpaid`, `OldestFirst`, `RecordedOnce` and `BalanceDueInStep` are
the four things its comments claim, each with the circumstance under which the
code cannot keep it.

### BankAccounts, CompanySettings, PartyDraft

`BankAccounts` has the statements of each transaction, because setDefault,
create and remove see at READ COMMITTED what was committed when each statement
began, and two of them take row locks in turn. `CompanySettings` has cards that
load, are typed over and send all their fields; a layout card saves twice (the
logo, then its layout), and the map of layouts is read and written back.
`PartyDraft` has the fetch that completes an open draft.

### DocumentPrint, DocumentLists

`DocumentPrint` draws a document block by block: a block is drawn where the points
it `need`s are left above the bottom of the page less its `slack`, moves the cursor
by what it `take`s, which is often less, and prints an amount. Each template has its
own rule for turning the page (`rowBreak`, `ensureSpace`, the 200 points kept for
totals). `BlocksStayWhole` excepts what is taller than a page (a row under a long
description, a tax table of many codes, long notes), and the gap of four points
the code adds under the tax in words without asking for it. `Columns` and `Cell` are
the columns a template shows, `HsnRow` the tax table, `AmountInWords` the words, as
parts of a number and a unit: both spellings have names up to a limit (a hundred
crores, a thousand billions), above which `WordsSayAmount` claims nothing. `DocumentLists` has rows
as last fetched and the guards of the services side by side: `Offered...` is what
the three tabs show, `Accepts` what the services and the role guard let pass, and
`Unseen` the conditions the rows do not show, each a place where the client
offers what the service refuses. A list answers the documents of the session's
financial year, by date and then by creation, `Take` of them at most (200 in the
code): `Rows`. A conversion enters an invoice of `Today`, which a session of another
year does not list. `ListsFollow` says that a list reloaded undisturbed shows the
newest `Take` documents of its year, as they are stored. What the list of a member of
one branch leaves out (`branchScope`) is not modelled, and all documents come to one
`Total`.

## Runs

Six runs pass. Two of them, `books` and `desk`, hold several components each,
composed by the modules `Books` and `Desk`: a variable `part` is chosen at the
start, every step is one of that component, and the variables of the others keep
their initial values. Such a run explores the union of the components' state
spaces, not their product, and its properties are those of the parts, guarded by
`part = "..."` unless they hold of the initial values anyway.

| Run | Question | Properties |
|---|---|---|
| `posting_books` | Two requests post invoices, conversions and booked estimates dated before and after 1 April, roll back, remove and redate. Are numbers ordered and dense, can postings block each other for ever, does each end? | `TypeOK`, `InCommitOrder`, `NoGaps`, `NoDeadlock`, `EveryPostingEnds` (liveness) |
| `sales_races` | Two requests run every handler on one invoice. What survives any interleaving? | `TypeOK`, `CancelledIsOutOfBooks`, `DocumentsKeepTheirVoucher`, `PaymentWithinBalance`, `StatusOnlyMovesForward` (action properties) |
| `estimates_lifecycle` | Two requests and crashes on an estimate, plain and booked, its invoices, its advances. | `TypeOK`, `BookedIsFinal`, `LinksAreSound`, `RemovedLeavesNoSale`, `AdvancesStayInBooks`, `InBooksUntilCancelled`, `ConvertedOnce` |
| `stock` | Two requests on one item whose tracking is switched on and off. Does an overtaken check explain every oversale, and do the batches hold the stock? | `TypeOK`, `BatchesMissOnlyReturns`, `SaleFitsBatch` (action property) |
| `books` | Do the sums that are computed in two places agree? | see below |
| `desk` | Is what was typed, saved and shown the same, when loads overlap and requests fail? | see below |

The properties of `books`, with the definitions they are made of:

| Property | Part | What it says |
|---|---|---|
| `BooksTypeOK` | all | the type invariant of the component that moves |
| `BooksTie` | sales | between requests a customer's ledger is the balance of his documents |
| `Settles` | sales | the service, one request at a time, implements `Settlement` (refinement) |
| `WithinTotal`, `PaidOutOfBalance` | sales | payments and notes fit the total; no payment is taken of what has been returned |
| `LedgersExplained` | purchases, party | `PayableTies`: a vendor's ledger is the balance less the returns; `LedgerExplained`, `StatementIsLedger`: a customer's, over both kinds of documents, advances, receipts on account and declined estimates |
| `BalancesAgree` | purchases, party | `ListTiesStatement`, `DisplaysAgree`: list, open documents and statement agree, and the dashboard's receivables stay within its sales |
| `ReportsTie` | reports | trial balance and balance sheet have equal sides, unless a ledger was inserted between two queries of a report |
| `PeriodsChain` | reports, names | statements of consecutive periods connect, and their profits add up |
| `Lockstep` | names | a party and its ledger have one name, unless two renamings overlapped |
| `ReturnTiesBooks` | gst | GSTR-3B is what the vouchers of the month posted (`ReturnTiesBooks`), the sections of GSTR-1 add up to it (`SectionsTieReturn`), and so do its tables on screen and in the JSON (`TablesTieReturn`) |

The properties of `desk`:

| Property | Part | What it says |
|---|---|---|
| `DeskTypeOK` | all | the type invariant of the part that moves |
| `SavedAsEntered` | entry | `SavedAsShown`, `DocumentsAddUp`, `CashIsSettled`, `ConversionKeepsRates` |
| `SessionKeepsYear` | session | a session stays in the year it was opened in |
| `CalmSession` | session | `HeldInChosenYear`, `OneLivePair`, `ResetEndsSessions`, `SessionIsKnown` |
| `PostedAsEntered` | payments | `NotOverpaid`, `OldestFirst`, `RecordedOnce`, `BalanceDueInStep` |
| `SettingsHold` | banks, settings | `OneDefaultBank`, `SettingsKept` |
| `SavedAsTyped` | party | saving a party changes the fields that were typed and no other |
| `PrintedAsSaved` | print | `BlocksStayWhole`, `PrintedAddsUp`, `WordsSayAmount` |
| `ListsOfferRightly` | lists | `OfferedIsAccepted`, `ListsFollow`, `StaleRowsAreHarmless` |

Six runs end in a counterexample, each the evidence of a
[disagreement](#disagreements-between-code-and-text): `posting_openyear`
(`PostedInOpenYear`), `sales_edit_twice` (`VoucherStatesInvoice`),
`sales_remove_orphan` (`NoOrphanVouchers`),
`estimates_double_conversion` (`OneInvoicePerEstimate`), `stock_returns`
(`BatchesHoldStock`), `entry_cash` (`CashRecordsFullPayment`).

To repeat one: `tlc -config MCPosting_books.cfg MCPosting`; `books` and `desk`
take a few minutes each. `CHECK_DEADLOCK` is off everywhere because the
bounds below end every behaviour; `NoDeadlock` and `EveryPostingEnds` say what a
deadlock check would have said of the row locks.

## Bounds

Every bound is a guard with a constant's name.

- `Requests`: two wherever requests race. Every hazard listed is a race of two
  handlers, and the first `Abandon` frees a request to begin again, so a
  behaviour has more requests than identities. Three requests matter only to
  the circle of row locks; the proof of `PostingsNeverDeadlock` covers any number.
- Posting, `MaxDocs = 3`: two documents that share a series and a third that
  comes after a rollback or a removal. Two dates on both sides of the start of
  the fiscal year give two rows per series. `Kinds` are the three that draw
  from two series and share them; the others take a prefix or disjoint rows, and
  the proofs are for all of them.
- `sales_races`: one invoice (no handler reads another), two rupees (a payment
  or a note that fits alone and not with another), `MaxVouchers = 4` (the
  invoice's own and three documents'), `MaxEdits = 2` (an edit over an edit). Part
  `sales` of `books` trades the second request for a second customer and a
  fifth voucher, since `BooksTie`, `Settles`, `WithinTotal` and
  `PaidOutOfBalance` are about requests served one at a time; its `Ops` leave out
  `cancelVoucher`, which takes a voucher out of the books under its document.
- Part `purchases`: one request, one bill, which an edit may move from one vendor
  to the other, and four vouchers, any of which may be cancelled.
- Part `party`: two documents of one customer, each of either kind, totals and
  receipts of up to two rupees: an invoice, and an estimate that is booked,
  declined or converted, with receipts on both and on account.
- Parts `reports` and `names`: two requests, three ledgers beyond the chart, one
  voucher of two rupees for the reports (two over two days for the names), so
  that an insertion falls between any two queries of a report and two renamings
  overlap.
- Part `gst`: an invoice that is edited between two months and two notes against
  it, two parties of which one is across the border, three bills: two lines of one
  rate of which one has no code, a line of double quantity, two rates with a
  total above the threshold for large sales.
- `stock`: one item, one batch number, documents of one or two lines of one unit,
  three documents ever. A bill of two units, a sale and a return, or a bill and
  two sales meet; the second sale and the second line are where a check made
  line by line and before the transaction matters. A request begins a document
  only while one of `Docs` is left for it (`BeginCreate`), which bounds what is
  in flight and not what it may do.
- `estimates_lifecycle`: one estimate, two vouchers (its own as a bill and an
  advance, or two advances), two invoices (a double conversion), lines of two
  kinds, one taxed and one that no conversion takes, with and without charges.
- Part `entry`: two drafts whose amounts are at the roundings (a discounted line
  of 1.5 units at 39.99, a half rupee, freight), within the state and across it,
  an item whose rate moves once, each submission sent up to twice.
- Part `session`: two calls, two years, three pairs ever issued: two overlapping
  exchanges of one pair, or an exchange that overlaps a sign-in.
- Part `payments`: two parties, two documents, of the first of them, one load of
  each kind at a time, two postings. Part `banks`: two requests, three
  accounts, five requests served. Part `settings`: two cards, two kinds of
  documents, two saves. Part `party` of `desk`: two parties, two openings of the
  form, a change by somebody else. Part `lists`: two documents, two calls in
  flight, users of two roles in two financial years, a list that takes one document
  of a kind, so that a second one of its year is cut off, a change by somebody else.
- Part `print`: three documents (odd tax halves; across the border; nine lines of
  notes), seven layouts, heights and starts of blocks around the bottom of both
  papers, and the amounts at which the words change.

Symmetry is used over requests and documents that no definition orders.

## Fairness

Safety runs use `Spec`, without fairness. `EveryPostingEnds` is checked under
`FairSpec`: strong fairness of `Draw` and weak fairness of `Commit`, per
request. It rests on the database: an open transaction whose handler does
nothing but await its queries runs on, and PostgreSQL queues the waiters of a
row lock and grants it to them in turn, so that one which is grantable again
and again is granted in the end. Weak fairness would not do: another request
may take and release the row for ever. Nothing is assumed of clients
(`Begin`, `Remove`, `Redate`) or of failures (`Rollback`). The premises hold in
every infinite behaviour, because `MaxDocs` bounds commits and not attempts:
`Rollback` and `Begin` may alternate for ever and the other request must still
come through.

## Proofs

`tlapm M.tla` checks every obligation of `PostingProofs`, `SalesInvoiceProofs`,
`EstimatesProofs`, `StockProofs`, `LedgersProofs`, `BooksProofs`, `DeskProofs`
and `SumLemmas`. Every invariant a passing run checks is a theorem, and so is
every action property; what is left to TLC is liveness.

The theorems hold for every value of the constants that satisfies what the
modules assume, each assumption named in the module that declares the constants
and evaluated by TLC on the instances:

- `Posting`, `SalesInvoice`, `Estimates`, `Stock`: kinds are kinds the code has,
  dates are dates, bounds are numbers, `None` is none of the identities, the
  tables of `Stock` are finite.
- `LedgersAssumption` of `Books`: `ConstantsOK` of `PartyAccount` (finitely many
  documents, amounts are integers) and of both instances of `Ledgers` (a form
  says which side a ledger is on). It is an operator there, because those
  modules are also instantiated; their theorems have it as a hypothesis.
- `SidesAssumption` of `Books`: finite tables, and bounds that are numbers.

One hypothesis is not about constants that are free to choose. `OneAtATime`, in
`SalesInvoiceProofs` and in `Books`, says that requests on an invoice or a bill are
served one at a time, and **nothing in the code sees to that**. It is written out in
the statement of each theorem that needs it: the `OneAtATime...` theorems of
`SalesInvoiceProofs`, and `BooksStayTied`, `BooksSettle`, `BooksWithinTotal`,
`BooksPayOutOfBalance`, `LedgersStayExplained` and `BalancesStayAgreed` of
`BooksProofs`. They say that a handler by itself is right; that two of them
together are not is what `sales_edit_twice` and `sales_remove_orphan` show. What any number of requests may do is the subject of the
other theorems of `SalesInvoiceProofs`, which have no such hypothesis. The sales of
`Books` are also without `cancelVoucher` on its own (`SaleOps`), after which no
customer's ledger and documents would agree.

The assumptions go on:

- `GstAssumption`: a draft is a sequence of items of natural quantities, rates
  and tax rates, with a discount of 0 to 100 percent; documents are finite.
- `PaperAssumption` of `Desk`: the documents printed are as the service saves them
  (`Saved`: parts of a line are natural numbers that add up to its total, tax on one
  side of the border, and the bill is what the calculator makes of the lines), and
  heights, tops and amounts to spell are natural numbers. `LinesArePrintable` proves
  that every line the calculator makes satisfies it.
- `EntryAssumption` of `Desk`: a draft is a sequence of lines as the form holds
  them, and the tax rates are whole percents up to 28. The DTOs accept
  `GST_RATES`, 0, 0.25, 3, 5, 12, 18 and 28 (`apps/api/src/common/validation.ts:9`);
  the quarter percent is not modelled. `PageAssumption`, `BanksAssumption`,
  `SettingsAssumption`, `DraftAssumption` and `ListAssumption` say that amounts
  and bounds are numbers, that bank accounts are in order of age and that names
  standing for different things are different.

Nowhere is the number of requests, documents, lines, vouchers, parties, ledgers,
cards or calls bounded by anything but the `Max...` constants, which may be any
number.

**Sums** (`SumLemmas`). Most of what the books promise is about sums over
tables, `SumFunctionOnSet` of the community modules, a fold that takes the
elements in an order `CHOOSE` fixes. `FoldExists` and `FoldUnique` show that the
recursive definition has one solution, and `SumRemove` that any element may be
taken out first; from there come adding an element (`SumAdd`), changing one
(`SumChange`), sums of subsets, pointwise sums, regrouping by a key
(`SumGrouped`), renaming (`SumRenamed`) and exchanging the order of two sums
(`SumSwap`). `SumWithin` and `SumAtMost` bound a sum by bounds on its terms,
`SumWeighted` takes a factor out. `SumOfRows` is a table: lines of documents, each
with a key and a figure, add up to the same whether summed document by document
or row by row, and `RowsWithin` bounds what the rows are off by what the lines
are. What would be an induction on the size of the set is an argument by
its least counterexample, because the library's induction theorems take an
operator as a parameter.

**Numbering** (`PostingProofs`): `TypeCorrect`, `NumbersInCommitOrder`,
`NumbersHaveNoGaps`, `PostingsNeverDeadlock`. `InCommitOrder` is not inductive:
that the next commit's numbers exceed all earlier ones is known only while they
are drawn. The inductive invariant adds
`Held` (an open posting holds the rows of the numbers it has drawn, and each
is the row's committed value), `HoldersOpen` (a row is held only by an open
posting that has drawn from it), and `Below` (committed numbers lie below their
counter). A commit then appends numbers equal to the counters, above all
earlier ones, and advances exactly those counters, which is also why there are
no gaps. The deadlock theorem rests on a fact about the table
of series: a posting takes at most two rows, and waits while holding one only
for its second. A booked estimate may so wait for the sales row held by an
invoice, which waits for the invoice row; but by `NoChainOfThree` nothing goes
on from there, while a set of postings that all wait on each other would have a
chain of any length.

**Sales invoices, any interleaving** (`SalesInvoiceProofs`): `TypeCorrect`,
`CancelledStaysOutOfBooks`, `VouchersOutliveNoDocument`, `StatusIsFinal`,
`PaymentsWithinBalance`, `CountedStaysInBooks`. The
strengthening is `Owned` (a voucher belongs to one invoice, or to the payments
and notes of one invoice) and `Planned` (while its invoice lives, only the
invoice and its documents stand on the vouchers a removal has listed, and once
the deletes have run, only documents they saw). Without `Planned` a removal in
flight might delete the voucher of a document its deletes did not find; without
`Owned` a voucher it deletes might be another invoice's. `StatusIsFinal` is an
action property proved from the shape of the actions and the invariant.
`PaymentsWithinBalance` adds that the tables stay finite (`Countable`), so that
the new payment's amount is the difference of two sums: the lock on the invoice
is what makes the balance read that of the commit. `CountedStaysInBooks` says
that no interleaving takes down the voucher of an issued invoice, a payment or
an issued note, as long as nobody cancels a voucher by itself; what goes wrong
between two requests leaves too much in the books, never too little.

**Sales invoices, one at a time**: `OneAtATimeSettles`, `OneAtATimeWithinTotal`,
`OneAtATimePaysOutOfBalance`, `OneAtATimeTies`, `OneAtATimeLeavesNoOrphan`. Here
the invariant is joined by `CalmInv`: what the request has read is still so
(`AllSeen`), only an issued invoice is settled, the voucher of whatever counts
states its party and amount in one line (`InvoicesStated`, `CountedStated`),
an active voucher is of something that counts (`NoOrphans`) and of one document
(`VouchersApart`). `OneAtATimeSettles` is the refinement: the empty books are an
empty account (`InitAccount`), and `AccountStep` maps each handler's last step to
the operation of `Settlement` of that name and all its other steps to a stutter.
The promises of the account are inductive on the abstract side (`AccountSound`)
and carry over. `OneAtATimeTies` compares the ledger, a sum over vouchers, with
the documents, a sum over invoices, payments and notes: vouchers and what counts
are in bijection (`VouchersInBooks`), so that the sums are renamings of each
other. `OneAtATimeLeavesNoOrphan` is the comment of `remove` in the case in which
it is true; `sales_remove_orphan` shows the other one.

The voucher types and the tables are parameters of the module, so that these
theorems are about bills too: the instance `Side` of `Purchases` is of the module
of proofs. Two theorems are there for that side. `OneAtATimeTiesInStep` is
`OneAtATimeTies` with the call that cancels a voucher by itself: as long as every
document's voucher is active, ledger and documents agree, whatever was
cancelled before. `OneAtATimeClipsNothing` says that no document is paid beyond
its total, so that a list which stops each at zero stops none.

**Estimates** (`EstimatesProofs`): `TypeCorrect`, `BookedStaysFinal`,
`LinksStaySound`, `RemovedLeavesNoSaleEver`, `AdvancesStay`,
`BookedTillCancelled`, `OneInvoiceWhenCalm`. `IInv` adds to the invariants of the
run `Origins` (an invoice's estimate was created), `SalesApart` (a sales voucher
is of one estimate) and `ReadingsSound` (of what a handler has read, that which
nothing can change meanwhile: an estimate's voucher, that a plain one stays
plain, the rows a deletion has reverted). `Receipts` joins the two properties
about vouchers, which need each other: a removal counts advances before it
deletes. For the last two theorems `Turns` says of an undisturbed estimate that
at most one request is on it and `Follows` what estimate, voucher and invoices
have in common while it is, which is everything but the one half that request
has yet to write. An estimate leaves `Turns` only by the actions that put it in
`disturbed`.

**Stock** (`StockProofs`): `TypeCorrect`, `BatchOnEveryLine`, `BatchesHoldTheRest`,
`SalesFitBatches`. `IInv` says that stored lines, and those a request is about to
store, are of batches that exist; `Fits` that a line without a batch is a note's
or of an item that has at some time not tracked them (`plain`), whatever
`TrackBatches` does between reading and commit. `BatchesHoldTheRest` then regroups
the lines of all documents by batch (`SumGrouped`, `SumSwap`): what the batches
miss is what the notes moved. `SalesResolved` is what a sale has read as long as
no commit has put it in `crossed`; `SaleStep` that its lines, being of different
batches, each take from what is there.

**A customer's account** (`BooksProofs`): `TypeCorrect`, `LedgerStaysExplained`,
`DisplaysStayInStep`, `StatementStaysLedger`. Each document
has a `Share` in the ledger, and the ledger is the opening balance with all
shares, less receipts on account (`Explained`). Ten operations change one row and
the ledger by the change of its share (`OneRow`); `Convert` and `RemoveInvoice`
change two, an estimate and its invoice, tied to each other by `Converted`.
The displays are then sums over parts of the table, and the theorems say which
parts and by which terms they differ.

**Ledgers and reports** (`LedgersProofs`): `TypeCorrect`, `NamesStayInLockstep`,
`ReportsStayTied`, `PeriodsStayChained`. That trial balance and balance sheet have
equal sides is double entry: each voucher's lines cancel out over the ledgers
(`VoucherCancels`), so by exchanging the sums all movements do
(`MovementsCancel`). `Snapshot` says what a report that no ledger was inserted
beside holds after each of its queries; vouchers posted between two of them do
not matter, because each sum by itself cancels out. `MovementSplit` divides what a
ledger moved at a date, from which `PeriodsStayChained` follows. `Lockstep`
needs that no two parties have one ledger and that of two overlapping renamings
each marks the other (`raced`).

**The books together** (`BooksProofs`): `BooksTypeCorrect`, `BooksStayTied`,
`BooksSettle`, `BooksWithinTotal`, `BooksPayOutOfBalance`, `LedgersStayExplained`,
`BalancesStayAgreed`, `BooksReportsTie`, `BooksPeriodsChain`, `BooksLockstep`,
`BooksReturnsTie`: each states what the run `books` checks, of the same
definition. Those about ties, settling, totals, payments, explained ledgers and
agreed balances are under the hypothesis `OneAtATime`, stated in the theorem,
which the code does not ensure: they say what serial requests do. `Books`
instantiates the modules of proofs, so that the theorems of each component are
facts about it here, once its constants are shown to satisfy the hypotheses. `SalesBehave`, `BillsBehave`, `PartyBehaves`, `ReportsBehave` and
`RenamedBehave` say that a behaviour of `BooksSpec` with that part is one of the
component's specification, and `OthersStay` that the rest has not moved. The
vendors' halves follow from the theorems about `Side`: `BillBalances` takes the
vendor's balance to its sums, less the returns.

**GST returns** (`BooksProofs`): `BooksReturnsTie`. `GstInv` is what the three
properties rest on: every document on record is one of the bills, and has a
voucher of its month and its figures, active as long as it is issued. Then
- `ReturnIsBooks`: the active vouchers of a month are the documents that count
  for it, so that GSTR-3B is what the tax ledgers gained.
- `TablesAreReturn`: the tables of the report and of the JSON cut the lines of
  the month by customer, by code, and by code and rate; by `SumOfRows` each
  adds up to the documents. The tables of the JSON miss what has no code.
- `SectionsAreReturn`: every sale and every note is in one section
  (`OneSection`); rows of B2CS whose value nets to nothing are left out of the JSON
  and with them their tax. `LineIsRight` says what a line's tax may be off from
  its rate (half a paisa, and a quarter more for each half of it), so that the tax
  of a row without value is rounding only (`OddRow`), three quarters of a paisa
  a line at most: `OddPaise` (`OddPaiseBound`).

**The desk** (`DeskProofs`): `DeskTypeCorrect`, `SessionsHold`,
`SavedAsEnteredHolds`, `PostedAsEnteredHolds`, `SettingsHoldHolds`,
`ListsOfferRightlyHolds`, `SavedAsTypedHolds`. `DeskSteps` says that a step of the
desk is one of its part; each part has an invariant of its own.

- *Session*: `TypeCorrect`, `SessionStaysInYear`, `CalmSessionHolds`, of `Sessions` by
  itself. A pair is tied to the sign-in it goes back to by its place in the
  sequence of pairs. The invariant joins `SessionKeepsYear` with `Issued` (a pair's
  sign-in is no later than the pair, so that appending one changes no other's
  sign-in) and `CallsTyped` (a call in an exchange refers to a pair that was
  issued). `Marked` and `Appended` are the two ways the sequence changes: rows
  lose their life or their access token but neither sign-in nor year, and a pair
  is added either with itself as its sign-in or with the year of an existing
  one. No assumption on overlap is needed: this is the one promise about
  sessions that holds of every interleaving. `CalmSessionHolds` is about the
  others. While `calm` holds, at most one call is at an exchange, and `CallSound`
  says what that call knows at each of its stages: that its token is the
  store's, that it is live or was just revoked, that nothing else of the sign-in
  is live.
- *Payments* (`PageInv`): what a submission has posted and what it has yet to post
  are apart (`PostsInOrder`: nothing is yet posted on what is left to do, and what
  is beyond the documents comes last); the sum posted and what may still be
  posted stay within what was entered, unless a failed submission was sent again
  (`OwedOnce`, `Pending`); the page's figures are the books' when they are said
  to be fresh (`ShownTrue`).
- *Bank accounts* (`BanksInv`): no two requests hold a row (`RowsApart`), and while
  nothing but changes of the default meets another request (`plain`), what each
  has read is still so (`StillSo`), the rows it waits for are those a statement
  that starts now would see (`Sights`), and there is one default (`OneDefault`). It
  is not inductive without `Sights`: a request that waited for a row writes the
  rows of the moment its statement began.
- *Settings* (`SettingsInv`): an open card shows what is stored, but for what was
  typed and what was lost (`CardStands`), and two cards of one field have lost it
  (`CardsApart`), likewise two maps of layouts read at a time.
- *Party form* (`DraftInv`): while it is `sound`, a draft, and what has been sent of
  it, hold what the party has, the typed fields aside.
- *Lists* (`ListsInv`, `ListsTyped`): what is stored is sound (nothing is paid beyond
  its total, an estimate has a sale when it is converted and only then), and
  while calls take turns, what a call has fetched is the newest of the session's
  year, as it is stored.
- *Entry* (`EntryInv`): every document saved is what the calculator makes of its
  lines, and a document saved from the open form was shown as the form is.
  `DocumentComesTo` is the arithmetic: for any lines the sums are the sums of the
  lines' parts, the total is whole rupees, the round-off within half a rupee, and
  each line's total within 1.78 paise of the exact product that the form's
  preview sums up. `ShownIsSaved` makes that `RupeesOff`: a rupee for every 56 lines
  begun. `VoucherBalances` says that no invoice is refused for its voucher.
- *Print* (`PaperInv`): what was printed and what is still to be drawn come to the
  total less what the layout leaves out (`Due`), every block to be drawn is `Fitted`
  (it takes no more than it asks for, and only rows, the tax table and the notes may be
  taller than 200 points), and the block drawn last `Stands` as `BlocksStayWhole` says.
  It is not inductive without the blocks to be drawn: the sum at the end says nothing
  of a page turned before. `SectionsSilent`, `TallyWorth` and `PlainWorth` say what the
  blocks of each template are worth, for any number of lines and of rows of tax; the
  tax table is the lines grouped by code (`SumGrouped`), and the words are division
  with remainder.

**What the proofs corrected.** Three definitions could not be reasoned about as
they stood and were wrong in the model: two `CASE`s with overlapping conditions
(`RemoveCommit` of `Stock`, the locks of `BankAccounts`), of which TLC takes the
first and the logic any, and the freight posting of `Ledgers`, which looked its
ledger up again by name where the code keeps the id it has read. Two bounds held
of the documents of the runs and not of all: the total saved is within one rupee
of the total shown only up to 56 lines (`RupeesOff`), and the tax that B2CS
leaves out grows with the lines of the month (`OddPaise`). And two claims about
the paper had exceptions the runs never met: a block taller than a page does not
stand whole on one, with the cursor under the tax in words four points lower than
was asked for (`BlocksStayWhole`), and an amount has words only up to a limit
(`WordsSayAmount`).

**Only model-checked.** `EveryPostingEnds` is liveness under fairness, out of the
prover's reach. The six runs that end in a counterexample have no theorem, as what
they check is not so.

## Disagreements between code and text

1. `posting_openyear`. `CONTRIBUTING.md:129-130` and `README.md:34-35` say a
   document dated outside the open year is refused. Only `invoices.create`
   compares the years; bills, notes, estimates, payments and conversions are
   posted to the year of their date.
2. `sales_edit_twice`. An edit is said to restate the voucher and replace its
   lines (`invoices.service.ts:329-330`). Nothing is locked, and of two edits at
   a time both leave their lines.
3. `sales_remove_orphan`. A removal is said to unwind every voucher
   (`invoices.service.ts:730-733`). The list is made before the transaction; a
   credit note issued in between leaves its voucher active and itself detached.
4. `estimates_double_conversion`. Estimate and invoice are said to be one-to-one
   (`schema.prisma:902`). Two conversions at a time make two invoices.
5. `stock_returns`. The quantity of a batch is said to count returns
   (`batches.service.ts:19-20`), and the sum does; but `notes.create` stores no
   batch on a note's lines, so that no return ever reaches a batch.
6. `entry_cash`. A cash sale is said to record its full payment
   (`doc-entry-form.tsx:69`). The form pays its own total, which rounds nothing
   before the rupee, while the saved invoice rounds every line.

The rest were met while modelling. They have no run of their own: the
properties state what holds instead, and the model has the behaviour.

Numbers and sums
- The odd paisa of a tax goes to SGST by the comment (`gst-calculator.ts:56`), in
  the code mostly to CGST (`CgstOf`).
- Freight of a sale is said to be indirect income
  (`invoices.service.ts:298`), but the ledger is shared with purchases and keeps
  the group it was first made with (`Ledgers`).
- The dashboard's receivables are said to match every other display
  (`reports.service.ts:532-534`), and its sales to follow the payment link
  (480-482); its monthly chart is always of invoices, and its low-stock count
  ignores notes.
- The JSON's HSN table skips lines without a code, and B2CS notes are reported
  under the home state (`GstReturns`).
- A note's total is said to be capped at what its source still carries
  (`notes.service.ts:36-37`). The cap is computed before the transaction and, unlike
  a payment's, not looked at again: two notes at a time both fit (`SalesInvoice`).
- A credit note is capped by the total and earlier notes, not by what payments
  have left (`SalesInvoice`, `PartyAccount`).
- An item line is taxed by the item's present rate when a document is edited; the
  edit form drops the batches of its lines (`doc-entry-form.tsx:323-334`).
- On paper: the 200 points kept for totals and signature
  (`invoice-pdf.service.ts:789-790`) do not hold for signature and bank together;
  templates other than the boxed one print no freight or other charges, simple
  ones no tax rows; the tax table prints one rate per HSN code; the balance row
  ignores credit notes; the words break off at a hundred crore.

Client and service
- `isAuthenticated` is said to be true when the browser has a session
  (`api.ts:90`). Of two calls that exchange one token at a time the second is
  refused and drops the flag (`api.ts:110-113`), though the first has put a live
  pair in its place (`Sessions`).
- An exchange that the server answers with an error, a 429 or a 500, drops the
  signed-in flag as a refusal does, and in a native shell the tokens, though the
  token presented may be live (`api.ts:110-113`, `failed` in `Sessions`).
- A list shows the documents of the session's year. The invoice made by a conversion
  is of today's, and is not in the list of a session of another year
  (`DocumentLists`).
- The payment page may show one party's documents under another's name after
  overlapping or failed loads, and reports a failed reload as a failed payment.
- "Empty strings clear the field (null)" (`company-settings-cards.tsx:112`) holds
  for most fields; a cleared GSTIN or state is not saved. A card whose load failed
  counts as loaded. Two saves of layouts may lose one.
- A party's image is wiped by saving before the party has been loaded.
- A party and its ledger are said to stay in lockstep (`parties.service.ts:210`);
  two overlapping renamings leave them apart (`raced` in `Ledgers`).
- `recordPartyPayment` is said to reduce the party's outstanding balance
  (`parties.service.ts:290-293`): it reduces the ledger, and the balance only when
  it names a document (`LedgerExplained`).
- `purchasePaymentLink` is accepted (`company.dto.ts:432-438`) and never written.
- Rows offer what services refuse: deletion to accountants, cancelling and editing
  documents with active notes, editing booked estimates and batched bills,
  converting estimates with batched items (`Unseen` in `DocumentLists`). A failed
  action does not reload its list, and overlapping reloads may leave an older one.

## What is not modelled

Listed with reasons under `components` in `PROJECT.json`. In short: validation
of request bodies, text and layout beyond heights and amounts, spreadsheets,
translations, mail and Redis adapters, health checks, the audit log (one insert
after the answer; its failure is dropped) and rendering in the client keep no
state the books depend on. Within the modelled parts: the lines of a document
are one amount, except in `Stock`, where they are quantities, and in the modules
about tax; expiry dates of batches and the valuation of stock are left out; so
are the second factor and invitations, the creation of companies, members and
branches (single-row writes), and images; one company is modelled, since every
query is scoped by `companyId`; PostgreSQL's own deadlock detection appears as
`Rollback`/`Abandon`.

Two small races are stated by no property: `recordPayment` credits the ledger of
the customer it read before its lock, while an edit may move the invoice to
another (`invoices.service.ts:811`; in `books` requests on two customers are
served one at a time), and a bill that is refused after `upsertBatch` leaves the
batches it made, empty (`purchases.service.ts:119`).

## Plan

The modules above cover the books, the services behind them and the client's
work with them. What is left, in order:

1. The quarter percent among the rates of `GST_RATES`: rates in quarters of a
   percent throughout `GstCalculator`, and `RupeesOff` with them.
2. Expiry dates in `Stock`, with the order in which batches are offered, and the
   valuation of stock at average cost against the purchases ledger.
3. The second factor and invitations in `Sessions`, with the expiry of their
   tokens.
4. Liveness of the client: under a server that answers, a page that was left
   loading ends with the rows of the party it shows.
