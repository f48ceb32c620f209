SPECIFICATION BooksSpec
CONSTANTS
  None = None
  a = a
  b = b
  m1 = m1
  m2 = m2
  p1 = p1
  p2 = p2
  Docs = {a, b}
  Opening = 0
  MaxTotal = 2
  MaxPaid = 2
  Requests = {m1}
  Invoices = {m2}
  Bills = {m2}
  Parties = {a, b}
  MaxVouchers = 5
  MaxBillVouchers = 4
  MaxEdits = 2
  Clerks = {a, b}
  Forms <- FewForms
  MaxLedgers = 3
  Names = {p1}
  MaxAmount = 2
  MaxDay = 1
  MaxPosted = 1
  NewNames = {m1, m2}
  MaxNewAmount = 1
  MaxNewDay = 2
  MaxNewPosted = 2
  Customers = {p1, p2}
  Away = {p2}
  GstInvoices = {m2}
  GstNotes = {a, b}
  Periods = {1, 2}
  Drafts <- FewDrafts
  Codes = {p1, p2}
  Threshold = 1000
SYMMETRY Symmetry
INVARIANTS
  BooksTypeOK
  BooksTie
  WithinTotal
  LedgersExplained
  BalancesAgree
  ReportsTie
  PeriodsChain
  Lockstep
  ReturnTiesBooks
PROPERTIES
  Settles
  PaidOutOfBalance
CHECK_DEADLOCK FALSE
