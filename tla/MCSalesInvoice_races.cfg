SPECIFICATION Spec
CONSTANTS
  r1 = r1
  r2 = r2
  i1 = i1
  p1 = p1
  p2 = p2
  None = None
  Requests = {r1, r2}
  Invoices = {i1}
  Parties = {p1}
  Ops = {"pay", "note", "edit", "cancel", "remove", "cancelNote", "cancelVoucher"}
  MaxTotal = 2
  MaxVouchers = 4
  MaxEdits = 2
  DocumentVoucher = "SALES"
  PaymentVoucher = "RECEIPT"
  NoteVoucher = "CREDIT_NOTE"
SYMMETRY Symmetry
INVARIANTS
  TypeOK
  CancelledIsOutOfBooks
  DocumentsKeepTheirVoucher
PROPERTIES
  PaymentWithinBalance
  StatusOnlyMovesForward
CHECK_DEADLOCK FALSE
