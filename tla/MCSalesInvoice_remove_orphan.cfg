SPECIFICATION Spec
CONSTANTS
  r1 = r1
  r2 = r2
  i1 = i1
  p1 = p1
  p2 = p2
  None = None
  Requests = {r1, r2}
  Invoices = {i1}
  Parties = {p1}
  Ops = {"note", "remove"}
  MaxTotal = 1
  MaxVouchers = 2
  MaxEdits = 2
  DocumentVoucher = "SALES"
  PaymentVoucher = "RECEIPT"
  NoteVoucher = "CREDIT_NOTE"
INVARIANT
  NoOrphanVouchers
CHECK_DEADLOCK FALSE
