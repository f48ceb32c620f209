SPECIFICATION Spec
CONSTANTS
  None = None
  i1 = i1
  Items = {i1}
  Rates = {0, 18}
  Drafts <- FewDrafts
  MaxDocs = 2
  MaxMoves = 1
  MaxSends = 2
INVARIANT CashRecordsFullPayment
CHECK_DEADLOCK FALSE
