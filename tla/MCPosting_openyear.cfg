SPECIFICATION Spec
CONSTANTS
  r1 = r1
  r2 = r2
  None = None
  Requests = {r1}
  Kinds = {"invoice", "bill"}
  Dates <- MCDates
  FyStartMonth = 4
  MaxDocs = 1
INVARIANT
  PostedInOpenYear
CHECK_DEADLOCK FALSE
