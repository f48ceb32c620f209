SPECIFICATION FairSpec
CONSTANTS
  r1 = r1
  r2 = r2
  None = None
  Requests = {r1, r2}
  Kinds = {"invoice", "conversion", "bookedEstimate"}
  Dates <- MCDates
  FyStartMonth = 4
  MaxDocs = 3
INVARIANTS
  TypeOK
  InCommitOrder
  NoGaps
  NoDeadlock
PROPERTIES
  EveryPostingEnds
CHECK_DEADLOCK FALSE
