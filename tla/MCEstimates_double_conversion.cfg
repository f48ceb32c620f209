SPECIFICATION Spec
CONSTANTS
  r1 = r1
  r2 = r2
  e1 = e1
  taxed = taxed
  bare = bare
  None = None
  Requests = {r1, r2}
  EstimateIds = {e1}
  Lines = {taxed, bare}
  Convertible = {taxed}
  MaxInvoices = 2
  MaxVouchers = 2
CHECK_DEADLOCK FALSE
INVARIANT
  OneInvoicePerEstimate
