SPECIFICATION Spec
CONSTANTS
  r1 = r1
  r2 = r2
  item1 = item1
  b1 = b1
  d1 = d1
  d2 = d2
  d3 = d3
  None = None
  Requests = {r1, r2}
  Items = {item1}
  BatchNos = {b1}
  Docs = {d1, d2, d3}
  MaxQty = 1
  MaxLines = 2
SYMMETRY Symmetry
INVARIANTS
  BatchesHoldStock
CHECK_DEADLOCK FALSE
