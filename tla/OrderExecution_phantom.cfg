SPECIFICATION Spec
CONSTANTS
  Calls = {c1, c2}
  Stocks = {s1}
  MaxQty = 2
  Prices = {1, 2}
  Costs = {0, 1}
  NoRequest = NoRequest
  NoFill = NoFill
  Faults = {"query"}
INVARIANT
  BookedFillsHappened
CHECK_DEADLOCK FALSE
