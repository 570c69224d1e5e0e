SPECIFICATION Spec
CONSTANTS
  Calls = {c1, c2}
  Stocks = {s1}
  MaxQty = 2
  Prices = {1, 2}
  Costs = {0, 1}
  NoRequest = NoRequest
  NoFill = NoFill
  Faults = {"lost_response", "db"}
INVARIANT
  EveryOrderTraced
CHECK_DEADLOCK FALSE
