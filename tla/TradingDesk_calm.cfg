SPECIFICATION Spec
CONSTANTS
  Pipelines = {p1, p2}
  Monitors = {m1}
  Reconcilers = {}
  Stocks = {s1, s2}
  Calls <- EveryCall
  MaxQty = 4
  Prices = {1, 2}
  Costs = {0}
  NoRequest = NoRequest
  Scenarios = {{}}
  Opening = 2
  Cashes = {1, 4}
  Budgets = {2, 3}
  PositionCap = 2
  MaxPositions = 1
  StopPct = 40
  TakePct = 50
SYMMETRY Alike
INVARIANTS
  PositionLimit
CHECK_DEADLOCK FALSE
