SPECIFICATION Spec
CONSTANTS
  Pipelines = {p1, p2}
  Monitors = {}
  Reconcilers = {}
  Stocks = {s1}
  Calls <- EveryCall
  MaxQty = 4
  Prices = {1, 2}
  Costs = {0}
  NoRequest = NoRequest
  Scenarios = {{"late_fill"}}
  Opening = 2
  Cashes = {1, 4}
  Budgets = {2}
  PositionCap = 2
  MaxPositions = 1
  StopPct = 40
  TakePct = 50
INVARIANTS
  AverageWasPaid
CHECK_DEADLOCK FALSE
