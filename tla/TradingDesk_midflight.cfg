SPECIFICATION Spec
CONSTANTS
  Pipelines = {p1}
  Monitors = {}
  Reconcilers = {r1}
  Stocks = {s1}
  Calls <- EveryCall
  MaxQty = 4
  Prices = {1, 2}
  Costs = {0}
  NoRequest = NoRequest
  Scenarios = {{"reconcile_overlap"}}
  Opening = 2
  Cashes = {1, 4}
  Budgets = {2}
  PositionCap = 2
  MaxPositions = 1
  StopPct = 40
  TakePct = 50
INVARIANTS
  ReconcileRestores
CHECK_DEADLOCK FALSE
