SPECIFICATION Spec
CONSTANTS
  Pipelines = {p1, p2}
  Monitors = {m1}
  Reconcilers = {r1}
  Stocks = {s1}
  Calls <- EveryCall
  MaxQty = 4
  Prices = {1, 2}
  Costs = {0}
  NoRequest = NoRequest
  Scenarios = {{}, {"overlap"}, {"no_rows"}, {"no_rows", "late_fill"}, {"empty_positions"}}
  Opening = 2
  Cashes = {1, 4}
  Budgets = {2, 3}
  PositionCap = 2
  MaxPositions = 2
  StopPct = 40
  TakePct = 50
SYMMETRY Alike
INVARIANTS
  LedgerMatchesBroker
  LedgerNeverShort
  ViewsAgree
  CapRespectedWhenCalm
  AverageWasPaidWhenCalm
  ReconcileRestoresAlone
  PositionsHaveStopLines
CHECK_DEADLOCK FALSE
