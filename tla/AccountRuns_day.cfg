SPECIFICATION Spec
CONSTANTS
  Pipelines = {p1, p2}
  Monitors = {m1}
  Stocks = {s1, s2}
  Equities = {97, 100}
  LossLimit = 3
  Scenarios = {{"overlap"}, {"kill"}, {"trader"}, {"db"}, {"queries"}, {"empty_answer"}}
SYMMETRY Alike
INVARIANTS
  EndedRunsAreSettled
  SuccessMeansDecided
  HealthTells
PROPERTIES
  LossLimitHeldAlone
CHECK_DEADLOCK FALSE
