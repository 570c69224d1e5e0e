SPECIFICATION Spec
CONSTANTS
  Pipelines = {p1, p2}
  Monitors = {}
  Stocks = {s1}
  Equities = {97, 100}
  LossLimit = 3
  Scenarios = {{"empty_answer"}}
PROPERTIES
  LossLimitHeld
CHECK_DEADLOCK FALSE
