SPECIFICATION Spec
CONSTANTS
  Calls = {c1, c2}
  Stocks = {s1}
  MaxQty = 2
  Prices = {2, 3}
  Costs = {0, 1}
  NoRequest = NoRequest
  NoFill = NoFill
  Faults = {"send", "lost_response", "query", "empty_answer", "db", "crash"}
SYMMETRY Interchangeable
INVARIANTS
  BooksAgree
  RowsBackedByBroker
PROPERTIES
  RowsAreFinal
CHECK_DEADLOCK FALSE
