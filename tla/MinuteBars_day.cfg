SPECIFICATION FairSpec
CONSTANTS
  LastMinute = 4
  MaxTrades = 4
  Pages = 2
  PageSize = 2
  Scenarios = {{}, {"forming"}, {"restart"}, {"late"}, {"empty_page"}}
INVARIANTS
  CloseIsLast
  CandlesAreWhole
  OnlyCompletedMinutes
  NoHoleLeft
PROPERTIES
  CandlesAreFinal
  MinutesAreWritten
CHECK_DEADLOCK FALSE
