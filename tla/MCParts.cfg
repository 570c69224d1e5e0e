SPECIFICATION Spec
CONSTANTS
  Trainings = {p1, p2}
  Symbols = {s1, s2}
  Versions = {v1, v2}
  Readers = {r1}
  Mock = Mock
  Torn = Torn
  Members = {s1, s2}
  Commands = {p1, p2}
  LastInstant = 2
  Workers = {p1, p2}
  Lifetime = 2
  LastTick = 4
  RateUnit = 100
  CommissionRate = 1
  SellTaxRate = 2
  HalfSpreadTicks = 1
  ImpactDivisor = 10
  InitialCapital = 2000000
  FractionDivisor = 5
  TakeProfit = 1
  StopLoss = 1
  Horizon = 2
  Prices = {1980, 2000, 2030}
  Volumes = {0, 8}
  LastBar = 4
  Stocks = {s1, s2}
  StartCash = 620000
  RunPrices = {1990, 2030}
  RunVolumes = {4}
  MaxTarget = 2
  MaxBars = 3
  FastPeriod = 2
  SlowPeriods = {3, 4}
  CandleLimit = 4
  RsiPeriod = 2
  Oversold = 30
  Overbought = 70
  RegimePeriod = 3
  SignalPrices = {40, 100, 103}
  SeriesLength = 6
  EntryThreshold = 10
  ReturnUnit = 100
  Upper = 2
  Lower = 2
  RoundTripCost = 1
  LabelHorizon = 2
  MinHistory = 2
  LabelPrices = {97, 100}
  MaxCandles = 7
  FoldSizes = {1, 2}
  Scores = {1, 2, 4, 6}
  MaxOutcomes = 5
  Unit = 100
  UpperGain = 4
  LowerLoss = 3
  TradeCost = 1
  KellyFraction = 25
  MaxFraction = 20
  TargetVolatility = 2
  DefaultVolatility = 2
  MinuteParticipation = 10
  DailyVolume = 140
  DailyParticipation = 5
  Candidates = {s1, s2, s3}
  CandidatePrices = {97, 130}
  CandidateVolumes = {40, 90}
  Volatilities = {0, 3, 5}
  Probabilities = {50, 58, 100}
  Minutes = {1, 30}
  Capital = 4000
  MinTurnover = 3900
  VolLow = 0
  VolHigh = 3
  OpenBlock = 5
  CloseBlock = 375
  TopK = 2
  Lookback = 2
  RsiSpan = 1
  ShortSpan = 1
  LongSpan = 2
  ShortLag = 1
  LongLag = 2
  HistoryNeeded = 2
  Closings <- FewClosings
  LastFeatureMinute = 3
  MaxRows = 4
  Calls = {p1, p2}
  MaxQty = 2
  OrderPrices = {2}
  Costs = {0, 1}
  NoRequest = NoRequest
  NoFill = NoFill
  Faults = {"send", "lost_response", "empty_answer", "db", "crash"}
SYMMETRY Alike
INVARIANT BookedFillsHappened
INVARIANT UnservedOnlyWhileDeploying
INVARIANT InferencesAreExplained
INVARIANT UniverseIsAsAsked
INVARIANT OneLiveTokenPerWorker
INVARIANT EngineAddsUp
INVARIANT FifoAddsUp
INVARIANT FoldsAreSound
INVARIANT WeightsTellOverlap
INVARIANT CalibrationIsIsotonic
INVARIANT SelectedAreBest
INVARIANT SizesFollowTheOdds
INVARIANT CrossesAreReal
INVARIANT SkewIsQuoteAndSignal
PROPERTY ImplementsOrderBook
PROPERTY ImplementsRegister
PROPERTY HistoryIsStable
PROPERTY OrdersRepeatOnRereads
CHECK_DEADLOCK FALSE
