SPECIFICATION MCSpec
CONSTANTS
  a = a
  b = b
  Strategies <- TwoStrategies
  Prices <- CheapAndDear
  Holdings <- TwoAndOne
  Seeds = {"empty", "stored"}
  StopPct = 80
  LossPct = 60
  TakePct = 100
  TrailPct = 50
  Tardy = TRUE
  MaxUpsets = 1
  Refusals = FALSE
  Callers <- TwoStrategies
  Markets <- TwoStrategies
  Requests <- Together
  Ranges <- SomeRanges
  FrameDays = {1}
  LastDay = 4
  MinExpected = 3
  Histories <- SomeHistories
  Grace = 1
  Lookback = 4
  SeedSpan = 2
  Spans = {1, 5}
INVARIANTS
  SellsOthersOnlyBlindly
  PositionsAgree
  SignalLooksBack
  TailIsRecent
  ConfirmedIsFinal
CHECK_DEADLOCK FALSE
SYMMETRY TwoStrategiesSym
