\* Up to thirty symbols weighted by their volatility.
SPECIFICATION CasesSpec
CONSTANTS
  a = a
  b = b
  c = c
  d = d
  PeriodLength = 2
  Periods = 2
  Prices <- TwoPrices
  Capital = 4
  KillPct = 25
  RearmDays = 1
  RebalanceDom = 2
  RegimeEnabled = TRUE
  ImmediateFill = TRUE
  PointInTime = FALSE
  MaxFailures = 1
  SimPrices = {2, 4}
  IndexCloses = {40, 44}
  Configs <- SomeConfigs
  SimCapital = 16
  Cases <- ManyWeights
INVARIANT
  FillsUp
CHECK_DEADLOCK FALSE
