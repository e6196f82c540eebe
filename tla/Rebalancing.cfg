SPECIFICATION MCSpec
CONSTANTS
  a = a
  b = b
  c = c
  d = d
  PeriodLength = 2
  Periods = 2
  Prices <- TwoPrices
  Capital = 4
  KillPct = 25
  RearmDays = 1
  RebalanceDom = 2
  RegimeEnabled = TRUE
  ImmediateFill = TRUE
  PointInTime = TRUE
  MaxFailures = 1
  SimPrices = {2, 4}
  IndexCloses = {40, 44}
  Configs <- SomeConfigs
  SimCapital = 16
  Cases <- SomeCases
INVARIANTS
  TypeOK
  NeverOverspends
  PrecedenceIsKept
  PlansAgree
  ExposureIsKept
  SectorsWithinCap
PROPERTIES
  NoPurchaseWhileKilled
  KillLiquidates
  CooldownEnds
  RearmIsServed
CHECK_DEADLOCK FALSE
