SPECIFICATION Spec
CONSTANTS
  PeriodLength = 3
  Periods = 2
  Prices <- OnePrice
  Capital = 4
  KillPct = 25
  RearmDays = 1
  RebalanceDom = 3
  RegimeEnabled = FALSE
  ImmediateFill = FALSE
  PointInTime = FALSE
  MaxFailures = 0
INVARIANT
  NoPeriodSkipped
CHECK_DEADLOCK FALSE
