SPECIFICATION Spec
CONSTANTS
  a = a
  b = b
  Strategies <- TwoStrategies
  Prices <- CheapAndDear
  Holdings <- TwoAndOne
  Seeds = {"empty"}
  StopPct = 80
  LossPct = 60
  TakePct = 100
  TrailPct = 50
  Tardy = TRUE
  MaxUpsets = 0
  Refusals = FALSE
INVARIANT
  NeverSellsOthers
CHECK_DEADLOCK FALSE
