SPECIFICATION FairSpec
CONSTANTS
  a = a
  b = b
  Strategies <- TwoStrategies
  Prices <- CheapAndDear
  Holdings <- TwoAndOne
  Seeds = {"empty", "stored"}
  StopPct = 70
  LossPct = 60
  TakePct = 100
  TrailPct = 50
  Tardy = FALSE
  MaxUpsets = 0
  Refusals = FALSE
PROPERTY
  StopLossActs
CHECK_DEADLOCK FALSE
