SPECIFICATION MCSpec
CONSTANTS
  a = a
  r1 = r1
  r2 = r2
  s1 = s1
  s2 = s2
  Runners <- TwoRunners
  Symbols <- TwoSymbols
  Stoppable <- OneOrAll
  CbRatio = 60
  MinSample = 2
  CooldownSec = 2
  ObserveTtl = 1
  Latency = 1
  Strategies <- OneStrategy
  WaitFor = {"commands", "orders", "shutdown", "stray"}
  MaxCommands = 4
  MaxStops = 2
  MaxDrops = 2
INVARIANTS
  TypeOK
  RestsAfterHalt
  MarketIsJudged
  ActiveCoversTrading
  NoGhostPosition
PROPERTIES
  Reopens
  CommandsAreObeyed
CHECK_DEADLOCK FALSE
