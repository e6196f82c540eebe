\* A paper account with two purchases and a real one with a purchase and a sale, without
\* fill notices, within one trading day.
SPECIFICATION FairAccounts
CONSTANTS
  o1 = o1
  o2 = o2
  NoOrder = NoOrder
  Orders = {o1, o2}
  Target <- OneShare
  Buys = {o1, o2}
  Workers = {w1}
  EngineSweeper = engine
  Scripts = {}
  Listener = listener
  Paper = TRUE
  Notices = FALSE
  NetErrors = TRUE
  ErrorAnswers = TRUE
  Numberless = TRUE
  CallOutlivesLock = FALSE
  NextDay = FALSE
  MaxStops = 1
  c1 = c1
  c2 = c2
  c3 = c3
  p1 = p1
  p2 = p2
  Callers <- ThreeCalls
  Processes <- TwoProcesses
  ProcessOf <- Split
  Interval = 1
  Rounds = 4
  LockTtl = 5
  TokenTtl = 5
  Latency = 1
  MaxFaults = 1
INVARIANTS
  SymbolNotOverRecorded
PROPERTIES
  RealSettles
  PaperIsRecovered
