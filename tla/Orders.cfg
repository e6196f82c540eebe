\* Real account, one order of two shares, two ticks and every recorder at once; and three
\* calls to the broker.
SPECIFICATION MCSpec
CONSTANTS
  o1 = o1
  o2 = o2
  NoOrder = NoOrder
  Orders = {o1}
  Target <- TwoShares
  Buys = {o1}
  Workers = {w1, w2}
  EngineSweeper = engine
  Scripts = {script}
  Listener = listener
  Paper = FALSE
  Notices = TRUE
  NetErrors = TRUE
  ErrorAnswers = TRUE
  Numberless = TRUE
  CallOutlivesLock = FALSE
  NextDay = TRUE
  MaxStops = 1
  c1 = c1
  c2 = c2
  c3 = c3
  p1 = p1
  p2 = p2
  Callers <- ThreeCalls
  Processes <- TwoProcesses
  ProcessOf <- Split
  Interval = 1
  Rounds = 4
  LockTtl = 5
  TokenTtl = 5
  Latency = 1
  MaxFaults = 1
INVARIANTS
  TypeOK
  OncePerCall
  SingleFlight
  Paced
  NoDoubleRecording
  AtMostOneOrder
  StatusTellsRecorded
PROPERTIES
  ClosedStaysClosed
  ImplementsLedger
