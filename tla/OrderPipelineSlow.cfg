\* A broker call outlives the reconcile lock.
SPECIFICATION Spec
CONSTANTS
  o1 = o1
  o2 = o2
  NoOrder = NoOrder
  Orders = {o1}
  Target <- TwoShares
  Buys = {o1}
  Workers = {w1}
  EngineSweeper = engine
  Scripts = {}
  Listener = listener
  Paper = FALSE
  Notices = TRUE
  NetErrors = FALSE
  ErrorAnswers = FALSE
  Numberless = FALSE
  CallOutlivesLock = TRUE
  NextDay = FALSE
  MaxStops = 1
INVARIANTS
  NoDoubleRecording
