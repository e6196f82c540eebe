SPECIFICATION MCSpec
CONSTANTS
  a = a
  b = b
  u1 = u1
  u2 = u2
  Threshold = 3
  MaxCommands = 3
  MaxChanges = 1
  MaxFaults = 1
  Retention = 2
  MaxLeft = 2
  Threads <- TwoThreads
  Back = 1
  Blocked = 2
  Hiccup = 1
INVARIANTS
  OutageIsTold
  BackupsAreKept
  SilenceIsKept
PROPERTIES
  SubscriptionsFollow
CHECK_DEADLOCK FALSE
