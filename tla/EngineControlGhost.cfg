SPECIFICATION Spec
CONSTANTS
  a = a
  Strategies <- One
  WaitFor = {"commands", "shutdown"}
  MaxCommands = 4
  MaxStops = 0
  MaxDrops = 0
INVARIANT
  NoGhostPosition
CHECK_DEADLOCK FALSE
