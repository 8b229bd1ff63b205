CONSTANTS
  a = a
  b = b
  x = x
  Index <- TheIndex
  Base <- TheBase
  InitModules = {}
  Imports <- TheHeaders
  Calls = {c1}
  MaxSessions = 3
  MaxVersion = 2
SPECIFICATION PageFairSpec
INVARIANT WidensOnce
PROPERTIES VerdictsStand CallsEnd
CHECK_DEADLOCK FALSE
