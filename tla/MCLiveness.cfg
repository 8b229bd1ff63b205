CONSTANTS
  Ids = {i1}
  ProbeAfter = 1
  WedgeAfter = 3
  Grace = 3
  RequestTtl = 2
  LateRetries = 1
  Suspension = 4
  MaxSuspensions = 1
  MaxFrames = 2
SPECIFICATION WatchFairSpec
PROPERTIES VerdictsAreTrue OutputIsServed FrozenIsFound
CHECK_DEADLOCK FALSE
