CONSTANTS
  Snapshots = 1
  MaxPageCalls = 1
  MaxProbes = 1
SPECIFICATION Spec
INVARIANTS RefusesNone
CHECK_DEADLOCK FALSE
