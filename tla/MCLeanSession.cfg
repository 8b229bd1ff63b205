CONSTANTS
  Snapshots = 1
  MaxPageCalls = 1
  MaxProbes = 1
SPECIFICATION FairSpec
INVARIANTS OneOwnerAtATime
PROPERTIES HeartbeatDeathIsReal SilentDeathIsFound CallsSettle
CHECK_DEADLOCK FALSE
