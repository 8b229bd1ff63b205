CONSTANTS
  Ids = {i1, i2}
  Headers = {h1, h2}
  NoHeader = h1
  MaxSession = 3
  MaxEdits = 2
  MaxTime = 1
  BREAKER_DEATHS = 2
  BREAKER_WINDOW = 1
SPECIFICATION FairSpec
INVARIANTS AnsweredOnce OneLiveSession ServesTheDocument NoOrphans Breaker
PROPERTIES HaltEndsByRearm BootIsDecided
CHECK_DEADLOCK FALSE
