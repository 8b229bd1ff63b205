CONSTANTS
  Tabs = {t1, t2}
  NoTab = NoTab
  FirstTab = t1
  LeftBehind = {"stale"}
  MaxCalls = 3
  MaxEvicted = 1
SPECIFICATION FairSpec
PROPERTIES EveryCallIsAnswered
INVARIANTS OneWriter CacheIsSound
CHECK_DEADLOCK FALSE
