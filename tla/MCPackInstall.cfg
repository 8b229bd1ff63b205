CONSTANTS
  Pages = {p1, p2}
  NPacks = 2
  Size <- Sizes
  Worlds <- TheWorlds
  MaxSessions = 4
SPECIFICATION Spec
INVARIANTS MountsItsBytes BlockedOnlyByAnother StoreIsSound
SYMMETRY Symmetry
CHECK_DEADLOCK FALSE
