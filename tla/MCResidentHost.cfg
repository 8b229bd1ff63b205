CONSTANTS
  NoId = none
  Ids = {i1}
  MaxEdits = 4
  RingCap = 1
  TooLarge = {2}
  OpensFit = TRUE
  RefusedTexts = {3}
SPECIFICATION FairSpec
INVARIANTS WorkerKeepsUp ReadyIsNewest RequestsKept
PROPERTIES ShownForTheirText Settles
CHECK_DEADLOCK FALSE
