CONSTANTS
  NoId = none
  Ids = {i1}
  MaxEdits = 2
  RingCap = 1
  TooLarge = {1}
  OpensFit = FALSE
  RefusedTexts = {}
SPECIFICATION Spec
INVARIANTS WorkerKeepsUp
CHECK_DEADLOCK FALSE
