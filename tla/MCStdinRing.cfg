CONSTANTS
  Frames = {"a", "b", "c", "d"}
  Size <- SmallSize
  Cap = 6
SPECIFICATION FairSpec
INVARIANTS FramesWhole AckedAtTheEnd
PROPERTIES ImplementsChannel Delivered
CHECK_DEADLOCK FALSE
