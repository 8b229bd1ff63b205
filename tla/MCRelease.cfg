CONSTANTS
  q1 = q1
  q2 = q2
  p1 = p1
  p2 = p2
  t1 = t1
  t1b = t1b
  t2 = t2
  Releases = {q1, q2}
  Trees = {t1, t1b, t2}
  PacksOf <- MCPacksOf
  ReleaseOf <- MCReleaseOf
  First = t1
  Latest = latest
  None = None
SPECIFICATION Spec
INVARIANTS NothingDangles ReaderIsPaired
PROPERTIES RootsSwitchLast
CHECK_DEADLOCK FALSE
