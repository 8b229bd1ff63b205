CONSTANTS
  None = none
  Docs = {d1, d2}
  Ids = {token, goal, alive}
  Requests = {token, goal}
  Tokens = {token}
  KeepAlives = {alive}
  Windows = {TRUE, FALSE}
  MaxInFlight = 1
  MaxEdits = 3
SPECIFICATION FairSpec
INVARIANTS NewestTextHeldOrThere SentOrderKept ServedAtItsText
PROPERTIES SlotsKept NothingIsHeldForever
CHECK_DEADLOCK FALSE
