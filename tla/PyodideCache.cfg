SPECIFICATION Spec
CONSTANTS
  p1 = p1
  p2 = p2
  p3 = p3
  Server = {p1, p2, p3}
  NoServer = none
  MaxCrashes = 2
INVARIANTS
  UsedCacheIsComplete
PROPERTY SetupEnds
CHECK_DEADLOCK FALSE
