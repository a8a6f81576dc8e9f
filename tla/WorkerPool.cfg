SPECIFICATION FairSpec
CONSTANTS
  w1 = w1
  w2 = w2
  r1 = r1
  r2 = r2
  Slots <- MCSlots
  Requests <- MCRequests
  MaxCrashes = 1
CHECK_DEADLOCK FALSE
INVARIANTS
  RunsAreAwaited
  WaitsAreOwed
PROPERTIES
  EveryRequestSettles
  CapacityReturns
