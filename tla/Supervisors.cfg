SPECIFICATION MCSpec
CONSTANTS
  s1 = s1
  s2 = s2
  Proc = {s1, s2}
  NoProc = none
  MaxDeaths = 1
  MaxSignals = 1
  Specs <- MCSpecs
CHECK_DEADLOCK FALSE
INVARIANTS
  CleansUpAfterItself
  NoFalseAlarm
  SchemaReadyMeansTables
PROPERTY SupervisorsSettle
