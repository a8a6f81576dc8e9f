SPECIFICATION FairSpec
CONSTANTS
  h1 = h1
  h2 = h2
  x1 = x1
  t1 = t1
  c1 = c1
  c2 = c2
  r1 = r1
  Hosted = {h1, h2}
  Remote = {x1}
  Order <- MCOrder
  Tools = {t1}
  Calls = {c1, c2}
  Requests = {r1}
  RequestOf <- MCRequestOf
  MaxVersion = 2
  MaxChanges = 3
CHECK_DEADLOCK FALSE
INVARIANTS
  HandlesMatchInfos
  MissingIsJustified
PROPERTIES
  KeepsToolCallContract
  HostedCallsAnswered
