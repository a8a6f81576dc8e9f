SPECIFICATION Spec
CONSTANTS
  r1 = r1
  r2 = r2
  Requests = {r1, r2}
  Configs <- MCConfigs
  Kinds <- MCKinds
  EngineErrors <- MCEngineErrors
  Statuses = {200, 429}
INVARIANTS
  MetricsAgree
  ResponsesAreTheGateways
  
PROPERTY UpstreamsAreClosed
CHECK_DEADLOCK FALSE
