\* Two routers; every role, every packet delayed, reordered or lost.
SPECIFICATION Spec
CONSTANTS
  n1 = n1
  n2 = n2
  Node = {n1, n2}
  Rank <- IdOrder
  None = None
  Setups <- Pairs
  Timeout = 1
  AnnounceEvery = 1
  RequestEvery = 1
  Partials <- SomeTimes
  UserSources <- Gps
  NewConfigs <- Reconfigured
  Operated = {n2}
  Day = 1
  MaxNow = 2
  MaxSets = 1
  MaxNet = 2
  MaxAdjust = 1
  SlewNum = 1
  SlewDen = 2
CHECK_DEADLOCK FALSE
 
PROPERTIES  SampleError
