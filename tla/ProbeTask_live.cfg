\* No symmetry under liveness. The system stops when all is consumed.
SPECIFICATION FairSpec
CONSTANTS
  NULL = NULL
  Unset = Unset
  Intervals = {1}
  Paths = {}
  Workers = {w1, w2}
  InitialMonitors <- OneMonitor
  Answers <- UpOrTimeout
  max_retries = 1
  SoftLimit = 1
  HardLimit = 2
  MaxTasks = 2
  MaxClock = 2
  MaxFaults = 0
INVARIANT LagBounded
PROPERTY TasksSettle
CHECK_DEADLOCK FALSE
