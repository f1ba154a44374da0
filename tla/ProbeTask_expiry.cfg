\* One task of a target that never answers within the interval of 4.
SPECIFICATION Spec
CONSTANTS
  NULL = NULL
  Unset = Unset
  Intervals = {4}
  Paths = {}
  Workers = {w1}
  InitialMonitors <- SlowMonitor
  Answers <- OnlyTimeout
  max_retries = 3
  SoftLimit = 3
  HardLimit = 4
  MaxTasks = 1
  MaxClock = 4
  MaxFaults = 0
INVARIANT TimeoutIsRecorded
CHECK_DEADLOCK FALSE
