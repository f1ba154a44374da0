\* Three on-demand or swept checks on two workers, no fault.
SPECIFICATION Spec
CONSTANTS
  NULL = NULL
  Unset = Unset
  Intervals = {1}
  Paths = {}
  Workers = {w1, w2}
  InitialMonitors <- OneMonitor
  Answers <- UpOrDown
  max_retries = 1
  SoftLimit = 2
  HardLimit = 3
  MaxTasks = 3
  MaxClock = 2
  MaxFaults = 0
INVARIANT StatusMatchesLastCheck
CHECK_DEADLOCK FALSE
