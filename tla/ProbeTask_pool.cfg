\* One result of each kind of task and one fault anywhere. A symmetry of the
\* workers is sound: no property here is a liveness property. The system stops
\* when every task is consumed and the clock and MaxTasks are spent.
SPECIFICATION Spec
CONSTANTS
  NULL = NULL
  Unset = Unset
  Intervals = {1}
  Paths = {}
  Workers = {w1, w2}
  InitialMonitors <- OneMonitor
  Answers <- UpOrTimeout
  max_retries = 1
  SoftLimit = 1
  HardLimit = 2
  MaxTasks = 2
  MaxClock = 1
  MaxFaults = 1
SYMMETRY WorkerSymmetry
INVARIANTS TypeOK AtMostOncePerFault ProbedIsRecorded RowIsBacked
PROPERTY KeepAliveOnlyDowns
CHECK_DEADLOCK FALSE
