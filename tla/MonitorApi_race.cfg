\* One row, two handlers. It takes two races: the first leaves a row that is off
\* with its interval, the second switches that row on and takes the interval.
SPECIFICATION Spec
CONSTANTS
  NULL = NULL
  Unset = Unset
  Intervals = {1, 2}
  Paths = {"/p"}
  Requests = {r1, r2}
  max_monitors = 1
  CreatePayloads <- OnlyWithKeepAlive
  UpdatePayloads <- Toggles
  MaxId = 1
  MaxTasks = 0
  MaxClock = 0
INVARIANT EnabledHasInterval
