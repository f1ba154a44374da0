\* Two creates in progress and a cap of one.
SPECIFICATION Spec
CONSTANTS
  NULL = NULL
  Unset = Unset
  Intervals = {1, 2}
  Paths = {"/p"}
  Requests = {r1, r2}
  max_monitors = 1
  CreatePayloads <- OnlyWithKeepAlive
  UpdatePayloads <- Toggles
  MaxId = 2
  MaxTasks = 0
  MaxClock = 0
INVARIANT CapIsUpperBound
