\* A cap of one and three ids: creates overshoot, delete and create again.
SPECIFICATION Spec
CONSTANTS
  NULL = NULL
  Unset = Unset
  Intervals = {1, 2}
  Paths = {"/p"}
  Requests = {r1, r2}
  max_monitors = 1
  CreatePayloads <- OnlyWithKeepAlive
  UpdatePayloads <- Updates
  MaxId = 3
  MaxTasks = 1
  MaxClock = 1
SYMMETRY RequestSymmetry
INVARIANTS TypeOK CapOvershootBounded KeepAliveClockMatchesFlag
PROPERTY NoResurrection
