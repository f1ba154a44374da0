\* Two sweeps and a handler over one row whose schedules the handler switches;
\* intervals 2 and 3, hard limit 2, so the clock passes a claim; one fault.
SPECIFICATION Spec
CONSTANTS
  NULL = NULL
  Unset = Unset
  Intervals = {2, 3}
  Paths = {}
  Sweeps = {s1, s2}
  Requests = {r1}
  MaxId = 1
  InitialRows <- Rows
  UpdatePayloads <- Updates
  sweep_batch_size = 1
  sweep_max_batches = 1
  HardLimit = 2
  MaxClock = 2
  MaxFaults = 1
  MaxStarts = 1
SYMMETRY SweepSymmetry
INVARIANTS TypeOK HealthClaimsAreExclusive NoSilentLoss RateBounded ClockMatchesFlagUnlessReset
