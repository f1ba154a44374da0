\* Three rows for a batch of two, so LIMIT leaves one out of each, and one of
\* them skipped, always the oldest. One turn a loop: what a batch leaves out waits
\* for the next sweep. Hard limit 1: sweeps overlap, but within a tick; those
\* that outlive one are the other run's.
SPECIFICATION SharedFairSpec
CONSTANTS
  NULL = NULL
  Unset = Unset
  Intervals = {2}
  Paths = {}
  Sweeps = {s1, s2}
  Mons = {1, 2, 3}
  InitialRows <- SharedRows
  sweep_batch_size = 2
  sweep_max_batches = 1
  HardLimit = 1
  MaxClock = 2
  MaxFaults = 1
INVARIANTS DisjointHoldings NoSilentLoss
PROPERTY DueIsServed
