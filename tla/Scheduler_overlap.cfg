\* Two sweeps over one row of any mode; intervals 2 and 3, hard limit 2, so the
\* clock passes every claim and message expiry. Two faults: a reset that fails
\* takes a refused publish before it. No liveness here, so symmetry is sound.
SPECIFICATION Spec
CONSTANTS
  NULL = NULL
  Unset = Unset
  Intervals = {2, 3}
  Paths = {}
  Sweeps = {s1, s2}
  Mons = {1}
  InitialRows <- MixedRows
  sweep_batch_size = 1
  sweep_max_batches = 2
  HardLimit = 2
  MaxClock = 4
  MaxFaults = 2
SYMMETRY SweepSymmetry
INVARIANTS TypeOK DisjointHoldings HeldIsOwn NoSilentLoss BacklogBounded RateBounded
PROPERTIES NextRunOnlyClaimedOrGivenBack ImplementsDispatch
