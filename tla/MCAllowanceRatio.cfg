SPECIFICATION SteadySpec
CONSTANTS
  u1 = u1
  u2 = u2
  Later = {r3, r4}
  Requests = {r1, r2, r3, r4}
  Members = {u1, u2}
  Owner <- MCOwner
  Mode = "ratio"
  Durations = {1}
  Total <- PoolTotal
  Configs <- RatioConfigs
  Amounts = {0, 1}
  MaxOutstanding = 2
  Retention = 0
  MaxNow = 0
  MaxRevisions = 2
  MaxCrashes = 0
SYMMETRY MCSymmetry
INVARIANTS GroupOvershootBounded
CHECK_DEADLOCK FALSE
