SPECIFICATION SteadySpec
CONSTANTS
  u1 = u1
  u2 = u2
  Later = {}
  Requests = {r1, r2, r3}
  Members = {u1}
  Owner <- MCOwner
  Mode = "windows"
  Durations = {1, 3}
  Total <- WindowTotal
  Configs <- WindowConfigs
  Amounts = {0, 2}
  MaxOutstanding = 2
  Retention = 0
  MaxNow = 4
  MaxRevisions = 1
  MaxCrashes = 0
SYMMETRY MCSymmetry
INVARIANTS SpendBounded
CHECK_DEADLOCK FALSE
