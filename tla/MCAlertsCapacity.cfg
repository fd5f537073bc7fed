SPECIFICATION RequestsSpec
CONSTANTS
  u1 = u1
  u2 = u2
  Later = {r3}
  Requests = {r1, r2, r3}
  Members = {u1, u2}
  Owner <- MCOwner
  Mode = "tokens"
  Durations = {1}
  Total <- PoolTotal
  Configs <- TokenConfigs
  Amounts = {0, 1}
  MaxOutstanding = 2
  Retention = 0
  MaxNow = 0
  MaxRevisions = 1
  MaxCrashes = 1
  RoutingRows <- MCRows
  ProviderOf <- MCProviderOf
  ChatModels = {"p", "q"}
  Threads = {"t1", "t2"}
  PoolPolicies <- MCPolicies
  Conditions <- MCConditions
  Asked <- MCAsked
  Initially <- MCInitially
  AffinityTTL = 3
  TouchSlack = 1
  AffinityLimit = 2
  MaxSelectTime = 3
  MaxSelectEvents = 3
SYMMETRY MCSymmetry
INVARIANTS CapacityAgrees
CHECK_DEADLOCK FALSE
