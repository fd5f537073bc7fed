CONSTANTS
  Callers = {c1, c2, c3}
  ResetWorkers = {c3}
  Tenants = {"t1", "t2"}
  Tenant <- MCTenant
  IdleTimeout = 1
  MaxRuntimes = 3
  BaseKeys = {}
  CapacityKeys = {k1}
  AllowanceKeys = {a1}
  Endpoints = {u1}
  SendLimit = 2
  AttemptLimit = 2
  DelayLimit = 2
  TestDelay = 1
  MaxAlertEvents = 4
  LastVersion = 2
  RetryTicks = 1
  FailTicks = 2
  SyncTicks = 3
  MaxVersionEvents = 4
  Documents = {2, 3}
  Models = {"x", "y", "z"}
  Listed <- MCListed
  LocalModels = {"z"}
  PoolAccounts = {p1, p2}
  MaxPriceEvents = 3
SPECIFICATION ServicesSpec
INVARIANTS GatewaysSound AlertsTrue
PROPERTIES IncidentsEvidenced VersionsSound PricesSound ServicesSettle
CHECK_DEADLOCK FALSE
