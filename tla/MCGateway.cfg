CONSTANTS
  UsageSlots = 2
  Requests = {r1}
  UsageTTL = 1
  WindowSeconds = 2
  Cooldown = 1
  Backoff = 1
  Full = 1
  MaxUsageTime = 4
  MaxUsageEvents = 2
  Readers = {c1, c2}
  Discoveries = {1, 2}
  CatalogTTL = 1
  CatalogCooldown = 1
  CatalogBackoff = 2
  MaxCatalogTime = 2
  MaxCatalogEvents = 3
  Models = {m1}
  Leases = {l1, l2}
  MaxModelRuntime = 1
  RetryDelays = {1, 2}
  TransientThreshold = 2
  TransientWindow = 2
  TransientCooldown = 1
  MaxDelay = 3
  FailureCap = 3
  MaxModelTime = 4
  MaxModelEvents = 4
  MaxDeltas = 2
  Sessions = {o1, o2, o3}
  MaxLogins = 3
  PendingLimit = 2
  Lifetime = 2
  PollTicks = 1
  SlowTicks = 2
  Keep = 1
  LastStamp = 3
  BrowserSessions = {b1}
  MaxBackupEvents = 4
SPECIFICATION GatewaySpec
INVARIANTS UsageTrue ProbesAlone ExchangeKept NobodyWaits LoginsOnce
PROPERTIES ReadingsForward CatalogTrue FailuresWeighed BackupsSafe
CHECK_DEADLOCK FALSE
