CONSTANTS
  m1 = m1
  m2 = m2
  m3 = m3
  p1 = p1
  k1 = k1
  Users = {admin, m1, m2, m3}
  Admin = admin
  Calls = {c1, c2}
  HashSlots = 2
  MaxSessions = 2
  SessionTTL = 2
  ChallengeTTL = 1
  InvitationTTL = 1
  MaxChallenges = 2
  MaxPasskeys = 2
  FactorBudget = 1
  FactorWindow = 1
  MaxWindows = 1
  CodesPerBatch = 1
  MaxCalls = 3
  MaxFresh = 13
  MaxNow = 2
  People = {admin, m1, m2}
  Founder = admin
  Pools = {p1, p2}
  Accounts = {a1, ch}
  Channels = {ch}
  Keys = {k1, k2}
  Requests = {c1, c2}
  MaxGroups = 2
  MaxActiveKeys = 1
  MaxSchemes = 1
  MaxOwned = 2
  MaxSteps = 4
SYMMETRY Symmetry
SPECIFICATION ConsoleSpec
INVARIANTS SessionsSound UsedOnce PoolsReserved ConsoleTrue
PROPERTIES ChangesInOrder MembershipGuarded KeysSound
CHECK_DEADLOCK FALSE
