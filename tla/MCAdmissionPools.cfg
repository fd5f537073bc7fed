SPECIFICATION FairSpec
CONSTANTS
  Requests = {1, 2, 3}
  Accounts = {"p", "q"}
  Groups = {"g", "h"}
  Members = {"u", "v"}
  Owner <- MCOwner
  Group <- MCGroup
  Pool <- MCPool
  Eligible <- MCEligible
  QueueLimit = 2
  WaitTimeout = 1
  Delays = {}
  Limits = {1}
  MemberLimits = {0}
  RateLimits = {0}
  MaxRevision = 0
PROPERTIES RequestsEnd
