SPECIFICATION Spec
CONSTANTS
  Requests = {r1, r2, r3}
  Accounts = {a1}
  Groups = {g1}
  Members = {u1}
  Owner <- MCOwner
  Group <- MCGroup
  Pool <- MCPool
  Eligible <- MCEligible
  QueueLimit = 1
  WaitTimeout = 1
  Delays = {1, 2}
  Limits = {1, 2}
  MemberLimits = {0, 1}
  RateLimits = {1}
  MaxRevision = 1
SYMMETRY MCSymmetry
INVARIANTS LeasesSound
PROPERTIES HealthByEvidence RateChargedOnce
