SPECIFICATION FairSpec
CONSTANTS
  Slots = {s1, s2}
  Requests = {r1, r2, r3}
  MaxConnections = 1
  MaxWaiters = 2
  LowWater = 1
  IdleHigh = 1
  ValidateOnCheckout = TRUE
  ResetOnRelease = TRUE
  ReleaseCaps = {0}
  LeaseResets = TRUE
  Failing = {"create", "reset"}
  Expiring = {"create", "validate", "reset", "destroy"}
PROPERTIES
  ImplementsLeaseService
  PoolSettles
\* Every request is made once, so a pool with nothing left to do may stop.
CHECK_DEADLOCK FALSE
