SPECIFICATION Spec
CONSTANTS
  Slots = {s1, s2, s3}
  Requests = {r1, r2}
  MaxConnections = 2
  MaxWaiters = 2
  LowWater = 1
  IdleHigh = 1
  ValidateOnCheckout = TRUE
  ResetOnRelease = TRUE
  ReleaseCaps = {0}
  LeaseResets = FALSE
  Failing = {"create", "validate", "destroy"}
  Expiring = {"create", "destroy"}
INVARIANTS
  PoolInv
  GrantsAllOrNothing
  NoLostWakeup
  ShutdownHonest
PROPERTIES
  GivenUpForGood
SYMMETRY RequestSymmetry
\* Every request is made once, so a pool with nothing left to do may stop.
CHECK_DEADLOCK FALSE
