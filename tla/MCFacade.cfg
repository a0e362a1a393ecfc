SPECIFICATION FairSpec
CONSTANTS
  d = d
  m1 = m1
  m2 = m2
  Direct = d
  Managed <- TheManaged
  AcquireCalls <- TheCalls
  MaxConnections = 2
  Stateless = TRUE
  MaxLeases = 4
  Workloads <- TheWorkloads
INVARIANTS
  OneHolder
  NothingLeftBehind
CHECK_DEADLOCK FALSE
PROPERTY
  CallsEnd
