SPECIFICATION FairSpec
CONSTANTS
  r1 = r1
  c1 = c1
  fun = fun
  graph = graph
  f = f
  Requests = {r1, c1}
  ContextRequests = {c1}
  MaxConnections = 2
  MaxOperations = 1
  MaxLoads = 3
  Keys = {fun, graph}
  NameOf <- SameName
  OptimizedOnly = {graph}
  MaxEntries = 1
  MaxVersion = 2
  MaxRefreshes = 2
  Workloads <- LeasesOrMetadata
INVARIANTS
  LeasesAccounted
PROPERTIES
  ReloadSurvives
  EverythingSettles
\* Calls are made a limited number of times, so the system may stop.
CHECK_DEADLOCK FALSE
