SPECIFICATION MCSpec
CONSTANTS
  fun = fun
  tab = tab
  alice = alice
  bob = bob
  carol = carol
  Lookups = {l1, l2}
  Objects = {fun, tab}
  Principals = {alice, bob, carol}
  Mode <- Modes3
  Sizes = {2, 3}
  MaxEntries = 1
  MaxRetainedBytes = 2
  MaxProbes = 1
  MaxAuthorizations = 1
  MaxObjectEpochs = 1
  MaxLoads = 1
  MaxVersion = 2
INVARIANTS RepositoryInv WithinLimits
PROPERTIES ImplementsMetadataService EverythingEnds
\* A retired repository starts nothing, so the system may stop.
CHECK_DEADLOCK FALSE
