SPECIFICATION Spec
CONSTANTS
  None = None
  AsyncSends = 1
  MaxFragments = 2
  c1 = c1
  c2 = c2
  c3 = c3
  Calls <- CallSet
  Kinds <- KindsOf
  Sizes = {3}
  Bodies = {"success", "values", "unavailable", "malformed", "callback"}
  Callbacks = TRUE
  MaxCallbacks = 1
  MaxStray = 1
  MaxQueued = 2
INVARIANTS InStep TransmissionHonest
PROPERTIES DispositionHonest CallsSettle
CHECK_DEADLOCK FALSE
