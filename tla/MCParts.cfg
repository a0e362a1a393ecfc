SPECIFICATION PartsSpec
CONSTANTS
  Contexts = {c1, c2}
  MaxRefs = 2
  Observed = TRUE
  Routes <- TheRoutes
  Callers = {a, b, c}
  MaxAttempts = 3
  MaxTransactions = 3
INVARIANTS
  ContextInv
  OnePartner
  NothingLeft
PROPERTIES
  ReusedOnlyWhileOpen
  CallsAnswered
  ConnectionSettles
CHECK_DEADLOCK FALSE
