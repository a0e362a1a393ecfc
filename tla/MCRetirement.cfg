SPECIFICATION MCSpec
CONSTANTS
  g3 = g3
  Generations = {g1, g2, g3}
  Lanes = {"application"}
  Opens = {o1}
  Reentrant = {"generation"}
  MaxCalls = 1
  MaxFailures = 1
INVARIANTS NoCircularWait SettledMeansDone
PROPERTIES RetirementsSettle
\* Once all is retired nothing is left to do.
CHECK_DEADLOCK FALSE
