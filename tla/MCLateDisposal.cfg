SPECIFICATION FairSpec
CONSTANTS
  Generations = {g1}
  Lanes = {"application"}
  Opens = {o1}
  Reentrant = {"generation", "runtime"}
  MaxCalls = 1
  MaxFailures = 0
PROPERTIES LateDisposalIsAnswered
CHECK_DEADLOCK FALSE
