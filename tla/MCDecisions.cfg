SPECIFICATION Spec
CONSTANTS
  Contracts = {1, 2}
  Generations = {1, 2}
  Verdicts = {v1, v2}
  None = None
  MaxDecisionsRetained = 2
  MaxLog = 2
  CommitFaults = TRUE
INVARIANTS
  TypeOK
  OrderCovers
  ServesCommitted
  LatestSurvives
CHECK_DEADLOCK FALSE
