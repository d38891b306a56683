SPECIFICATION Spec
CONSTANTS
  Contracts = {1}
  Generations = {1, 2, 3}
  Verdicts = {v1, v2}
  None = None
  MaxDecisionsRetained = 2
  MaxLog = 2
  CommitFaults = FALSE
INVARIANT
  SnapshotLoads
CHECK_DEADLOCK FALSE
