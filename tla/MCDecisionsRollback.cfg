SPECIFICATION Spec
CONSTANTS
  Contracts = {1}
  Generations = {1}
  Verdicts = {v1, v2}
  None = None
  MaxDecisionsRetained = 2
  MaxLog = 2
  CommitFaults = TRUE
INVARIANT
  DecisionsAreDurable
CHECK_DEADLOCK FALSE
