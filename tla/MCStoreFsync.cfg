SPECIFICATION Spec
CONSTANTS
  v1 = v1
  v2 = v2
  Values = {v1, v2}
  NoValue = NoValue
  MaxSequence = 5
  MaxWalFrames = 3
  MaxJournalIntentsInFlight = 2
  AppendFaults = {"whole"}
  FaultKinds = {}
  FaultBudget = 0
INVARIANT
  AckedSurvive
