SPECIFICATION InspectionSpec
CONSTANTS
  v1 = v1
  Values = {v1}
  NoValue = NoValue
  MaxSequence = 6
  MaxWalFrames = 3
  MaxJournalIntentsInFlight = 1
  AppendFaults = {}
  FaultKinds = {}
  FaultBudget = 0
  MaxInspections = 1
INVARIANT
  InspectionTakesNothing
