SPECIFICATION Spec
CONSTANTS
  v1 = v1
  Values = {v1}
  NoValue = NoValue
  MaxSequence = 5
  MaxWalFrames = 3
  MaxJournalIntentsInFlight = 2
  AppendFaults = {"absent"}
  FaultKinds = {"frame", "manifest"}
  FaultBudget = 2

  
PROPERTY
  ValidFramesKept
