SPECIFICATION Spec
CONSTANTS
  v1 = v1
  Values = {v1}
  NoValue = NoValue
  MaxSequence = 5
  MaxWalFrames = 3
  MaxJournalIntentsInFlight = 2
  AppendFaults = {"absent"}
  FaultKinds = {"manifest"}
  FaultBudget = 1
INVARIANTS
  TypeOK
  AckedSurvive
  RecoveryExact
  
  SequenceAhead
  Reopenable
PROPERTY
  ImplementsDurableLog
