SPECIFICATION Spec
CONSTANTS
  Publishers = {}
  Definitions = {d1, d2}
  Evidence = {}
  Contents = {c1, c2}
  NoOne = NoOne
  Ttl = 1
  MaxIncarnation = 1
  MaxGeneration = 3
  MaxEpoch = 2
  MaxTime = 1
  MaxGenerationsPerId = 1
  MaxIdentifiers = 2
  MaxPublishers = 1
  MaxStoredConflicts = 1
  MaxWalFrames = 4
  MaxIntents = 2
  CommitFaults = FALSE
INVARIANT
  CanReopen
CHECK_DEADLOCK FALSE
