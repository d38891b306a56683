SPECIFICATION FabricSpec
CONSTANTS
  Publishers = {"p1"}
  Definitions = {}
  Evidence = {"e1", "e2"}
  Contents <- MCContents
  NoOne = NoOne
  Nobody = Nobody
  Ttl = 1
  Runs <- MCRuns
  Publishes = 1
  MaxIncarnation = 3
  MaxGeneration = 8
  MaxEpoch = 2
  MaxTime = 2
  MaxGenerationsPerId = 2
  MaxIdentifiers = 1
  MaxPublishers = 2
  MaxStoredConflicts = 1
  MaxWalFrames = 4
  MaxIntents = 2
  CommitFaults = TRUE
INVARIANTS
  FabricTypeOK
  ConfirmedIsDurable
  DeclaredOnce
  OneVoice
  CounterCoversWatermark
PROPERTY
  Answered
CHECK_DEADLOCK FALSE
