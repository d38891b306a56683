SPECIFICATION Spec
CONSTANTS
  Publishers = {p1, p2}
  Definitions = {}
  Evidence = {e1}
  Contents = {c1}
  NoOne = NoOne
  Ttl = 1
  MaxIncarnation = 2
  MaxGeneration = 2
  MaxEpoch = 3
  MaxTime = 2
  MaxGenerationsPerId = 1
  MaxIdentifiers = 1
  MaxPublishers = 2
  MaxStoredConflicts = 1
  MaxWalFrames = 4
  MaxIntents = 2
  CommitFaults = TRUE
INVARIANTS
  TypeOK
  FencingIsDurable
  Fenced
  GenerationsOrdered
  Attributable
PROPERTY
  GrantedOnce
CHECK_DEADLOCK FALSE
