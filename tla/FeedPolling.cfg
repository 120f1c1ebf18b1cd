SPECIFICATION FairSpec
CONSTANTS
  Contents <- TwoContents
  Versions <- TwoVersions
  Kinds <- BothKinds
  FreshTTL = 1
  MaxFresh = 2
  StaleWindow = 3
  StaleServe = 1
  MaxDelay = 1
  MaxFaults = 1
INVARIANTS
  NoForeignCopy
PROPERTIES
  PromiseKept
  EventuallyCurrent
