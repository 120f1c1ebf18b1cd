SPECIFICATION FairSpec
CONSTANTS
  Totals = {1, 3, 7, 9}
  ChunkSize = 2
  Concurrency = 2
  MaxAttempts = 3
  MaxPlanChunks = 4
INVARIANTS
  HandedOverWhole
  NeverStalled
  RetriesAccounted
PROPERTIES
  StageEnds
