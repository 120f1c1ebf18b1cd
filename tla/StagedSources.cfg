SPECIFICATION FairSpec
CONSTANTS
  r1 = r1
  r2 = r2
  legacy = legacy
  Requests <- Two
  Direct <- TwoStaged
  Capacity = 1
  DiskErrors = TRUE
  MaxCrashes = 1
INVARIANTS
  OwnedWithinCapacity
  OnlyKnownStrays
  SourceStays
PROPERTIES
  RefinesSlottedFiles
  NobodyStarves
  SlotsReturn
