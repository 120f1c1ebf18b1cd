SPECIFICATION Spec
CONSTANTS
  r1 = r1
  r2 = r2
  legacy = legacy
  Requests <- Two
  Direct <- TwoStaged
  Capacity = 1
  DiskErrors = FALSE
  MaxCrashes = 0
INVARIANTS
  NoUnownedFile
