SPECIFICATION FairSpec
CONSTANTS
  Expected = 20
  Buffer = 3
  Capacity = 2
  MaxInterrupts = 1
INVARIANTS
  EndsCompleteOrBroken
  StderrFailsStream
PROPERTIES
  Gapless
  RefinesDeclaredTransfer
  AlwaysReaped
  TransferEnds
