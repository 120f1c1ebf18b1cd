SPECIFICATION Spec
CONSTANTS
  Videos = {1, 2, 3, 4}
  Sources <- SmallSources
  Shorts = {1}
  Untimed = {3}
  MaxItems = 3
  PerCall = 2
  AtomCap = 2
  FilterShorts = TRUE
  MaxChanges = 2
INVARIANTS
  StoredFeedServed
