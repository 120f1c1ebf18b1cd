SPECIFICATION FairSpec
CONSTANTS
  Feeds = {f1}
  Metered = {f1}
  Requests = {r1, r2}
  Tasks = {t1}
  Locks <- EnoughLocks
  NoLock = NoLock
  NoFeed = NoFeed
  FreshTTL = 1
  Jitter = 0
  DegradedTTL = 1
  MaxFresh = 1
  StaleWindow = 2
  QuotaPeriod = 4
  MaxTracked = 4
  MaxTime = 2
  MaxLate = 1
  StoreFaults = TRUE
  Disconnects = TRUE
INVARIANTS
  OnePassPerFeed
PROPERTIES
  EverybodyFinishes
