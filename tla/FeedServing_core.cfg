SPECIFICATION Spec
SYMMETRY Alike
CONSTANTS
  Feeds = {f1, f2}
  Metered = {f1, f2}
  Requests = {r1, r2}
  Tasks = {t1}
  Locks <- EnoughLocks
  NoLock = NoLock
  NoFeed = NoFeed
  FreshTTL = 1
  Jitter = 0
  DegradedTTL = 1
  MaxFresh = 2
  StaleWindow = 4
  QuotaPeriod = 2
  MaxTracked = 4
  MaxTime = 4
  MaxLate = 1
  StoreFaults = FALSE
  Disconnects = FALSE
INVARIANTS
  BreakerHoldsUntilReset
  NoSecondExhaustion
PROPERTIES
  DegradedExpiresSoon
  NeverDowngraded
  StalePreferredToFailing
  FreshAgesThroughStale
  GenerationsAdvance
  RefinesCoalesced
