SPECIFICATION FairSpec
CONSTANTS
  Duration = 1
  Bitrate = 10
  Kilo = 8
  Clients = {d, p}
  Downloaders = {d}
  Ranges <- SomeRanges
  UrlTTL = 2
  MaxTime = 3
  MaxRotations = 1
  MaxFaults = 2
INVARIANTS
  DownloadWhole
PROPERTIES
  RetriesHeal
