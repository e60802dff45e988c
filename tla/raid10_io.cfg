SPECIFICATION DataFairSpec
CONSTANTS
  Clients = {c1}
  PageSize = 1
  StripSize = 2
  RaidDisks = 2
  Pages <- MCPagesOnePair
  SpareDisk = 0
  MaxAioPerDisk = 2
  Latencies = {1}
  LatencyArraySize = 2
  MaxWrites = 1
  NoPage = NoPage
  NoIo = NoIo
INVARIANTS TypeOK DiskIosAccounted IosOnTheirPair AvgLatIsWindowSum CalledBackMeansOnDisk
PROPERTIES CallbacksOnce
CHECK_DEADLOCK FALSE
