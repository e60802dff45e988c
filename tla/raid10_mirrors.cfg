SPECIFICATION DataSpec
CONSTANTS
  Clients = {c1}
  PageSize = 1
  StripSize = 2
  RaidDisks = 2
  Pages <- MCPagesOnePair
  SpareDisk = 0
  MaxAioPerDisk = 2
  Latencies = {0}
  LatencyArraySize = 1
  MaxWrites = 2
  NoPage = NoPage
  NoIo = NoIo
INVARIANT MirrorsAgree
CHECK_DEADLOCK FALSE
