SPECIFICATION ReclaimFairSpec
CONSTANTS
  Players = {p1}
  Slots = {s1, s2, s3}
  DPages = 2
  Threshold = 2
  RaidDisks = 1
  Pages <- MCPages3
  Buckets = {0, 1}
  HashOf <- MCHash3
  NSectors = 1
  UninitMasks <- ZeroedMasks
  UrioAllowed = TRUE
  NoPage = NoPage
  NoSlot = NoSlot
  Destager = Destager
  Disk = Disk
  NPairs = 2
  PairOf <- MCPairs3
  Latencies = {1, 2}
  MinLatStart = 9
  QuietSleep = FALSE
INVARIANTS CallbackFindsPage StacksFollowLists LeastBusyPairServed
PROPERTIES AlruRequestsAnswered ReclaimEnds
CHECK_DEADLOCK FALSE
