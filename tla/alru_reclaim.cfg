SPECIFICATION ReclaimSpec
CONSTANTS
  Players = {p1}
  Slots = {s1, s2}
  DPages = 1
  Threshold = 1
  RaidDisks = 1
  Pages <- MCPages2
  Buckets = {0, 1}
  HashOf <- MCHash2
  NSectors = 1
  UninitMasks <- ZeroedMasks
  UrioAllowed = TRUE
  NoPage = NoPage
  NoSlot = NoSlot
  Destager = Destager
  Disk = Disk
  NPairs = 2
  PairOf <- MCPairs2
  Latencies = {1, 2}
  MinLatStart = 9
  QuietSleep = TRUE
INVARIANT ReclaimedMeansQuiet
CHECK_DEADLOCK FALSE
