SPECIFICATION FairSpec
CONSTANTS
  Players = {p1}
  Slots = {s1, s2, s3}
  DPages = 2
  Threshold = 2
  RaidDisks = 1
  Pages <- MCPages2
  Buckets = {0, 1}
  HashOf <- MCTwoBuckets2
  NSectors = 2
  UninitMasks <- ZeroedMasks
  UrioAllowed = TRUE
  NoPage = NoPage
  NoSlot = NoSlot
  Destager = Destager
  Disk = Disk
PROPERTIES CandidateLoopEnds
