SPECIFICATION FairSpec
CONSTANTS
  Players = {p1}
  Slots = {s1, s2, s3}
  DPages = 2
  Threshold = 2
  RaidDisks = 1
  Pages <- MCPages3
  Buckets = {0, 1}
  HashOf <- MCTwoBuckets
  NSectors = 1
  UninitMasks <- GarbageMasks
  UrioAllowed = TRUE
  NoPage = NoPage
  NoSlot = NoSlot
  Destager = Destager
  Disk = Disk
INVARIANTS HashMatchesLists CallbackFindsPage DestageBounded
PROPERTIES RequestsAnswered
