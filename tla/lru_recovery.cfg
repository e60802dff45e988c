SPECIFICATION Spec
CONSTANTS
  Players = {p1, p2}
  Slots = {s1, s2}
  DPages = 1
  Threshold = 1
  RaidDisks = 1
  Pages <- MCPages2
  Buckets = {0, 1}
  HashOf <- MCTwoBuckets2
  NSectors = 2
  UninitMasks <- ZeroedMasks
  UrioAllowed = TRUE
  NoPage = NoPage
  NoSlot = NoSlot
  Destager = Destager
  Disk = Disk
SYMMETRY SlotPlayerSymmetry
INVARIANTS 
  TypeOK ListsPartitionSlots HashMatchesLists RefsCountUsers OneIoPerPage
  CallbackFindsPage DirtyBudget NoLostWrite ThreadsHold
PROPERTIES KeepsPromise
