SPECIFICATION Spec
CONSTANTS
  SectorSize = 2
  WordSectors = 3
  PageSize = 12
  MaxOffset = 25
  MaxLength = 30
INVARIANTS SlicesCoverRequest PiecesAreRuns
CHECK_DEADLOCK FALSE
