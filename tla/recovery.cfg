SPECIFICATION FairSpec
CONSTANTS
  ReadSize = 1
  WriteSize = 4
  BufferSize = 6
  StartPoint = 2
  EndPoint = 14
  WarmupLines = 1
  EndLines = 3
  TraceLines = 4
  MaxUio = 1
INVARIANTS TypeOK RebuildWindow WriteWasRead NeverStuck
PROPERTIES PhaseOpensOnce RebuildEnds
CHECK_DEADLOCK FALSE
