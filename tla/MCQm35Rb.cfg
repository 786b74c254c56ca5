SPECIFICATION FairSpec
CONSTANTS
  Size = 18
  Lens = {1, 3}
  Counts = {1, 3}
  InitBufs <- MCInitBufs
  Behind = {0, 4}
  MaxPush = 8
  MaxOffset = 60
CHECK_DEADLOCK FALSE
INVARIANTS
  TypeOK
  BufferIsNewest
PROPERTIES
  ImplementsTraceLog
  TraceReaderWakes
