SPECIFICATION Spec
CONSTANTS
  Size = 18
  Lens = {1, 2, 3}
  Counts = {3}
  InitBufs <- MCCleared
  Behind = {0}
  MaxPush = 9
  MaxOffset = 18
CHECK_DEADLOCK FALSE
INVARIANTS
  ReaderFindsUnread
