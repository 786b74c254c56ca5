SPECIFICATION FairSpec
CONSTANTS
  Callers = {c1, c2}
  Modules = {m1}
  Levels = {0, 1}
  None = None
  MaxTables = 2
  MaxQueue = 3
  MaxLost = 1
CHECK_DEADLOCK FALSE
INVARIANTS CompletionIsAlive ModulesAreLive LevelIsCurrent
PROPERTIES LevelReadReturns
