SPECIFICATION ProbeSpec
CONSTANT
  Callers = {c1}
  MaxRegFails = 2
CHECK_DEADLOCK FALSE
INVARIANTS UsersGoFirst UnboundIsUndone
  QmIsExclusive StartedIsListening PowerFollowsFlag
PROPERTY TransportComesBack
