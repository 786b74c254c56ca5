SPECIFICATION Spec
CONSTANTS
  Retries = 2
  MaxErrors = 1
  MaxUpsets = 3
INVARIANTS
  SleepingQmIsWoken
  TimeoutRecovers
PROPERTIES
  TransfersResume
