SPECIFICATION Spec
CONSTANTS
  Dts <- MCDts
  Int64 <- MCInt64
  Targets <- MCTargets
  MaxDelay = 2
  MaxBytes = 2
  MaxHistory = 2
  MaxPackets = 2
  None = None
CONSTRAINT Bound
VIEW View
INVARIANTS HistorySound
CHECK_DEADLOCK FALSE
