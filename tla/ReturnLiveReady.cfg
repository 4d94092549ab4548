SPECIFICATION SessionSpec
CONSTANTS
  Dts <- MCDts
  Int64 <- MCInt64
  Targets <- MCTargets
  MaxDelay = 2
  MaxBytes = 8
  MaxHistory = 4
  MaxPackets = 8
  LastSlot = 9
  MaxGap = 3
  None = None
PROPERTIES ReturnLiveKeepsBufferReady
CHECK_DEADLOCK FALSE
