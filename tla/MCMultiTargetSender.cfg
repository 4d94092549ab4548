SPECIFICATION FairSpec
CONSTANTS
  N = 2
  MaxWork = 3
  MaxLosses = 1
  Second = 2
  Backoff = 1
  None = None
PROPERTIES OnlyStalledIsIsolated GateOpens FanOutKeepsFence
CHECK_DEADLOCK FALSE
