SPECIFICATION FairSpec
CONSTANTS
  Batches <- MCBatches
  MaxTags = 3
  DropSpan = 2
  Attempts = 1
  MaxEpoch = 2
  MaxBatch = 3
  None = None
INVARIANTS
  ReconnectingNeverWaits TicketsExact EpochReportsHold OnAirDecodes
  IdleTransportIsUsable
PROPERTIES
  StopEnds FenceIsReached
