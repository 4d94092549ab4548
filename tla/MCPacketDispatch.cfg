SPECIFICATION DispatchSpec
CONSTANTS
  Consumers = {c1, c2}
  OwnerEpoch = 1
  MaxRequests = 2
  None = None
  MaxEpoch = 5
CONSTRAINT Bound
CHECK_DEADLOCK FALSE
INVARIANTS NothingRefused EpochsInOrder
PROPERTY KeepsFence
