SPECIFICATION Spec
CONSTANTS
  Step <- MCStep
  MaxLag = 2
  Budget = 6
  Limit = 5
  Capacity = 16
  MaxNow = 10
  MaxRequests = 1
  None = None
INVARIANTS OnlyStallsEnd
CHECK_DEADLOCK FALSE
