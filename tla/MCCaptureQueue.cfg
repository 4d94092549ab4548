SPECIFICATION FairSpec
CONSTANTS
  Step <- MCStep
  MaxLag = 1
  Budget = 4
  Limit = 3
  Capacity = 5
  MaxNow = 7
  MaxRequests = 1
  None = None
INVARIANTS TakenInOrder OnlyRevokedIsGone LagIsTolerated
PROPERTIES StallEnds
CHECK_DEADLOCK FALSE
