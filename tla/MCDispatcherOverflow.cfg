CONSTANTS
  Roles = {"server"}
  PoolSize = 2
  Cap = 1
  None = None
  MaxOpen = 2
  MaxStreams = 4
  MaxRequests = 0
  MaxLetters = 0
SPECIFICATION Spec
CHECK_DEADLOCK FALSE
INVARIANT DispatchedOnce
