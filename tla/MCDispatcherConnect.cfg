CONSTANTS
  Roles = {"connector"}
  PoolSize = 1
  Cap = 2
  None = None
  MaxOpen = 2
  MaxStreams = 2
  MaxRequests = 0
  MaxLetters = 0
SPECIFICATION Spec
CHECK_DEADLOCK FALSE
INVARIANT ConnectedIsUsable
