CONSTANTS
  Sizes = {1, 2}
  Room = 1
  Requests <- MCRequests
  MaxBytes = 3
  MaxInputs = 2
SPECIFICATION Spec
CHECK_DEADLOCK FALSE
INVARIANT NoInfiniteWrite
