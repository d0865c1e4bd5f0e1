CONSTANTS
  Producers = {p, q}
  Quota = 2
  Sends = 3
  Letters = 1
  StopEndsLoop = TRUE
  HandleKeepsNotifier = FALSE
SPECIFICATION FairSpec
CHECK_DEADLOCK FALSE
INVARIANTS
  TypeOK
  NoLostWakeup
  StopDrainsAhead
  ThreadOrderKept
PROPERTIES
  QueuedIsHandled
  QuitEnds
  JoinReturns
