CONSTANTS
  Producers = {p, q}
  Quota = 1
  Sends = 3
  Letters = 1
  StopEndsLoop = FALSE
  HandleKeepsNotifier = TRUE
SPECIFICATION FairSpec
CHECK_DEADLOCK FALSE
PROPERTY JoinReturns
