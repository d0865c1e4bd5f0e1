CONSTANTS
  Roles = {"server", "connector"}
  PoolSize = 2
  Cap = 2
  None = None
  MaxOpen = 2
  MaxStreams = 3
  MaxRequests = 1
  MaxLetters = 2
SPECIFICATION FairSpec
CHECK_DEADLOCK FALSE
INVARIANTS
  TypeOK
  SharedAgrees
  EndsOnlyWithoutPeer
  NoStreamLost
  NoneStranded
PROPERTIES
  RemovesItsOwn
  ImplementsTable
  EveryStreamIsServed
  EndedIsForgotten
