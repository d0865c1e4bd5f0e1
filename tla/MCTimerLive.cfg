CONSTANTS
  TickMs = 2
  Slots = 2
  Cap = 2
  Marks = {a, b}
  Intervals = {0, 2}
  PollMs = 6
  MaxMs = 7
  Empty = Empty
  Vacant = Vacant
  None = None
SPECIFICATION FairSpec
PROPERTIES
  ImplementsService
  EveryTimerResolves
