CONSTANTS
  Marks = {a, b}
  a = a
  b = b
  Repeating = {b}
  Tokens = {t}
  Delays = {1}
  Intervals = {2}
  Capacity = 2
  MaxTasks = 3
  MaxStreams = 2
  MaxStops = 1
  MaxCancels = 1
  MaxClock = 1
SPECIFICATION FairSpec
CHECK_DEADLOCK FALSE
INVARIANTS
  TypeOK
  MapAgreesWithWheel
PROPERTIES
  RunsItsTask
  UsesService
  RunsOnItsConnection
  EveryTaskResolves
