CONSTANTS
  TickMs = 2
  Slots = 2
  Cap = 3
  Marks = {a, b, c}
  Intervals = {0, 2}
  PollMs = 6
  MaxMs = 5
  Empty = Empty
  Vacant = Vacant
  None = None
SPECIFICATION Spec
SYMMETRY MarkSymmetry
INVARIANTS
  TypeOK
  LinksSound
  CursorReachesAllDue
  StaleHandleIsHarmless
  SleepIsBounded
