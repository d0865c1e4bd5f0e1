CONSTANTS
  Marks = {a}
  a = a
  Repeating = {a}
  Tokens = {t}
  Delays = {1, 2}
  Intervals = {1}
  Capacity = 2
  MaxTasks = 2
  MaxStreams = 1
  MaxStops = 0
  MaxCancels = 1
  MaxClock = 2
SPECIFICATION Spec
CHECK_DEADLOCK FALSE
INVARIANT RepeatStaysArmed
