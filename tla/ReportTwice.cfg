SPECIFICATION Spec
CONSTANTS
  name = name  note = note
  Source = {1, 2, 3}
  Items <- MCItems
  Interval <- MCNever
  Cycle = 2
  Rooms = {1, 2}
INVARIANT OneBlockEach
CHECK_DEADLOCK FALSE
