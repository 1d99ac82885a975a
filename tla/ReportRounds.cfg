SPECIFICATION FairSpec
CONSTANTS
  name = name  note = note
  Source = {1, 2, 3}
  Items <- MCItems
  Interval <- MCInterval
  Cycle = 2
  Rooms = {1, 2}

PROPERTIES ItemsOnSchedule EverySourceReported ItemsGoOut
CHECK_DEADLOCK FALSE
