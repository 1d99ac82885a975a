SPECIFICATION PollSpec
CONSTANTS
  MaxThreads = 1
  MaxDelay = 4
  MaxWork = 1
  StopLimit = 2
INVARIANTS FullControl
CHECK_DEADLOCK FALSE
