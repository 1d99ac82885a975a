SPECIFICATION Spec
CONSTANTS
  t1 = t1  t2 = t2  t3 = t3
  Thread = {t1, t2, t3}
  Owner = t1
  NoOne = NoOne
  MaxBytes = 3
  MaxThreads = 2
  MaxDelay = 4
  MaxWork = 1
  StopLimit = 2
INVARIANTS WaitSafe PollSafe
PROPERTIES AbortHeard CallsReturn StopEndsThread
CHECK_DEADLOCK FALSE
