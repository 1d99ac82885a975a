SPECIFICATION FairSpec
CONSTANTS
  t1 = t1  t2 = t2
  a1 = a1  a2 = a2
  Thread = {t1}
  Poll = Poll
  Addr = {a1, a2}
  CollDelay = 0
  MaxSSRC = 3
  MaxBatch = 1
PROPERTY QueuedByesGoOut
CHECK_DEADLOCK FALSE
