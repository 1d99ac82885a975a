SPECIFICATION Spec
CONSTANTS
  t1 = t1  t2 = t2
  a1 = a1  a2 = a2
  Thread = {t1, t2}
  Poll = Poll
  Addr = {a1, a2}
  CollDelay = 1
  MaxSSRC = 3
  MaxBatch = 2
SYMMETRY Symmetry
INVARIANTS OneIdentity OneByeEach OwedByes ScheduledWhenQueued
PROPERTIES SilentAfterBye LoopsIgnored
CHECK_DEADLOCK FALSE
