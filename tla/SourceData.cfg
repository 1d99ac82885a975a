SPECIFICATION Spec
CONSTANTS
  SeqMod = 10
  Gap = 2
  Lag = 2
  ProbationType = "ProbationStore"
  ProbationCount = 2
  MaxProbationPackets = 2
  MaxCycle = 2
  MaxQueue = 3
INVARIANTS QueueAscending NumbersExact
PROPERTY ProbationExact
CHECK_DEADLOCK FALSE
