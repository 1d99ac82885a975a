SPECIFICATION Spec
CONSTANTS
  SeqMod = 10
  Gap = 2
  Lag = 2
  ProbationType = "NoProbation"
  ProbationCount = 2
  MaxProbationPackets = 2
  MaxCycle = 2
  MaxQueue = 3
PROPERTY HighestReceived
CHECK_DEADLOCK FALSE
