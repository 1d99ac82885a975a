SPECIFICATION Spec
CONSTANTS
  s1 = s1  s2 = s2  s3 = s3
  a1 = a1  a2 = a2  b1 = b1
  SSRC = {s1, s2, s3}
  NoSSRC = NoSSRC
  Addr = {a1}
  Host <- MCHost
  Null = Null
  Unset = Unset
  CSRCLists <- MCLists
  AcceptOwnPackets = FALSE
  ProbationType = "NoProbation"
  ProbationCount = 1
  SenderDelay = 0
  BYEDelay = 0
  GeneralDelay = 0
SYMMETRY Symmetry
INVARIANTS CountsExact ActiveCountNotOver
PROPERTY ChangesAnnounced
CHECK_DEADLOCK FALSE
