SPECIFICATION Spec
CONSTANTS
  s1 = s1  s2 = s2  s3 = s3
  a1 = a1  a2 = a2  b1 = b1
  SSRC = {s1, s2}
  NoSSRC = NoSSRC
  Addr = {a1, a2, b1}
  Host <- MCHost
  Null = Null
  Unset = Unset
  CSRCLists = {{}}
  AcceptOwnPackets = TRUE
  ProbationType = "ProbationStore"
  ProbationCount = 2
  SenderDelay = 0
  BYEDelay = 0
  GeneralDelay = 0
SYMMETRY Symmetry
INVARIANTS ActiveCountExact AddressesAgree OwnEntryIntact
PROPERTY AddressesStick
CHECK_DEADLOCK FALSE
