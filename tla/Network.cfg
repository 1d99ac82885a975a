SPECIFICATION Spec
CONSTANTS
  u1 = u1  a = a  b = b  g1 = g1  g2 = g2  s1 = s1  p1 = p1  p2 = p2
  User = {u1}
  Poller = Poller
  Nobody = Nobody
  UsePollThread = TRUE
  IP = {a, b}
  Port = {1, 2}
  MaxPort = 5
  MaxAttempts = 2
  Descriptor = {1, 2, 3, 4, 5, 6, 7, 8}
  Group = {g1, g2}
  Interface = {"e"}
  Loopback = "lo"
  Multiplex = FALSE
  Address = {g1, g2}
  Datagram <- MCDatagram
  MaxQueued = 2
  HostName = {"h1", "h2"}
  MaxSize = 1
  MaxCopies = 2
  Connection = {s1}
  Base = 2
  Packet <- MCPacket
  MaxOnWire = 3
  MaxBytes = 1
  MaxInjected = 3
  SeqModulus = 2
  TimestampModulus = 2
  RandomSSRC = {1}
  RandomTimestamp = {0}
  RandomSeq = {1}
  MaxCSRCs = 1
  CSRC = {5}
  PayloadType = {96}
  Payload <- MCPayload
  Increment = {0, 1}
  Extension <- MCExtension
  MaxPacketBytes = 28
  Unset = Unset
  Refused = Refused
  MaxBuilt = 2
  MaxNow = 1
  MaxPerPacket = 2
  MaxSizes = {50, 96}
  SizeModulus = 1073741824
  MaxCollected = 5
  Invalid = Invalid
  RTCPPart <- MCRTCPPart
  RtmpChannel = {1, 2}
  RtmpMessage <- MCRtmpMessage
  RtmpChunkSize = {1, 2}
  TimeModulus = 8
  EscapeTime = 5
  NoMessage = NoMessage
  MaxRtmpMessages = 3
  MaxChunks = 2
  MaxInvokes = 9
  MaxMail = 3
  BufferFrames = 3
  MaxFrame = 7
  Property <- MCProperty
  PeerProperty <- MCPeerProperty
  MaxProperties = 3
  Rooms = {5, 6, 9, 10, 13, 14, 15, 16, 17, 18, 19, 20, 21, 22, 23, 24, 25, 26,
           27, 28, 29, 30, 31, 32, 33, 34, 35, 40, 45, 50, 80, 120}
  CharIsSigned = FALSE
  NoBytes = NoBytes
  Key = {1, 2, 3}
  Bucket = {1, 2}
  GetIndex <- MCGetIndex
  Value = {8, 9}
  Null = Null
  Dangling = Dangling
  Shape <- MCShape
  PsBufSize = 9
  MaxPiece = 3
  MaxFrames = 3
  MaxPkt = 3
  UnitSize = {2, 3, 4, 6, 8}
  MaxUnits = 3
  queueSize = 2
  Closer = {1, 2}
  MaxReceived = 3
  Source = {1, 2}
  Place <- MCPlace
  Ports = 4
  NoPlace = NoPlace
  MinInterval = 3
  ForAll = 1
  ForSenders = 2
  ForOthers = 2
  ShareOf = 2
  ImmediateBYE = FALSE
  LeastDraw = 4
  MostDraw = 12
  MaxMembers = 2
  MaxLate = 1
  Pusher = {p1, p2}
  Tag <- MCTag
  Step = 4
  NoThread = NoThread
  MaxPushes = 3
  MaxTags = 2
  MaxClock = 1
  Sender6 <- MCSender6
  Peer6 = {"p"}
  Group6 = {"g"}
  Interface6 = {"e"}
  Loopback6 = "lo"
  Portbase6 = {0, 3, 4}
  Bindable6 = {4, 5}
  HostName6 = {"h1", "h2"}
  MaxArrived6 = 1
  MaxBytes6 = 1
  MaxSessions6 = 2
  ReportModulus = 128
  Skew = 5
  StartTime = 127
  TransmissionDelay = 1
  ClockRate = 2
  MaxTicks = 2
  MaxSent = 3
  MaxReceivedPackets = 3
  MaxReports = 3
INVARIANTS NetworkTypeOK NoDeadlock WakeupsHeard NothingLeaked StateMirrored
  TrafficExact CallsInOrder FramesWhole RoundTrips 
PROPERTIES FilterExact CarriesPackets CarriesMessages KeepsOrder
CHECK_DEADLOCK FALSE
