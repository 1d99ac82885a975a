--------------------------- MODULE TCPTransmitter ---------------------------
(***************************************************************************)
(* RTPTCPTransmitter: packets over TCP connections that the application    *)
(* made.  A packet is sent as two length bytes and its data; the receiver  *)
(* puts it together from whatever pieces arrive.  Either send may fail or  *)
(* take fewer bytes than it was given; the sender does not look at the     *)
(* count and goes on using the socket.  A byte is a digit below Base here, *)
(* so that the bytes of lengths and of data can be mistaken for each other *)
(* as in the code.  Each call is a section under m_mainMutex; one          *)
(* iteration of the loop in PollSocket is a step, as more data may arrive  *)
(* before the next.                                                        *)
(***************************************************************************)
EXTENDS Naturals, Sequences, FiniteSets

CONSTANTS
  Connection,
  Base,     \* 256 in the code
  Packet,   \* packets the peers send, sequences of bytes
  MaxOnWire,  \* bound on the calls of a peer's send and on the queue
  MaxBytes  \* bound on the bytes in the abort pipe

Byte == 0 .. Base - 1
MaxPacketSize == Base * Base - 1

ASSUME TCPAssumption ==
  /\ Base \in Nat /\ Base > 1
  /\ Packet \subseteq Seq(Byte) /\ \A p \in Packet : Len(p) <= MaxPacketSize

VARIABLES
  destSockets,    \* DOMAIN m_destSockets
  lengthBuffer,   \* m_lengthBuffer up to m_lengthBufferOffset, per socket
  dataBuffer,     \* m_pDataBuffer up to m_dataBufferOffset
  wire,           \* bytes of a connection that were not read yet
  flow,           \* what the peer has made of the stream, see FlowAfter
  tries,          \* calls of SendRTPRTCPData by the peer, bounded
  rawpackets,     \* m_rawpacketlist
  buffers,        \* data buffers that are allocated
  watched,        \* m_tmpSocks of a wait, or no wait
  pipe,           \* bytes in the abort pipe
  sent, got       \* packets sent whole and put together, per connection

peer == <<flow, tries, sent>>
connection == <<lengthBuffer, dataBuffer, wire, peer, got>>
tcpvars == <<destSockets, connection, rawpackets, buffers, watched, pipe>>

NoWait == [waiting |-> FALSE, socks |-> {}]
InData(s) == Len(lengthBuffer[s]) = 2
DataLength(bytes) == bytes[1] * Base + bytes[2]

TCPTypeOK ==
  /\ destSockets \subseteq Connection
  /\ \A s \in Connection :
       /\ lengthBuffer[s] \in Seq(Byte) /\ Len(lengthBuffer[s]) <= 2
       /\ dataBuffer[s] \in Seq(Byte)
       /\ dataBuffer[s] # <<>> =>
            InData(s) /\ Len(dataBuffer[s]) < DataLength(lengthBuffer[s])
       /\ s \notin destSockets => lengthBuffer[s] = <<>>
  /\ flow \in [Connection -> {"none", "whole", "cut", "astray"}]
  /\ tries \in [Connection -> 0 .. MaxOnWire]
  /\ buffers \in Nat /\ pipe \in 0 .. MaxBytes
  /\ watched \in [waiting : BOOLEAN, socks : SUBSET Connection]

EachEmpty == [s \in Connection |-> <<>>]

TCPInit ==
  /\ destSockets = {} /\ lengthBuffer = EachEmpty /\ dataBuffer = EachEmpty
  /\ wire = EachEmpty /\ tries = [s \in Connection |-> 0]
  /\ flow = [s \in Connection |-> "none"]
  /\ rawpackets = <<>> /\ buffers = 0
  /\ watched = NoWait /\ pipe = 0
  /\ sent = EachEmpty /\ got = EachEmpty

-----------------------------------------------------------------------------
(* The peer, which runs SendRTPRTCPData of the same class.                 *)

LengthBytes(p) == <<Len(p) \div Base, Len(p) % Base>>
Bytes(p) == LengthBytes(p) \o p

(* What of a packet the two sends write: a first one that fails writes     *)
(* nothing and there is no second; one that is short does not keep the     *)
(* second from being made.                                                 *)
MaybeWritten(p) ==
  {<<>>} \cup {SubSeq(LengthBytes(p), 1, k) \o SubSeq(p, 1, n) :
                 k \in 1 .. 2, n \in 0 .. Len(p)}

(* The stream is whole while it ends where a packet does, cut when it ends *)
(* in the middle of one, and astray when more is written after that.       *)
FlowAfter(f, p, b) ==
  CASE b = <<>> -> f
    [] f = "whole" /\ b = Bytes(p) -> "whole"
    [] f = "whole" /\ Len(b) \in 1 .. Len(Bytes(p)) - 1
         /\ b = SubSeq(Bytes(p), 1, Len(b)) -> "cut"
    [] OTHER -> "astray"

(* OnSendError does nothing, and the next packet goes to the same socket.  *)
SendRTPRTCPData(s, p) ==
  /\ flow[s] # "none" /\ tries[s] < MaxOnWire
  /\ tries' = [tries EXCEPT ![s] = @ + 1]
  /\ \E b \in MaybeWritten(p) :
       /\ wire' = [wire EXCEPT ![s] = @ \o b]
       /\ flow' = [flow EXCEPT ![s] = FlowAfter(@, p, b)]
       /\ sent' = IF flow[s] = "whole" /\ b = Bytes(p)
                  THEN [sent EXCEPT ![s] = Append(@, p)] ELSE sent
  /\ UNCHANGED <<destSockets, lengthBuffer, dataBuffer, rawpackets, buffers,
                 watched, pipe, got>>

-----------------------------------------------------------------------------
(* Destinations.  A socket is added once per connection: to delete it and  *)
(* add it again would leave the rest of a packet in the stream.            *)

TCPAddDestinationQuiet(s) ==
  /\ s \notin destSockets /\ pipe < MaxBytes
  /\ destSockets' = destSockets \cup {s}
  /\ flow' = [flow EXCEPT ![s] = "whole"] /\ tries' = [tries EXCEPT ![s] = 0]
  /\ wire' = [wire EXCEPT ![s] = <<>>]
  /\ sent' = [sent EXCEPT ![s] = <<>>] /\ got' = [got EXCEPT ![s] = <<>>]
  /\ UNCHANGED <<lengthBuffer, dataBuffer, rawpackets, buffers, watched, pipe>>

TCPAddDestination(s) ==
  /\ s \notin destSockets /\ pipe < MaxBytes
  /\ destSockets' = destSockets \cup {s}
  /\ flow' = [flow EXCEPT ![s] = "whole"] /\ tries' = [tries EXCEPT ![s] = 0]
  /\ wire' = [wire EXCEPT ![s] = <<>>]
  /\ sent' = [sent EXCEPT ![s] = <<>>] /\ got' = [got EXCEPT ![s] = <<>>]
  /\ pipe' = pipe + 1
  /\ UNCHANGED <<lengthBuffer, dataBuffer, rawpackets, buffers, watched>>

Allocated(S) == Cardinality({s \in S : InData(s)})

ForgetLeaky(S) ==
  /\ destSockets' = destSockets \ S
  /\ lengthBuffer' = [s \in Connection |->
                       IF s \in S THEN <<>> ELSE lengthBuffer[s]]
  /\ dataBuffer' = [s \in Connection |->
                     IF s \in S THEN <<>> ELSE dataBuffer[s]]
  /\ UNCHANGED buffers

(* The buffer of a packet in the making is freed with its socket.          *)
Forget(S) ==
  /\ destSockets' = destSockets \ S
  /\ lengthBuffer' = [s \in Connection |->
                       IF s \in S THEN <<>> ELSE lengthBuffer[s]]
  /\ dataBuffer' = [s \in Connection |->
                     IF s \in S THEN <<>> ELSE dataBuffer[s]]
  /\ buffers' = buffers - Allocated(S)

TCPDeleteDestination(s) ==
  /\ s \in destSockets /\ Forget({s})
  /\ UNCHANGED <<wire, peer, got, rawpackets, watched, pipe>>

TCPClearDestinations ==
  /\ destSockets # {} /\ Forget(destSockets)
  /\ UNCHANGED <<wire, peer, got, rawpackets, watched, pipe>>

-----------------------------------------------------------------------------
(* PollSocket: ProcessAvailableBytes with n bytes available, and what is   *)
(* done with a packet that is complete.                                    *)

Least(a, b) == IF a < b THEN a ELSE b
LengthPart(s, n) == Least(2 - Len(lengthBuffer[s]), n)
DataPartGreedy(s, n, have, len) == n
DataPart(s, n, have, len) == Least(len - have, n)

TCPReceive(s, n) ==
  LET r == LengthPart(s, n)
      length == lengthBuffer[s] \o SubSeq(wire[s], 1, r)
      whole == Len(length) = 2
      len == IF whole THEN DataLength(length) ELSE 0
      d == IF whole THEN DataPart(s, n - r, Len(dataBuffer[s]), len) ELSE 0
      data == dataBuffer[s] \o SubSeq(wire[s], r + 1, r + d)
      complete == whole /\ Len(data) >= len
  IN  /\ s \in destSockets /\ n \in 1 .. Len(wire[s])
      /\ n <= MaxPacketSize + 2 /\ Len(rawpackets) < MaxOnWire
      /\ wire' = [wire EXCEPT ![s] = SubSeq(@, r + d + 1, Len(@))]
      /\ lengthBuffer' = [lengthBuffer EXCEPT
                            ![s] = IF complete THEN <<>> ELSE length]
      /\ dataBuffer' = [dataBuffer EXCEPT ![s] = IF complete THEN <<>> ELSE data]
      /\ got' = IF complete THEN [got EXCEPT ![s] = Append(@, data)] ELSE got
      /\ rawpackets' = IF complete THEN Append(rawpackets, s) ELSE rawpackets
      /\ buffers' = buffers + (IF whole /\ ~InData(s) THEN 1 ELSE 0)
      /\ UNCHANGED <<destSockets, peer, watched, pipe>>

TCPGetNextPacket ==
  /\ rawpackets # <<>> /\ rawpackets' = Tail(rawpackets)
  /\ buffers' = buffers - 1
  /\ UNCHANGED <<destSockets, connection, watched, pipe>>

-----------------------------------------------------------------------------
(* WaitForIncomingData takes the sockets of its beginning; TCPAddDestination  *)
(* signals the pipe whether or not there is a wait.                        *)

WaitBegins ==
  /\ ~watched.waiting
  /\ watched' = [waiting |-> TRUE, socks |-> destSockets]
  /\ UNCHANGED <<destSockets, connection, rawpackets, buffers, pipe>>

WaitEnds ==
  /\ watched.waiting /\ watched' = NoWait
  /\ \/ pipe > 0 /\ pipe' = pipe - 1
     \/ pipe = 0 /\ UNCHANGED pipe
  /\ UNCHANGED <<destSockets, connection, rawpackets, buffers>>

TCPAbortWait ==
  /\ watched.waiting /\ pipe < MaxBytes /\ pipe' = pipe + 1
  /\ UNCHANGED <<destSockets, connection, rawpackets, buffers, watched>>

(* Destroy, which waits for a wait to end, and Create.                     *)
TCPRestart ==
  /\ destSockets' = {} /\ rawpackets' = <<>>
  /\ lengthBuffer' = EachEmpty /\ dataBuffer' = EachEmpty
  /\ buffers' = buffers - Allocated(destSockets) - Len(rawpackets)
  /\ watched' = NoWait /\ pipe' = 0
  /\ UNCHANGED <<wire, peer, got>>

TCPNext ==
  \/ \E s \in Connection :
       \/ TCPAddDestination(s) \/ TCPDeleteDestination(s)
       \/ \E p \in Packet : SendRTPRTCPData(s, p)
       \/ \E n \in 1 .. Len(wire[s]) : TCPReceive(s, n)
  \/ TCPClearDestinations \/ TCPGetNextPacket
  \/ WaitBegins \/ WaitEnds \/ TCPAbortWait \/ TCPRestart

TCPSpec == TCPInit /\ [][TCPNext]_tcpvars

-----------------------------------------------------------------------------

(* Each connection is a channel of the packets that were sent whole before *)
(* the first that was not, in whatever pieces the bytes arrive: they come  *)
(* out whole and in order, and nothing else comes out unless something was *)
(* written after the piece of a packet.                                    *)
Delivered ==
  [s \in Connection |-> SubSeq(got[s], 1, Least(Len(got[s]), Len(sent[s])))]
Channel ==
  INSTANCE MessageChannel
    WITH Connection <- Connection, Message <- Packet, delivered <- Delivered
NothingMadeUp ==
  \A s \in Connection : flow[s] # "astray" => Len(got[s]) <= Len(sent[s])
CarriesPackets == Channel!Spec /\ []NothingMadeUp

(* Every data buffer belongs to a packet in the making or in the queue:    *)
(* ~SocketData asserts that its buffer was taken out before.               *)
NoBufferLost == buffers = Allocated(destSockets) + Len(rawpackets)

(* A wait does not sleep on without a socket that was added after it began *)
(* ("otherwise it could take a few seconds until the new socket is         *)
(* monitored for incoming data").                                          *)
NewSocketHeard ==
  watched.waiting /\ ~(destSockets \subseteq watched.socks) => pipe > 0
=============================================================================
