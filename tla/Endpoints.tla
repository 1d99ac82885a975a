------------------------------ MODULE Endpoints ------------------------------
(***************************************************************************)
(* What the transmitters and the ends of the app keep, component by        *)
(* component: each state machine runs by itself, and a property here says  *)
(* the same kind of thing of all that are exposed to the same hazard.      *)
(***************************************************************************)
EXTENDS UDPTransmitter, UDPTraffic, UDPv6Transmitter, TCPTransmitter,
        ExternalTransmitter, IpCamera, ReceiverDestinations, RtmpSession,
        RtmpPause, RtmpPusher, RtspClient

(* A wait that began before a socket was added or a packet was injected is *)
(* told of it, in the TCP and in the external transmitter; in the IPv6     *)
(* transmitter none outlives the session it began in.                      *)
WakeupsHeard == NewSocketHeard /\ InjectedHeard /\ WaitersSafe6

(* Nothing a UDP transmitter opens or the TCP transmitter allocates is     *)
(* dropped: each is in use or was given back.  What a handle of the app    *)
(* runs is ended, but for two cases, and what it freed is used only by     *)
(* calls that overlap; its queue drops the oldest packets only.            *)
NothingLeaked ==
  /\ NoSocketLost /\ NoBufferLost /\ CameraSound
  /\ DescriptorsGivenBack6

(* The tables of the UDP transmitters say what the sockets and the kernel  *)
(* hold: port pairs, memberships, the one name they give away, and nothing *)
(* of the session before; and a destination of the receiver belongs to     *)
(* somebody who is there, unless an RTCP port misled it.                   *)
StateMirrored ==
  /\ PortsPaired /\ MembershipsMatch /\ OneHostName
  /\ DestinationsSound
  /\ SessionsApart6

(* The requests of the RTMP publisher and of the RTSP client go out in the *)
(* order of the protocol, each after the answer it has to wait for.        *)
CallsInOrder == RtmpCallsSound /\ HandshakeInOrder

(* What is given to the RTMP side is passed on whole: the frames of a      *)
(* stream over pause and resume, and the messages of the publisher while   *)
(* threads push at once.                                                   *)
FramesWhole == FramesInFull /\ PusherSound
=============================================================================
