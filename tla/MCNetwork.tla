------------------------------ MODULE MCNetwork ------------------------------
(***************************************************************************)
(* The transmitters, the locks of the session, what is put on the wire and *)
(* read back, the tables, the timers and the ends of the app.  These parts *)
(* share no state at the grain of their modules, so one run checks them    *)
(* side by side: an initial state picks the part that takes the steps, and *)
(* the others keep still.                                                  *)
(***************************************************************************)
EXTENDS Endpoints, Timing, SessionLocks, ReceiveFilter, RTPPackets, RTCPCompound,
        AMF, KeyHashTable, VideoReceiver, VideoSender

CONSTANTS u1, a, b, g1, g2, s1, p1, p2

VARIABLE part

-----------------------------------------------------------------------------
(* The small sets of the instance.                                         *)

MCDatagram ==
  {[id |-> 1, empty |-> FALSE, rtcp |-> TRUE, accepted |-> TRUE],
   [id |-> 2, empty |-> TRUE, rtcp |-> FALSE, accepted |-> TRUE],
   [id |-> 3, empty |-> FALSE, rtcp |-> FALSE, accepted |-> FALSE]}
MCPacket == {<<>>, <<1, 0>>}

MCPayload == {<<9>>}
MCExtension == {<<>>, <<<<1, 2, 3, 4>>>>}
MCRTCPPart ==
  {[part |-> "block", ssrc |-> 2, lost |-> -1],
   [part |-> "source", ssrc |-> 1],
   [part |-> "item", id |-> 1, data |-> <<7>>],
   [part |-> "item", id |-> 2, data |-> <<>>],
   [part |-> "priv", prefix |-> <<5>>, value |-> <<6>>],
   [part |-> "app", subtype |-> 3, ssrc |-> 1, data |-> <<>>],
   [part |-> "bye", ssrcs |-> <<1>>, reason |-> <<>>],
   [part |-> "bye", ssrcs |-> <<1, 2>>, reason |-> <<9>>]}

MCRtmpMessage ==
  {[type |-> "video", time |-> 0, body |-> <<1, 2, 3>>],
   [type |-> "video", time |-> 3, body |-> <<4, 5, 6>>],
   [type |-> "audio", time |-> 6, body |-> <<7>>]}

Double(v) == [i \in 1 .. 8 |-> IF i = 8 THEN v ELSE 0]
Num == [name |-> <<97>>, type |-> "number", value |-> Double(64)]
Str == [name |-> <<98, 98>>, type |-> "string", value |-> <<100>>]
Ref == [name |-> <<99>>, type |-> "reference", value |-> <<>>]
Obj(n, ps) == [name |-> n, type |-> "object", value |-> ps]
(* Keys 1 and 3 share a bucket.                                            *)
MCGetIndex(k) == IF k = 2 THEN 2 ELSE 1

MCShape ==
  LET head(kind, n) == [kind |-> kind, n |-> n]
      D == head("data", 0)
  IN  {<<head("part", 0), head("pes", 2), D, D>>,
       <<head("pes", 1), D, head("pes", 1), D>>,
       <<head("audio", 0)>>,
       <<head("pes", 1), D, head("audio", 0)>>}

MCPlace == {[host |-> "h", port |-> 1], [host |-> "h", port |-> 2], [host |-> "k", port |-> 0]}

MCSender6 == {[ip |-> "a", port |-> 1]}

MCTag == {[type |-> "video", time |-> 0], [type |-> "audio", time |-> 1],
          [type |-> "script", time |-> 0]}

MCProperty ==
  {Num, Str, [name |-> <<99>>, type |-> "boolean", value |-> <<1>>],
   Obj(<<111>>, <<Str, Num>>), Obj(<<111>>, <<>>)}
MCPeerProperty ==
  {Ref, [name |-> <<110>>, type |-> "null", value |-> <<>>],
   [name |-> <<110>>, type |-> "undefined", value |-> <<>>],
   Obj(<<112>>, <<Str, Ref, Num>>),
   [name |-> <<109>>, type |-> "mixed", value |-> <<Num, Str>>],
   [name |-> <<113>>, type |-> "array",
    value |-> <<[Num EXCEPT !.name = <<>>], [Str EXCEPT !.name = <<>>]>>],
   [name |-> <<113>>, type |-> "date", value |-> Double(3)],
   [name |-> <<113>>, type |-> "longstring", value |-> <<6, 7, 8, 9>>]}

-----------------------------------------------------------------------------

Parts == {"locks", "filter", "sockets", "sends", "arrivals", "tcp", "external",
          "packets", "compound", "chunks", "rtmp", "pause", "amf", "table",
          "video", "sender", "rtsp", "camera", "dests", "scheduler", "names",
          "pusher", "waiting6", "lists6", "queue6", "losses", "delays", "jitter"}

Init ==
  /\ part \in Parts
  /\ LocksInit /\ FilterInit /\ UDPInit /\ TrafficInit /\ TCPInit /\ ExtInit
  /\ RTPInit /\ CompoundInit /\ ChunksInit /\ RtmpInit /\ PauseInit /\ AmfInit
  /\ KeyHashInit /\ VideoInit /\ SenderInit /\ RtspInit /\ CameraInit
  /\ DestInit /\ SchedInit /\ PusherInit /\ UDPv6Init
  /\ ReportsInit /\ (part # "jitter" => unitKnown)
  /\ forwarding => part = "sender"

Keep(p, vs) == part # p /\ UNCHANGED vs

(* Restarted in all its parts, the IPv4 transmitter sends without a look   *)
(* at what has arrived, and neither looks at the host name.                *)
TrafficParts == {"sends", "arrivals", "names"}
TrafficPart ==
  /\ part \in TrafficParts /\ TrafficNext
  /\ part = "sends" \/ UNCHANGED listvars
  /\ part = "arrivals" \/ UNCHANGED queuevars
  /\ part = "names" \/ UNCHANGED namevars

(* The IPv6 transmitter is Created and Destroyed in all its parts, but the *)
(* waiter, the lists with the host name, and the queue with the filter     *)
(* never look at each other.                                               *)
Parts6 == {"waiting6", "lists6", "queue6"}
UDPv6Part ==
  /\ part \in Parts6 /\ UDPv6Next
  /\ part = "waiting6" \/ UNCHANGED waitvars6
  /\ part = "lists6" \/ UNCHANGED <<listvars6, namevars6>>
  /\ part = "queue6" \/ UNCHANGED <<queuevars6, want6, without6, acceptignoreinfo6>>

(* A forced RTCP port is given only where Create reads it, and groups are  *)
(* joined under one list of addresses: joining does not look at it.        *)
SocketsPart ==
  /\ part = "sockets" /\ UDPNext
  /\ params'.forced # 0 => params'.base # 0 /\ ~params'.mux
  /\ multicastgroups' # {} => localIPs = Interface

(* A third packet comes only behind a piece of one.                        *)
TCPPart ==
  /\ part = "tcp" /\ TCPNext
  /\ \A s \in Connection : tries'[s] = 3 => tries[s] = 3 \/ flow[s] = "cut"

(* The closers are alike: the second begins after the first, and when both *)
(* have begun, two packets are enough.                                     *)
CameraPart ==
  /\ part = "camera" /\ CameraNext
  /\ closer'[2].at # "idle" => closer'[1].at # "idle" /\ received' <= 2

(* Of the reports, what a block says of losses does not depend on what the *)
(* sender's reports say, nor the jitter on the blocks; and the round trip  *)
(* takes one packet for there to be something to report on.                *)
ReportParts == {"losses", "delays", "jitter"}
ReportsPart ==
  /\ part \in ReportParts /\ ReportsNext
  /\ part = "losses" => UNCHANGED <<reportsOut, RRinf>>
  /\ Cardinality(reportsOut') <= 2
  /\ part = "delays" =>
       /\ Len(packetsOut') <= 1 /\ stats'.received <= 1
       /\ Len(blocksOut') = IF build.first' THEN 0 ELSE 1
  /\ part = "jitter" => Len(packetsOut') <= 2 /\ UNCHANGED build

Next ==
  /\ UNCHANGED part
  /\ (part = "locks" /\ LocksNext) \/ Keep("locks", lockvars)
  /\ (part = "filter" /\ FilterNext) \/ Keep("filter", filtervars)
  /\ SocketsPart \/ Keep("sockets", udpvars)
  /\ TrafficPart \/ (part \notin TrafficParts /\ UNCHANGED trafficvars)
  /\ TCPPart \/ Keep("tcp", tcpvars)
  /\ (part = "external" /\ ExtNext) \/ Keep("external", extvars)
  /\ (part = "packets" /\ RTPNext) \/ Keep("packets", rtpvars)
  /\ (part = "compound" /\ CompoundNext) \/ Keep("compound", compoundvars)
  /\ (part = "chunks" /\ ChunksNext) \/ Keep("chunks", chunkvars)
  /\ (part = "rtmp" /\ RtmpNext) \/ Keep("rtmp", rtmpvars)
  /\ (part = "pause" /\ PauseNext) \/ Keep("pause", pausevars)
  /\ (part = "amf" /\ AmfNext) \/ Keep("amf", amfvars)
  /\ (part = "table" /\ KeyHashNext) \/ Keep("table", keyhashvars)
  /\ (part = "video" /\ VideoNext) \/ Keep("video", videovars)
  /\ (part = "sender" /\ SenderNext) \/ Keep("sender", sendervars)
  /\ (part = "rtsp" /\ RtspNext) \/ Keep("rtsp", rtspvars)
  /\ CameraPart \/ Keep("camera", cameravars)
  /\ (part = "dests" /\ DestNext) \/ Keep("dests", destvars)
  /\ (part = "scheduler" /\ SchedNext) \/ Keep("scheduler", schedvars)
  /\ (part = "pusher" /\ PusherNext) \/ Keep("pusher", pushervars)
  /\ UDPv6Part \/ (part \notin Parts6 /\ UNCHANGED udp6vars)
  /\ ReportsPart \/ (part \notin ReportParts /\ UNCHANGED reportvars)

allvars == <<part, lockvars, filtervars, udpvars, trafficvars, tcpvars, extvars,
             rtpvars, compoundvars, chunkvars, rtmpvars, pausevars, amfvars,
             keyhashvars, videovars, sendervars, rtspvars, cameravars,
             destvars, schedvars, pushervars, udp6vars, reportvars>>

Spec == Init /\ [][Next]_allvars

-----------------------------------------------------------------------------

(* Every part's variables keep their form.                                 *)
NetworkTypeOK ==
  CASE part = "locks" -> LocksTypeOK
    [] part = "filter" -> FilterTypeOK
    [] part = "sockets" -> UDPTypeOK
    [] part \in TrafficParts -> TrafficTypeOK
    [] part = "tcp" -> TCPTypeOK
    [] part = "external" -> ExtTypeOK
    [] part = "packets" -> RTPTypeOK
    [] part = "compound" -> CompoundTypeOK
    [] part = "chunks" -> ChunksTypeOK
    [] part = "rtmp" -> RtmpTypeOK
    [] part = "pause" -> PauseTypeOK
    [] part = "amf" -> AmfTypeOK
    [] part = "table" -> HashTypeOK
    [] part = "video" -> VideoTypeOK
    [] part = "sender" -> SenderTypeOK
    [] part = "rtsp" -> RtspTypeOK
    [] part = "camera" -> CameraTypeOK
    [] part = "dests" -> DestTypeOK
    [] part = "scheduler" -> SchedTypeOK
    [] part = "pusher" -> PusherTypeOK
    [] part \in Parts6 -> UDPv6TypeOK
    [] part \in ReportParts -> ReportsTypeOK

(* What the builders write, the parsers read as it was meant: RTP packets, *)
(* RTCP compound packets, AMF values, H.264 units cut into packets, and    *)
(* the video of program stream frames that came in packets.                *)
RoundTrips ==
  /\ part = "packets" => PacketsSound
  /\ part = "compound" => CompoundSound
  /\ part = "amf" => AmfSound
  /\ part = "video" => VideoSound
  /\ part = "sender" => VideoSenderSound
=============================================================================
