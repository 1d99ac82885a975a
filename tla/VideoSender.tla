----------------------------- MODULE VideoSender -----------------------------
(***************************************************************************)
(* CRTPSender: H.264 units are cut into packets (SendH264Nalu), or packets *)
(* that came from a receiver are passed on (SendRtpData); an app does one  *)
(* or the other.  Byte i of unit u is <<u, i>>, the first being its header.*)
(* Each call sets the marker and the increment it uses, 1 standing for the *)
(* clock ticks of a frame.  A packet that is refused ends the call.        *)
(***************************************************************************)
EXTENDS Integers, Sequences, SequencesExt, FiniteSets

CONSTANTS
  MaxPkt,       \* MAX_RTP_PKT_LENGTH
  UnitSize,     \* sizes of units, without the start code
  MaxUnits      \* bound: calls

VARIABLES
  forwarding,   \* the app passes packets on
  clock,        \* its timestamp, in frames
  stream,       \* packets sent: [fu, data, mark, time, unit]
  calls         \* history: [size, kind, complete] of each call

sendervars == <<forwarding, clock, stream, calls>>

(* initParam with SetParamsForSendingH264.                                 *)
SenderInit ==
  /\ forwarding \in BOOLEAN /\ clock = 0
  /\ stream = <<>> /\ calls = <<>>

UnitBytes(u, from, to) == [i \in 1 .. to - from + 1 |-> <<u, from + i - 1>>]

(* The packets of a unit that is too long for one, in order.  Fragment t   *)
(* begins behind the header byte and t times MAX_RTP_PKT_LENGTH bytes; the *)
(* remainder goes into the last one, which moves the clock.                *)
FragmentsFromStart(u, size) ==
  LET k == size \div MaxPkt  l == size % MaxPkt
      Fragment(t) ==
        [fu |-> IF t = 0 THEN "start" ELSE IF t = k THEN "end" ELSE "middle",
         data |-> UnitBytes(u, t * MaxPkt + 1,
                        IF t = k THEN size ELSE (t + 1) * MaxPkt),
         mark |-> t = k, step |-> IF t = k THEN 1 ELSE 0]
  IN  [i \in 1 .. k + (IF l > 0 THEN 1 ELSE 0) |-> Fragment(i - 1)]

Fragments(u, size) ==
  LET k == size \div MaxPkt  l == size % MaxPkt
      Fragment(t) ==
        [fu |-> IF t = 0 THEN "start" ELSE IF t = k THEN "end" ELSE "middle",
         data |-> UnitBytes(u, t * MaxPkt + 2,
                        IF t = k THEN size ELSE (t + 1) * MaxPkt + 1),
         mark |-> t = k, step |-> IF t = k THEN 1 ELSE 0]
  IN  [i \in 1 .. k + (IF l > 0 THEN 1 ELSE 0) |-> Fragment(i - 1)]

(* A unit that fits goes behind a copy of its header, in as many bytes as  *)
(* it has itself.                                                          *)
Single(u, size, kind) ==
  [fu |-> "none", mark |-> kind = "slice", step |-> 1,
   data |-> IF kind = "slice" THEN <<<<u, 1>>>> \o UnitBytes(u, 1, size - 1)
            ELSE UnitBytes(u, 1, size)]

(* SendPacket for each in turn, up to the one that is refused.             *)
Send(packets, size, kind) ==
  \E n \in 0 .. Len(packets) :
    LET Before(i) == Cardinality({j \in 1 .. i - 1 : packets[j].step = 1})
        u == Len(calls) + 1
        Sent(i) == [fu |-> packets[i].fu, data |-> packets[i].data,
                    mark |-> packets[i].mark, time |-> clock + Before(i),
                    unit |-> u]
    IN  /\ stream' = stream \o [i \in 1 .. n |-> Sent(i)]
        /\ clock' = clock + Before(n + 1)
        /\ calls' = Append(calls, [size |-> size, kind |-> kind,
                                   complete |-> n = Len(packets)])

SendH264Nalu(size, kind) ==
  LET u == Len(calls) + 1
      packets == IF kind = "slice" /\ size > MaxPkt THEN Fragments(u, size)
                 ELSE <<Single(u, size, kind)>>
  IN  /\ ~forwarding /\ (kind = "slice" \/ size <= MaxPkt)
      /\ Send(packets, size, kind)
      /\ UNCHANGED forwarding

SendRtpData(size, marker) ==
  /\ forwarding
  /\ Send(<<[fu |-> "none", data |-> UnitBytes(Len(calls) + 1, 1, size),
             mark |-> marker, step |-> IF marker THEN 1 ELSE 0]>>,
          size, IF marker THEN "last" ELSE "packet")
  /\ UNCHANGED forwarding

SenderNext ==
  /\ Len(calls) < MaxUnits
  /\ \E size \in UnitSize :
       \/ \E kind \in {"slice", "parameters"} : SendH264Nalu(size, kind)
       \/ \E marker \in BOOLEAN : SendRtpData(size, marker)

SenderSpec == SenderInit /\ [][SenderNext]_sendervars

-----------------------------------------------------------------------------

SenderTypeOK ==
  /\ forwarding \in BOOLEAN
  /\ clock \in 0 .. MaxUnits
  /\ \A i \in DOMAIN stream : stream[i].unit \in DOMAIN calls

(* What a receiver makes of the packets (RFC 6184): single units, and      *)
(* fragments from a start to an end; the header comes with the start.      *)
Unpacked ==
  LET done[i \in 0 .. Len(stream)] ==
        IF i = 0 THEN [units |-> <<>>, open |-> <<>>]
        ELSE LET p == stream[i]  d == done[i - 1] IN
             CASE p.fu = "none" ->
                    [units |-> Append(d.units, p.data), open |-> <<>>]
               [] p.fu = "start" ->
                    [units |-> d.units, open |-> <<<<p.unit, 1>>>> \o p.data]
               [] p.fu = "middle" ->
                    [units |-> d.units, open |-> d.open \o p.data]
               [] OTHER ->
                    [units |-> Append(d.units, d.open \o p.data), open |-> <<>>]
  IN  done[Len(stream)].units

(* Units that the code cuts so that they can be put together again: not    *)
(* slices that fit in a packet, nor multiples of its size.                 *)
Proper(u) ==
  /\ calls[u].complete
  /\ calls[u].kind = "slice" =>
       calls[u].size > MaxPkt /\ calls[u].size % MaxPkt # 0

(* A receiver gets those units byte for byte, in their order and each      *)
(* once, whatever was refused in between.                                  *)
UnitsRejoin ==
  LET sent == SelectSeq([u \in DOMAIN calls |-> UnitBytes(u, 1, calls[u].size)],
                        LAMBDA b : Proper(b[1][1]))
  IN  SelectSeq(Unpacked, LAMBDA b : Proper(b[1][1])) = sent

(* The packets of one unit, or of one frame that is passed on, carry one   *)
(* time; the next one a later.                                             *)
SameFrame(u, v) ==
  IF forwarding THEN \A w \in u .. v - 1 : ~(calls[w].complete /\ calls[w].kind = "last")
  ELSE u = v
TimePerFrame ==
  \A i, j \in DOMAIN stream :
    LET u == stream[i].unit  v == stream[j].unit IN
    i < j /\ Proper(u) => (stream[i].time = stream[j].time <=> SameFrame(u, v))

VideoSenderSound == UnitsRejoin /\ TimePerFrame
=============================================================================
