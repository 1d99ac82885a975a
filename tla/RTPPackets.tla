------------------------------ MODULE RTPPackets ------------------------------
(***************************************************************************)
(* RTPPacketBuilder: the numbers, timestamps, contributing sources and     *)
(* defaults of the packets a session sends; and the bytes of a packet,     *)
(* from RTPPacket::BuildPacket to RTPPacket::ParseRawPacket at a receiver. *)
(***************************************************************************)
EXTENDS Integers, Sequences, SequencesExt

CONSTANTS
  SeqModulus, TimestampModulus,         \* 2^16 and 2^32 in the code
  RandomSSRC, RandomTimestamp, RandomSeq, \* what GetRandom32 and 16 may return
  MaxCSRCs,                             \* RTP_MAXCSRCS
  CSRC, PayloadType, Payload, Increment, Extension, MaxPacketBytes,
  Unset,                                \* a default that is not set
  Refused,                              \* bytes that the receiver rejects
  MaxBuilt, MaxNow                      \* bounds on packets and on the clock

VARIABLES
  numbers,   \* ssrc, timestamp, seqnr, numpayloadbytes, numpackets
  csrcs,     \* csrcs, the first numcsrcs of them
  defaults,  \* defaultpayloadtype, defaultmark, defaulttimestampinc, or Unset
  pair,      \* lastwallclocktime, lastrtptimestamp, prevrtptimestamp
  now,       \* the wall clock
  last,      \* the last packet: what was asked for, and its bytes
  history    \* the packets since the SSRC was created

rtpvars == <<numbers, csrcs, defaults, pair, now, last, history>>

NewNumbers(ssrc, timestamp, seqnr) ==
  [ssrc |-> ssrc, timestamp |-> timestamp, seqnr |-> seqnr, bytes |-> 0, packets |-> 0]

NoPacket == [bytes |-> <<>>]

RTPInit ==
  /\ numbers = NewNumbers(CHOOSE s \in RandomSSRC : TRUE, CHOOSE t \in RandomTimestamp : TRUE,
                          CHOOSE n \in RandomSeq : TRUE)
  /\ csrcs = <<>> /\ defaults = [pt |-> Unset, mark |-> Unset, inc |-> Unset]
  /\ pair = [time |-> 0, timestamp |-> 0, previous |-> 0]
  /\ now = 0 /\ last = NoPacket /\ history = <<>>

CreateNewSSRC ==
  /\ \E s \in RandomSSRC, t \in RandomTimestamp, n \in RandomSeq : numbers' = NewNumbers(s, t, n)
  /\ last' = NoPacket /\ history' = <<>>
  /\ UNCHANGED <<csrcs, defaults, pair, now>>

AddCSRC(c) ==
  /\ Len(csrcs) < MaxCSRCs
  /\ ~Contains(csrcs, c)
  /\ csrcs' = Append(csrcs, c)
  /\ UNCHANGED <<numbers, defaults, pair, now, last, history>>

\* The last one takes the place of the one that goes.
DeleteCSRC(c) ==
  /\ Contains(csrcs, c)
  /\ LET i == CHOOSE i \in DOMAIN csrcs : csrcs[i] = c
     IN  csrcs' = Front([csrcs EXCEPT ![i] = Last(csrcs)])
  /\ UNCHANGED <<numbers, defaults, pair, now, last, history>>

ClearCSRCList ==
  /\ csrcs # <<>>
  /\ csrcs' = <<>>
  /\ UNCHANGED <<numbers, defaults, pair, now, last, history>>

SetDefaults ==
  /\ \/ \E pt \in PayloadType : defaults' = [defaults EXCEPT !.pt = pt]
     \/ \E mark \in BOOLEAN : defaults' = [defaults EXCEPT !.mark = mark]
     \/ \E inc \in Increment : defaults' = [defaults EXCEPT !.inc = inc]
  /\ UNCHANGED <<numbers, csrcs, pair, now, last, history>>

Later(timestamp, inc) == (timestamp + inc) % TimestampModulus

IncrementTimestamp(inc) ==
  /\ numbers' = [numbers EXCEPT !.timestamp = Later(@, inc)]
  /\ UNCHANGED <<csrcs, defaults, pair, now, last, history>>

IncrementTimestampDefault == defaults.inc # Unset /\ IncrementTimestamp(defaults.inc)

---------------------------------------------------------------------------
(* RTPPacket::BuildPacket: the bytes.                                      *)

Number4(n) == <<(n \div 2 ^ 24) % 256, (n \div 2 ^ 16) % 256, (n \div 256) % 256, n % 256>>
Number2(n) == SubSeq(Number4(n), 3, 4)
Bit(b) == IF b THEN 1 ELSE 0

\* An extension is a sequence of words here, <<>> when there is none.
ExtensionId == 7
BytesOf(p) ==
  <<128 + 16 * Bit(p.extension # <<>>) + Len(p.csrcs), 128 * Bit(p.mark) + p.pt>>
    \o Number2(p.seqnr) \o Number4(p.timestamp) \o Number4(p.ssrc)
    \o FlattenSeq([i \in DOMAIN p.csrcs |-> Number4(p.csrcs[i])])
    \o (IF p.extension = <<>> THEN <<>>
        ELSE Number2(ExtensionId) \o Number2(Len(p.extension)) \o FlattenSeq(p.extension))
    \o p.payload

PacketBytes(p) ==
  12 + 4 * Len(p.csrcs) + (IF p.extension = <<>> THEN 0 ELSE 4 + 4 * Len(p.extension))
     + Len(p.payload)

\* Payload types that look like a sender or receiver report are refused.
AllowedType(pt) == pt \in 0..127 \ {72, 73}

PairAfterAnyPacket ==
  IF numbers.timestamp # pair.previous
  THEN [time |-> now, timestamp |-> numbers.timestamp, previous |-> numbers.timestamp]
  ELSE pair

\* RTPPacketBuilder::PrivateBuildPacket.
PairAfter ==
  IF numbers.packets = 0 \/ numbers.timestamp # pair.previous
  THEN [time |-> now, timestamp |-> numbers.timestamp, previous |-> numbers.timestamp]
  ELSE pair

NumbersAfter(inc, size) ==
  [numbers EXCEPT !.bytes = @ + size, !.packets = @ + 1,
                  !.timestamp = Later(@, inc), !.seqnr = (@ + 1) % SeqModulus]

BuildPacket(payload, pt, mark, inc, extension) ==
  LET p == [pt |-> pt, mark |-> mark, payload |-> payload, extension |-> extension, csrcs |-> csrcs,
            ssrc |-> numbers.ssrc, timestamp |-> numbers.timestamp, seqnr |-> numbers.seqnr]
  IN  /\ AllowedType(pt)
      /\ PacketBytes(p) <= MaxPacketBytes
      /\ last' = [asked |-> p, bytes |-> BytesOf(p)]
      /\ pair' = PairAfter
      /\ numbers' = NumbersAfter(inc, Len(payload))
      /\ history' = Append(history, [timestamp |-> p.timestamp, seqnr |-> p.seqnr, time |-> now])
      /\ UNCHANGED <<csrcs, defaults, now>>

BuildWithDefaults ==
  /\ Unset \notin {defaults.pt, defaults.mark, defaults.inc}
  /\ \E payload \in Payload, extension \in Extension :
       BuildPacket(payload, defaults.pt, defaults.mark, defaults.inc, extension)

BuildWithSettings ==
  \E payload \in Payload, extension \in Extension, pt \in PayloadType, mark \in BOOLEAN, inc \in Increment :
    BuildPacket(payload, pt, mark, inc, extension)

ClockTicks ==
  /\ now < MaxNow /\ now' = now + 1
  /\ UNCHANGED <<numbers, csrcs, defaults, pair, last, history>>

RTPNext ==
  \/ CreateNewSSRC
  \/ \E c \in CSRC : AddCSRC(c) \/ DeleteCSRC(c)
  \/ ClearCSRCList
  \/ SetDefaults
  \/ \E inc \in Increment : IncrementTimestamp(inc)
  \/ IncrementTimestampDefault
  \/ Len(history) < MaxBuilt /\ (BuildWithDefaults \/ BuildWithSettings)
  \/ ClockTicks

---------------------------------------------------------------------------
(* RTPPacket::ParseRawPacket.                                              *)

NumberAt(data, first, size) ==
  FoldLeft(LAMBDA n, byte : n * 256 + byte, 0, SubSeq(data, first, first + size - 1))

ParseRawPacket(data) ==
  LET count     == data[1] % 16
      extended  == (data[1] \div 16) % 2 = 1
      padded    == (data[1] \div 32) % 2 = 1
      padding   == IF padded THEN data[Len(data)] ELSE 0
      fixed     == 12 + 4 * count
      words     == IF extended THEN NumberAt(data, fixed + 3, 2) ELSE 0
      offset    == fixed + (IF extended THEN 4 + 4 * words ELSE 0)
      mark      == data[2] >= 128
      pt        == data[2] % 128
  IN  IF Len(data) < 12 THEN Refused
      ELSE IF \/ data[1] \div 64 # 2
              \/ mark /\ pt \in {72, 73}
              \/ padded /\ padding = 0
              \/ Len(data) - padding - offset < 0
           THEN Refused
      ELSE [pt |-> pt, mark |-> mark, payload |-> SubSeq(data, offset + 1, Len(data) - padding),
            extension |-> [i \in 1..words |-> SubSeq(data, fixed + 4 * i + 1, fixed + 4 * i + 4)],
            csrcs |-> [i \in 1..count |-> NumberAt(data, 9 + 4 * i, 4)],
            ssrc |-> NumberAt(data, 9, 4), timestamp |-> NumberAt(data, 5, 4), seqnr |-> NumberAt(data, 3, 2)]

---------------------------------------------------------------------------
RTPTypeOK ==
  /\ numbers.seqnr \in 0..SeqModulus - 1 /\ numbers.timestamp \in 0..TimestampModulus - 1
  /\ numbers.packets = Len(history)
  /\ now \in 0..MaxNow

\* A packet is read by a receiver as it was asked for, whatever mark, CSRCs
\* and extension it has, and also with padding (BuildPacket, ParseRawPacket).
PaddedBytes == <<last.bytes[1] + 32>> \o Tail(last.bytes) \o <<0, 0, 3>>
PacketReadBack ==
  last # NoPacket =>
    ParseRawPacket(last.bytes) = last.asked /\ ParseRawPacket(PaddedBytes) = last.asked

\* The pair of time and timestamp that sender reports extrapolate from is the
\* one of the first packet with the timestamp of the latest packet.
TimestampsPaired ==
  history # <<>> =>
    \E i \in DOMAIN history :
      /\ pair.time = history[i].time /\ pair.timestamp = history[i].timestamp
      /\ \A j \in i..Len(history) : history[j].timestamp = Last(history).timestamp
      /\ i > 1 => history[i - 1].timestamp # history[i].timestamp

\* A receiver sees a gap in the numbers only where a packet was lost: a call
\* that is refused uses no number.  No source is named twice.
NumbersFollow ==
  /\ \A i \in 2..Len(history) : history[i].seqnr = (history[i - 1].seqnr + 1) % SeqModulus
  /\ IsInjective(csrcs)

PacketsSound == PacketReadBack /\ TimestampsPaired /\ NumbersFollow

=============================================================================
