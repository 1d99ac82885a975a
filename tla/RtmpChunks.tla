----------------------------- MODULE RtmpChunks -----------------------------
(***************************************************************************)
(* The chunk stream of librtmp (rtmp.c): a message goes out as a chunk     *)
(* with a header, as short as what went before on its channel allows, and  *)
(* continuation chunks; the reader puts the messages of all channels       *)
(* together again.  RTMP_SendPacket writes its chunks in one go, servers   *)
(* interleave channels, so the chunks here go out one by one.              *)
(*                                                                         *)
(* A timestamp has TimeModulus values for the code's 2^32, and EscapeTime  *)
(* stands for 0xffffff, from which on it moves to an extended field.       *)
(***************************************************************************)
EXTENDS Integers, Sequences, SequencesExt

CONSTANTS
  RtmpChannel,     \* channel numbers in use
  RtmpMessage,     \* records with type, time and body
  RtmpChunkSize,   \* chunk sizes a peer may announce
  TimeModulus, EscapeTime,
  NoMessage,       \* no message yet, a null pointer
  MaxRtmpMessages, \* bound: messages of one connection
  MaxChunks        \* bound: chunks written and not read

ASSUME RtmpTimes ==
  TimeModulus \in Nat /\ EscapeTime \in 1 .. (TimeModulus - 1)
ASSUME RtmpSizes == RtmpChunkSize \subseteq Nat \ {0} /\ RtmpChunkSize # {}

RtmpByte == UNION {{m.body[i] : i \in DOMAIN m.body} : m \in RtmpMessage}
RtmpTime == 0 .. TimeModulus - 1
ASSUME RtmpContents ==
  \A m \in RtmpMessage : m.time \in RtmpTime /\ m.body \in Seq(RtmpByte)

LARGE == 0
MEDIUM == 1
SMALL == 2
MINIMUM == 3

(* Of a message that is being written, and of one that is being read.      *)
RtmpType == {m.type : m \in RtmpMessage}
PartlySent ==
  [first : BOOLEAN, header : LARGE .. MINIMUM, type : RtmpType, size : Nat,
   time : RtmpTime, rest : Seq(RtmpByte)]
PartlyRead ==
  [absolute : BOOLEAN, time : RtmpTime, size : Nat, type : RtmpType,
   body : Seq(RtmpByte)]
ASSUME RtmpNothing == NoMessage \notin RtmpMessage \cup PartlySent \cup PartlyRead

VARIABLES
  vecChannelsOut,    \* m_vecChannelsOut: the last message sent, or NoMessage
  beingSent,         \* what is still to be written of the message
  outChunkSize,
  chunkWire,         \* chunks written and not read
  vecChannelsIn,     \* m_vecChannelsIn
  channelTimestamp,  \* m_channelTimestamp
  inChunkSize,
  rtmpSent, rtmpGot  \* history: messages given to the sender, read whole

senderVars == <<vecChannelsOut, beingSent, outChunkSize>>
readerVars == <<vecChannelsIn, channelTimestamp, inChunkSize>>
chunkvars == <<senderVars, readerVars, chunkWire, rtmpSent, rtmpGot>>

OnEach(value) == [c \in RtmpChannel |-> value]
SmallestChunk == CHOOSE n \in RtmpChunkSize : \A m \in RtmpChunkSize : n <= m

ChunksInit ==
  /\ vecChannelsOut = OnEach(NoMessage) /\ beingSent = OnEach(NoMessage)
  /\ vecChannelsIn = OnEach(NoMessage) /\ channelTimestamp = OnEach(0)
  /\ outChunkSize = SmallestChunk /\ inChunkSize = SmallestChunk
  /\ chunkWire = <<>>
  /\ rtmpSent = OnEach(<<>>) /\ rtmpGot = OnEach(<<>>)

CompressedAlways(asked, m, prev) ==
  LET small == IF asked = MEDIUM THEN SMALL ELSE asked
  IN  IF prev.time = m.time /\ small = SMALL THEN MINIMUM ELSE small

(* The header that RTMP_SendPacket makes of the one it was asked for.      *)
Compressed(asked, m, prev) ==
  LET small == IF asked = MEDIUM /\ Len(prev.body) = Len(m.body)
                    /\ prev.type = m.type
                 THEN SMALL ELSE asked
  IN  IF prev.time = m.time /\ small = SMALL THEN MINIMUM ELSE small

HeaderType(asked, m, prev) ==
  IF prev # NoMessage /\ asked # LARGE THEN Compressed(asked, m, prev) ELSE asked

TimeFieldAbsolute(asked, m, prev) == m.time

(* With a large header the time is absolute, else it counts from the last. *)
TimeField(asked, m, prev) ==
  IF prev # NoMessage /\ asked # LARGE
    THEN (m.time - prev.time) % TimeModulus ELSE m.time

Sizes == [i \in RtmpChannel |-> Len(rtmpSent[i])]
MessagesSent == FoldFunctionOnSet(+, 0, Sizes, RtmpChannel)

SendMessage(c, m, asked) ==
  LET prev == vecChannelsOut[c] IN
  /\ MessagesSent < MaxRtmpMessages
  /\ beingSent[c] = NoMessage
  /\ asked = LARGE \/ prev # NoMessage
  /\ beingSent' = [beingSent EXCEPT ![c] =
       [first |-> TRUE, header |-> HeaderType(asked, m, prev), type |-> m.type,
        size |-> Len(m.body), time |-> TimeField(asked, m, prev),
        rest |-> m.body]]
  /\ vecChannelsOut' = [vecChannelsOut EXCEPT ![c] = m]
  /\ rtmpSent' = [rtmpSent EXCEPT ![c] = Append(@,
       [type |-> m.type, body |-> m.body, time |-> m.time,
        repeats |-> HeaderType(asked, m, prev) = MINIMUM,
        whole |-> asked = LARGE])]
  /\ UNCHANGED <<outChunkSize, readerVars, chunkWire, rtmpGot>>

(* What a chunk carries of its message.  Times from EscapeTime on are      *)
(* written as EscapeTime and in full behind the header.                    *)
ChunkOf(c, s, n) ==
  [channel |-> c,
   header |-> IF s.first THEN s.header ELSE MINIMUM,
   time |-> IF s.time >= EscapeTime THEN EscapeTime ELSE s.time,
   extended |-> IF s.time >= EscapeTime THEN s.time ELSE 0,
   size |-> s.size, type |-> s.type,
   data |-> SubSeq(s.rest, 1, n)]

WriteChunk(c) ==
  LET s == beingSent[c]
      n == IF Len(s.rest) < outChunkSize THEN Len(s.rest) ELSE outChunkSize
  IN
  /\ s # NoMessage
  /\ Len(chunkWire) < MaxChunks
  /\ chunkWire' = Append(chunkWire, ChunkOf(c, s, n))
  /\ beingSent' = [beingSent EXCEPT ![c] =
       IF n = Len(s.rest) THEN NoMessage
       ELSE [s EXCEPT !.first = FALSE, !.rest = SubSeq(@, n + 1, Len(@))]]
  /\ UNCHANGED <<vecChannelsOut, outChunkSize, readerVars, rtmpSent, rtmpGot>>

(* A server may announce another chunk size, in a message of one chunk,    *)
(* and use it from then on, also for messages it is in the middle of.      *)
AnnounceChunkSize ==
  /\ Len(chunkWire) < MaxChunks
  /\ \E n \in RtmpChunkSize \ {outChunkSize} :
       /\ outChunkSize' = n
       /\ chunkWire' = Append(chunkWire, [size |-> n])
  /\ UNCHANGED <<vecChannelsOut, beingSent, readerVars, rtmpSent, rtmpGot>>

HandleChangeChunkSize ==
  /\ chunkWire # <<>> /\ DOMAIN Head(chunkWire) = {"size"}
  /\ inChunkSize' = Head(chunkWire).size
  /\ chunkWire' = Tail(chunkWire)
  /\ UNCHANGED <<senderVars, vecChannelsIn, channelTimestamp, rtmpSent, rtmpGot>>

(* The packet after its header was read: fields the header lacks come from *)
(* the last message of the channel.                                        *)
Decoded(h) ==
  LET last == vecChannelsIn[h.channel]
      base == IF h.header = LARGE \/ last = NoMessage
                THEN [absolute |-> h.header = LARGE, time |-> 0, size |-> 0,
                      type |-> h.type, body |-> <<>>]
                ELSE last
      timed == IF h.header > SMALL THEN base
               ELSE [base EXCEPT !.time =
                       IF h.time = EscapeTime THEN h.extended ELSE h.time]
  IN  IF h.header > MEDIUM THEN timed
      ELSE [timed EXCEPT !.size = h.size, !.body = <<>>, !.type = h.type]

Whole(p) == Len(p.body) = p.size
AbsoluteTime(p, c) ==
  IF p.absolute THEN p.time ELSE (p.time + channelTimestamp[c]) % TimeModulus

(* A ready packet leaves its header behind, its time as it was read.       *)
ReadPacket ==
  /\ chunkWire # <<>> /\ DOMAIN Head(chunkWire) # {"size"}
  /\ LET h == Head(chunkWire)
         c == h.channel
         p0 == Decoded(h)
         missing == p0.size - Len(p0.body)
         n == IF missing < inChunkSize THEN missing ELSE inChunkSize
         p == [p0 EXCEPT !.body = @ \o SubSeq(h.data, 1, n)]
     IN
     IF Whole(p)
       THEN /\ vecChannelsIn' = [vecChannelsIn EXCEPT
                 ![c] = [p EXCEPT !.body = <<>>, !.absolute = FALSE]]
            /\ channelTimestamp' = [channelTimestamp EXCEPT
                 ![c] = AbsoluteTime(p, c)]
            /\ rtmpGot' = [rtmpGot EXCEPT ![c] = Append(@,
                 [type |-> p.type, body |-> p.body,
                  time |-> AbsoluteTime(p, c)])]
       ELSE /\ vecChannelsIn' = [vecChannelsIn EXCEPT ![c] = p]
            /\ UNCHANGED <<channelTimestamp, rtmpGot>>
  /\ chunkWire' = Tail(chunkWire)
  /\ UNCHANGED <<senderVars, inChunkSize, rtmpSent>>

(* The application makes an RTMP anew for a new connection (RTMP_Alloc and *)
(* RTMP_Init): RTMP_Close would leave the chunk sizes and the times.       *)
NewConnection ==
  /\ \E c \in RtmpChannel : rtmpSent[c] # <<>>
  /\ vecChannelsOut' = OnEach(NoMessage) /\ beingSent' = OnEach(NoMessage)
  /\ vecChannelsIn' = OnEach(NoMessage) /\ channelTimestamp' = OnEach(0)
  /\ outChunkSize' = SmallestChunk /\ inChunkSize' = SmallestChunk
  /\ chunkWire' = <<>>
  /\ rtmpSent' = OnEach(<<>>) /\ rtmpGot' = OnEach(<<>>)

ChunksNext ==
  \/ \E c \in RtmpChannel, m \in RtmpMessage, asked \in {LARGE, MEDIUM} :
       SendMessage(c, m, asked)
  \/ \E c \in RtmpChannel : WriteChunk(c)
  \/ AnnounceChunkSize \/ HandleChangeChunkSize \/ ReadPacket
  \/ NewConnection

ChunksSpec == ChunksInit /\ [][ChunksNext]_chunkvars

ChunksTypeOK ==
  /\ inChunkSize \in RtmpChunkSize /\ outChunkSize \in RtmpChunkSize
  /\ channelTimestamp \in [RtmpChannel -> 0 .. (TimeModulus - 1)]
  /\ \A c \in RtmpChannel :
       /\ vecChannelsOut[c] \in RtmpMessage \cup {NoMessage}
       /\ vecChannelsIn[c] # NoMessage =>
            Len(vecChannelsIn[c].body) <= vecChannelsIn[c].size

Content(m) == [type |-> m.type, body |-> m.body]
Contents(s) == [i \in DOMAIN s |-> Content(s[i])]

Messages ==
  INSTANCE MessageChannel
    WITH Connection <- RtmpChannel,
         Message <- {Content(m) : m \in RtmpMessage},
         sent <- [c \in RtmpChannel |-> Contents(rtmpSent[c])],
         delivered <- [c \in RtmpChannel |-> Contents(rtmpGot[c])]

(* However the chunks of the channels mix and whenever the chunk size      *)
(* changes, each channel carries whole messages, in order: RTMP_SendPacket *)
(* and RTMP_ReadPacket agree on the fields a header leaves out.            *)
CarriesMessages == Messages!Spec

(* The reader finds the time that was sent, except that a message which    *)
(* repeats type, size and time of the one before it goes out without a     *)
(* time, and the reader then adds the last difference a second time.       *)
TimesCarried ==
  \A c \in RtmpChannel : \A i \in DOMAIN rtmpGot[c] :
    (\E j \in 1 .. i : rtmpSent[c][j].whole
       /\ \A k \in (j + 1) .. i : ~rtmpSent[c][k].repeats)
    => rtmpGot[c][i].time = rtmpSent[c][i].time
=============================================================================
