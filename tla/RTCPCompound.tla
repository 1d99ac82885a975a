----------------------------- MODULE RTCPCompound -----------------------------
(***************************************************************************)
(* A compound RTCP packet, from the calls that collect its parts           *)
(* (rtcpcompoundpacketbuilder.cpp), over the bytes that EndBuild writes,   *)
(* to what the classes of rtcpcompoundpacket.cpp read out of them.         *)
(*                                                                         *)
(* The sizes that the builder reckons with before it accepts a part are    *)
(* computed apart from the bytes that it writes in the end: the buffer is  *)
(* allocated by the first and filled by the second.                        *)
(***************************************************************************)
EXTENDS Integers, Sequences, SequencesExt

CONSTANTS
  MaxPerPacket,   \* report blocks or SDES chunks in one packet: 31 in the code
  MaxSizes,       \* maximum packet sizes that are tried; InitBuild asks for
                  \* 600, so that a report and a first chunk (40) always fit
  SizeModulus,    \* of size_t, 2^32 or 2^64
  RTCPPart,       \* the parts that may be added: records with a field "part"
  MaxCollected,   \* bound on the parts of one compound packet
  Invalid         \* what is read from bytes that a class rejects

ASSUME MaxPerPacketAssumption == MaxPerPacket \in 1..31
ASSUME SizeAssumption ==
  SizeModulus \in Nat /\ \A size \in MaxSizes : size \in 40 .. SizeModulus - 1

VARIABLES
  building,     \* arebuilding
  maxsize,      \* maximumpacketsize
  report,       \* report: kind and blocks
  sdes,         \* sdes: a sequence of sources with their items
  apps, byes,   \* apppackets and byepackets
  compound,     \* compoundpacket: its bytes, <<>> before EndBuild
  overdrawn     \* the first SDES chunk was taken although it does not fit

compoundvars == <<building, maxsize, report, sdes, apps, byes, compound, overdrawn>>

OwnSSRC == 1
NoReport == [kind |-> "none", blocks |-> <<>>]

CompoundInit ==
  /\ building = FALSE /\ maxsize = 0 /\ compound = <<>>
  /\ report = NoReport /\ sdes = <<>> /\ apps = <<>> /\ byes = <<>>
  /\ overdrawn = FALSE

---------------------------------------------------------------------------
(* The sizes that the builder reckons with.                                *)

Ceiling(n, d) == (n + d - 1) \div d
Aligned(n) == 4 * Ceiling(n, 4)
TotalOf(f(_), s) == FoldLeft(LAMBDA sum, x : sum + f(x), 0, s)

HeaderLength(r) == CASE r.kind = "none" -> 0 [] r.kind = "RR" -> 4 [] r.kind = "SR" -> 24

ReportBytes(r, n) ==
  IF n = 0 THEN IF HeaderLength(r) = 0 THEN 0 ELSE 4 + HeaderLength(r)
           ELSE n * 24 + Ceiling(n, MaxPerPacket) * 8 + (IF r.kind = "SR" THEN 20 ELSE 0)

ItemBytes(item) == 2 + Len(item.data)
SourceBytes(source) == Aligned(TotalOf(ItemBytes, source.items) + 1) + 4

\* Mutant: one header for all the packets of chunks.
SDESBytesForgettingHeaders(s) == TotalOf(SourceBytes, s) + (IF s = <<>> THEN 0 ELSE 4)

SDESBytes(s) == TotalOf(SourceBytes, s) + Ceiling(Len(s), MaxPerPacket) * 4

\* Mutant: the new chunk may begin a new packet, but its header is forgotten.
SDESBytesWithSourceSamePacket(s) ==
  IF s = <<>> THEN 0
              ELSE TotalOf(SourceBytes, s) + 8 + Ceiling(Len(s), MaxPerPacket) * 4

SDESBytesWithSource(s) ==
  IF s = <<>> THEN 0
              ELSE TotalOf(SourceBytes, s) + 8 + Ceiling(Len(s) + 1, MaxPerPacket) * 4

AppBytes(app) == 12 + Len(app.data)
ByeBytes(bye) ==
  LET ssrcs == 4 + 4 * Len(bye.ssrcs)
  IN  IF bye.reason = <<>> THEN ssrcs ELSE Aligned(ssrcs + 1 + Len(bye.reason))

OwnBytes == TotalOf(AppBytes, apps) + TotalOf(ByeBytes, byes)
AllBytes == OwnBytes + ReportBytes(report, Len(report.blocks)) + SDESBytes(sdes)

---------------------------------------------------------------------------
(* The calls that collect the parts.                                       *)

InitBuild ==
  /\ ~building /\ compound = <<>>
  /\ maxsize' \in MaxSizes
  /\ building' = TRUE
  /\ UNCHANGED <<report, sdes, apps, byes, compound, overdrawn>>

\* In size_t: more than the maximum when the parts are over it already.
SizeLeft == (maxsize - (OwnBytes + SDESBytes(sdes))) % SizeModulus

StartReport(kind) ==
  /\ building /\ report.kind = "none"
  /\ 4 + HeaderLength([kind |-> kind]) <= SizeLeft
  /\ report' = [kind |-> kind, blocks |-> <<>>]
  /\ UNCHANGED <<building, maxsize, sdes, apps, byes, compound, overdrawn>>

AddReportBlock(block) ==
  /\ building /\ report.kind # "none"
  /\ OwnBytes + SDESBytes(sdes) + ReportBytes(report, Len(report.blocks) + 1) <= maxsize
  /\ report' = [report EXCEPT !.blocks = Append(@, block)]
  /\ UNCHANGED <<building, maxsize, sdes, apps, byes, compound, overdrawn>>

\* A first chunk needs 12 bytes, but SDESBytesWithSource(<<>>) is 0.
AddSDESSource(source) ==
  /\ building
  /\ OwnBytes + ReportBytes(report, Len(report.blocks)) + SDESBytesWithSource(sdes) <= maxsize
  /\ sdes' = Append(sdes, [ssrc |-> source.ssrc, items |-> <<>>])
  /\ overdrawn' = (overdrawn \/ (sdes = <<>> /\ AllBytes + SDESBytes(sdes') > maxsize))
  /\ UNCHANGED <<building, maxsize, report, apps, byes, compound>>

WithItem(item) ==
  [sdes EXCEPT ![Len(sdes)].items = Append(@, [id |-> item.id, data |-> item.data])]

AddSDESItem(item) ==
  /\ building /\ sdes # <<>>
  /\ OwnBytes + ReportBytes(report, Len(report.blocks)) + SDESBytes(WithItem(item)) <= maxsize
  /\ sdes' = WithItem(item)
  /\ UNCHANGED <<building, maxsize, report, apps, byes, compound, overdrawn>>

\* A private item holds the length of its prefix, the prefix and the value.
PrivateId == 8
AddSDESPrivateItem(priv) ==
  /\ Len(priv.prefix) + 1 + Len(priv.value) <= 255
  /\ AddSDESItem([id |-> PrivateId, data |-> <<Len(priv.prefix)>> \o priv.prefix \o priv.value])

AddAPPPacket(app) ==
  /\ building /\ Len(app.data) % 4 = 0
  /\ AllBytes + AppBytes(app) <= maxsize
  /\ apps' = Append(apps, [subtype |-> app.subtype, ssrc |-> app.ssrc, data |-> app.data])
  /\ UNCHANGED <<building, maxsize, report, sdes, byes, compound, overdrawn>>

AddBYEPacket(bye) ==
  /\ building /\ Len(bye.ssrcs) <= 31
  /\ AllBytes + ByeBytes(bye) <= maxsize
  /\ byes' = Append(byes, [ssrcs |-> bye.ssrcs, reason |-> bye.reason])
  /\ UNCHANGED <<building, maxsize, report, sdes, apps, compound, overdrawn>>

NumItems(source) == Len(source.items)
CollectedSoFar ==
  Len(report.blocks) + Len(sdes) + TotalOf(NumItems, sdes) + Len(apps) + Len(byes)

AddPart(p) ==
  \/ p.part = "block" /\ AddReportBlock([ssrc |-> p.ssrc, lost |-> p.lost])
  \/ p.part = "source" /\ AddSDESSource(p)
  \/ p.part = "item" /\ AddSDESItem(p)
  \/ p.part = "priv" /\ AddSDESPrivateItem(p)
  \/ p.part = "app" /\ AddAPPPacket(p)
  \/ p.part = "bye" /\ AddBYEPacket(p)

---------------------------------------------------------------------------
(* EndBuild: the bytes.                                                    *)

SR == 200
RR == 201
SDES == 202
PTBYE == 203
APP == 204

Zeros(n) == [i \in 1..n |-> 0]
Word(n) == <<(n \div 2 ^ 24) % 256, (n \div 2 ^ 16) % 256, (n \div 256) % 256, n % 256>>
RTCPPacket(type, count, body) ==
  <<128 + count, type>> \o SubSeq(Word(Len(body) \div 4), 3, 4) \o body

\* The parts are dealt to packets of at most MaxPerPacket each.
Dealt(s) ==
  [i \in 1..Ceiling(Len(s), MaxPerPacket) |->
     SubSeq(s, (i - 1) * MaxPerPacket + 1, Min({i * MaxPerPacket, Len(s)}))]
Reports == IF report.blocks = <<>> THEN <<<<>>>> ELSE Dealt(report.blocks)
KindOf(i) == IF i = 1 THEN report.kind ELSE "RR"

BlockData(b) ==
  Word(b.ssrc) \o <<0>> \o SubSeq(Word(b.lost % 2 ^ 24), 2, 4) \o Zeros(16)

ReportPacket(i) ==
  LET blocks == FlattenSeq([j \in DOMAIN Reports[i] |-> BlockData(Reports[i][j])])
  IN  IF KindOf(i) = "SR"
      THEN RTCPPacket(SR, Len(Reports[i]), Word(OwnSSRC) \o Zeros(20) \o blocks)
      ELSE RTCPPacket(RR, Len(Reports[i]), Word(OwnSSRC) \o blocks)

ItemData(item) == <<item.id, Len(item.data)>> \o item.data
\* Mutant: nothing ends the list of items.
ChunkDataUnterminated(source) ==
  LET items == FlattenSeq([i \in DOMAIN source.items |-> ItemData(source.items[i])])
  IN  Word(source.ssrc) \o items \o Zeros(Aligned(Len(items)) - Len(items))

ChunkData(source) ==
  LET items == FlattenSeq([i \in DOMAIN source.items |-> ItemData(source.items[i])]) \o <<0>>
  IN  Word(source.ssrc) \o items \o Zeros(Aligned(Len(items)) - Len(items))
SDESPacket(sources) ==
  RTCPPacket(SDES, Len(sources), FlattenSeq([i \in DOMAIN sources |-> ChunkData(sources[i])]))

AppName == <<65, 80, 80, 76>>
AppPacket(app) == RTCPPacket(APP, app.subtype, Word(app.ssrc) \o AppName \o app.data)

ByePacket(bye) ==
  LET ssrcs == FlattenSeq([i \in DOMAIN bye.ssrcs |-> Word(bye.ssrcs[i])])
      body  == IF bye.reason = <<>> THEN ssrcs ELSE ssrcs \o <<Len(bye.reason)>> \o bye.reason
  IN  RTCPPacket(PTBYE, Len(bye.ssrcs), body \o Zeros(Aligned(Len(body)) - Len(body)))

WrittenPacket ==
  FlattenSeq([i \in DOMAIN Reports |-> ReportPacket(i)])
    \o FlattenSeq([i \in DOMAIN Dealt(sdes) |-> SDESPacket(Dealt(sdes)[i])])
    \o FlattenSeq([i \in DOMAIN apps |-> AppPacket(apps[i])])
    \o FlattenSeq([i \in DOMAIN byes |-> ByePacket(byes[i])])

\* ClearBuildBuffers empties the lists; here they stay, to be compared with
\* the packet.  InitBuild refuses a second packet in the same object.
EndBuild ==
  /\ building /\ report.kind # "none"
  /\ compound' = WrittenPacket
  /\ building' = FALSE
  /\ UNCHANGED <<maxsize, report, sdes, apps, byes, overdrawn>>

CompoundNext ==
  \/ InitBuild
  \/ \E kind \in {"SR", "RR"} : StartReport(kind)
  \/ CollectedSoFar < MaxCollected /\ \E p \in RTCPPart : AddPart(p)
  \/ EndBuild

---------------------------------------------------------------------------
(* ParseData and the classes of the packets it finds.                      *)

ValueOf(word) == FoldLeft(LAMBDA n, byte : n * 256 + byte, 0, word)
After(s, n) == SubSeq(s, n + 1, Len(s))

HasPadding(data) == (data[1] \div 32) % 2 = 1
CountField(data) == data[1] % 32
SizeField(data) == 4 * (ValueOf(SubSeq(data, 3, 4)) + 1)

\* The bytes of a packet without its padding, <<>> when the padding is wrong.
Unpadded(data) ==
  LET pad == data[Len(data)]
  IN  IF ~HasPadding(data) THEN data
      ELSE IF pad % 4 # 0 \/ pad >= Len(data) THEN <<>>
      ELSE SubSeq(data, 1, Len(data) - pad)

BlockAt(data) ==
  LET lost == ValueOf(SubSeq(data, 6, 8))
  IN  [ssrc |-> ValueOf(SubSeq(data, 1, 4)), lost |-> IF lost >= 2 ^ 23 THEN lost - 2 ^ 24 ELSE lost]

ReadReport(data, fixed) ==
  IF Len(data) # fixed + 24 * CountField(data) THEN Invalid
  ELSE [type |-> data[2], sender |-> ValueOf(SubSeq(data, 5, 8)),
        blocks |-> [i \in 1..CountField(data) |-> BlockAt(After(data, fixed + 24 * (i - 1)))]]

\* The items of a chunk from an offset; the end carries how far the zero is.
RECURSIVE ItemsFrom(_, _)
ItemsFrom(data, items) ==
  IF data = <<>> THEN Invalid
  ELSE IF data[1] = 0 THEN [items |-> items, left |-> Len(data) - 1]
  ELSE IF Len(data) < 2 \/ data[2] > Len(data) - 2 THEN Invalid
  ELSE ItemsFrom(After(data, 2 + data[2]),
                 Append(items, [id |-> data[1], data |-> SubSeq(data, 3, 2 + data[2])]))

RECURSIVE ChunksFrom(_, _, _)
ChunksFrom(data, count, chunks) ==
  IF count = 0 \/ data = <<>>
  THEN IF count = 0 /\ data = <<>> THEN chunks ELSE Invalid
  ELSE IF Len(data) < 8 THEN Invalid
  ELSE LET read == ItemsFrom(After(data, 4), <<>>)
           used == Aligned(Len(data) - read.left)
       IN  IF read = Invalid THEN Invalid
           ELSE IF used > Len(data) THEN Invalid
           ELSE ChunksFrom(After(data, used), count - 1,
                           Append(chunks, [ssrc |-> ValueOf(SubSeq(data, 1, 4)), items |-> read.items]))

ReadSDES(data) ==
  LET chunks == ChunksFrom(After(data, 4), CountField(data), <<>>)
  IN  IF chunks = Invalid THEN Invalid ELSE [type |-> SDES, chunks |-> chunks]

ReadBYE(data) ==
  LET fixed == 4 + 4 * CountField(data)
  IN  IF fixed > Len(data) \/ (fixed < Len(data) /\ data[fixed + 1] > Len(data) - fixed - 1)
      THEN Invalid
      ELSE [type |-> PTBYE, ssrcs |-> [i \in 1..CountField(data) |-> ValueOf(SubSeq(data, 4 * i + 1, 4 * i + 4))],
            reason |-> IF fixed < Len(data) THEN SubSeq(data, fixed + 2, fixed + 1 + data[fixed + 1])
                                            ELSE <<>>]

ReadAPP(data) ==
  IF Len(data) < 12 THEN Invalid
  ELSE [type |-> APP, subtype |-> CountField(data), ssrc |-> ValueOf(SubSeq(data, 5, 8)), data |-> After(data, 12)]

ReadRTCP(packet) ==
  LET data == Unpadded(packet)
  IN  CASE data = <<>> -> Invalid
        [] packet[2] = SR -> ReadReport(data, 28)
        [] packet[2] = RR -> ReadReport(data, 8)
        [] packet[2] = SDES -> ReadSDES(data)
        [] packet[2] = PTBYE -> ReadBYE(data)
        [] packet[2] = APP -> ReadAPP(data)
        [] OTHER -> [type |-> packet[2]]

\* ParseData: the packets of the compound, or Invalid.
RECURSIVE PacketsFrom(_, _)
PacketsFrom(data, packets) ==
  IF Len(data) < 4 THEN IF data = <<>> /\ packets # <<>> THEN packets ELSE Invalid
  ELSE IF \/ data[1] \div 64 # 2
          \/ packets = <<>> /\ data[2] \notin {SR, RR}
          \/ SizeField(data) > Len(data)
          \/ HasPadding(data) /\ SizeField(data) # Len(data)
       THEN Invalid
  ELSE PacketsFrom(After(data, SizeField(data)),
                   Append(packets, SubSeq(data, 1, SizeField(data))))

ParseRTCP(data) ==
  LET packets == PacketsFrom(data, <<>>)
  IN  IF packets = Invalid THEN Invalid ELSE [i \in DOMAIN packets |-> ReadRTCP(packets[i])]

---------------------------------------------------------------------------
CompoundTypeOK ==
  /\ building \in BOOLEAN /\ maxsize \in MaxSizes \cup {0}
  /\ report.kind \in {"none", "SR", "RR"}
  /\ ~(building /\ compound # <<>>)

\* What the application put together, in the order of the packet.
Collected ==
  [i \in DOMAIN Reports |->
     [type |-> IF KindOf(i) = "SR" THEN SR ELSE RR, sender |-> OwnSSRC, blocks |-> Reports[i]]]
  \o [i \in DOMAIN Dealt(sdes) |-> [type |-> SDES, chunks |-> Dealt(sdes)[i]]]
  \o [i \in DOMAIN apps |->
        [type |-> APP, subtype |-> apps[i].subtype, ssrc |-> apps[i].ssrc, data |-> apps[i].data]]
  \o [i \in DOMAIN byes |-> [type |-> PTBYE, ssrcs |-> byes[i].ssrcs, reason |-> byes[i].reason]]

\* The same compound with four bytes of padding in its last packet, the way a
\* peer that encrypts pads it (RFC 3550, 6.4.1).
LastSize == LET packets == PacketsFrom(compound, <<>>) IN Len(packets[Len(packets)])
Padded ==
  LET start == Len(compound) - LastSize
      word  == Word(LastSize \div 4)
  IN  SubSeq(compound, 1, start) \o <<compound[start + 1] + 32, compound[start + 2]>>
        \o SubSeq(word, 3, 4) \o After(compound, start + 4) \o <<0, 0, 0, 4>>

\* A finished packet is read back as the reports, chunks, APP and BYE packets
\* that were collected, padded or not (EndBuild against ParseData).
CompoundReadBack ==
  compound # <<>> => ParseRTCP(compound) = Collected /\ ParseRTCP(Padded) = Collected

\* EndBuild fills exactly the bytes that were reckoned with, which is the size
\* of the buffer that it allocates.
BufferFilled == compound # <<>> => Len(compound) = AllBytes

\* What the header of the class says, that a call refuses "if the action would
\* cause the maximum allowed size to be exceeded", holds but for the first SDES
\* chunk: it is taken with less than its 12 bytes left.  From then on nothing is
\* taken but a report, whose 28 bytes fit into a size_t that went below 0.  A
\* chunk that comes right after the report, where RTCPPacketBuilder has its own,
\* is never the one that does not fit.
MaximumKept ==
  IF overdrawn
  THEN /\ Len(sdes) = 1 /\ sdes[1].items = <<>>
       /\ apps # <<>> \/ byes # <<>> \/ report.blocks # <<>>
       /\ AllBytes <= maxsize + 12 + 28
       /\ AllBytes > maxsize + 12 => report.kind # "none" /\ report.blocks = <<>>
  ELSE AllBytes <= maxsize

CompoundSound == CompoundReadBack /\ BufferFilled /\ MaximumKept

=============================================================================
