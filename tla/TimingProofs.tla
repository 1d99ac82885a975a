---------------------------- MODULE TimingProofs ----------------------------
(***************************************************************************)
(* What is sent in pieces or over and over comes as it was meant, for any  *)
(* number of channels, members and packets: the messages that RTMP cuts    *)
(* into chunks, with their times; the RTCP reports, which keep their       *)
(* distance; and what the reports of the two ends of a stream say.         *)
(***************************************************************************)
EXTENDS Timing, SequenceTheorems, FiniteSetTheorems, WellFoundedInduction,
        TLAPS

-----------------------------------------------------------------------------
(* The chunks of RTMP.                                                     *)

(* What is sent on a channel, from message to message.                     *)
SentMessage ==
  [type : RtmpType, body : Seq(RtmpByte), time : RtmpTime, repeats : BOOLEAN,
   whole : BOOLEAN]
GotMessage == [type : RtmpType, body : Seq(RtmpByte), time : RtmpTime]

HeaderOf(s, k) ==
  IF s[k].whole THEN LARGE ELSE Compressed(MEDIUM, s[k], s[k - 1])
TimeOf(s, k) ==
  IF s[k].whole THEN s[k].time ELSE (s[k].time - s[k - 1].time) % TimeModulus

Sequel(s) ==
  /\ s \in Seq(SentMessage)
  /\ \A k \in 1 .. Len(s) :
       /\ s[k].whole \/ k > 1
       /\ s[k].repeats <=> HeaderOf(s, k) = MINIMUM

(* A spot in what a channel carries: the messages behind it, the bytes of  *)
(* the one it is in, and the chunk size in force there.                    *)
Spot == [done : Nat, off : Nat, size : RtmpChunkSize]

BodyAt(s, p) == s[p.done + 1].body
Amount(s, p) ==
  IF Len(BodyAt(s, p)) - p.off < p.size THEN Len(BodyAt(s, p)) - p.off ELSE p.size

ChunkAt(s, c, p) ==
  [channel |-> c,
   header |-> IF p.off = 0 THEN HeaderOf(s, p.done + 1) ELSE MINIMUM,
   time |-> IF TimeOf(s, p.done + 1) >= EscapeTime THEN EscapeTime
            ELSE TimeOf(s, p.done + 1),
   extended |-> IF TimeOf(s, p.done + 1) >= EscapeTime THEN TimeOf(s, p.done + 1)
                ELSE 0,
   size |-> Len(BodyAt(s, p)), type |-> s[p.done + 1].type,
   data |-> SubSeq(BodyAt(s, p), p.off + 1, p.off + Amount(s, p))]

After(s, p) ==
  IF p.off + Amount(s, p) = Len(BodyAt(s, p))
    THEN [done |-> p.done + 1, off |-> 0, size |-> p.size]
    ELSE [done |-> p.done, off |-> p.off + Amount(s, p), size |-> p.size]

(* What a chunk does to the spot of a channel: a new size, a chunk of      *)
(* another channel, or the next chunk of the message.                      *)
Resized(x, p, q) ==
  \E n \in RtmpChunkSize :
    x = [size |-> n] /\ q = [done |-> p.done, off |-> p.off, size |-> n]
Foreign(c, x, p, q) == DOMAIN x # {"size"} /\ x.channel # c /\ q = p
Carried(s, c, x, p, q) ==
  p.done < Len(s) /\ x = ChunkAt(s, c, p) /\ q = After(s, p)
GoesBy(s, c, x, p, q) ==
  Resized(x, p, q) \/ Foreign(c, x, p, q) \/ Carried(s, c, x, p, q)

Path(s, c, chunks, p, q) ==
  \E pos \in [0 .. Len(chunks) -> Spot] :
    /\ pos[0] = p /\ pos[Len(chunks)] = q
    /\ \A i \in 1 .. Len(chunks) : GoesBy(s, c, chunks[i], pos[i - 1], pos[i])

Chunk ==
  [size : RtmpChunkSize]
  \cup [channel : RtmpChannel, header : LARGE .. MINIMUM, time : RtmpTime,
        extended : RtmpTime, size : Nat, type : RtmpType, data : Seq(RtmpByte)]

LEMMA Joined ==
  ASSUME NEW S, NEW a \in Seq(S), NEW b \in Seq(S), NEW c, c = a \o b
  PROVE  /\ c \in Seq(S) /\ Len(a) \in Nat /\ Len(b) \in Nat
         /\ Len(c) = Len(a) + Len(b)
         /\ \A i \in 1 .. Len(a) : c[i] = a[i]
         /\ \A i \in 1 .. Len(b) : c[Len(a) + i] = b[i]
OBVIOUS

LEMMA Pieces ==
  ASSUME NEW S, NEW b \in Seq(S), NEW off \in Nat, NEW n \in Nat, off + n <= Len(b)
  PROVE  /\ SubSeq(b, off + 1, off + n) \in Seq(S)
         /\ Len(SubSeq(b, off + 1, off + n)) = n
         /\ SubSeq(SubSeq(b, off + 1, off + n), 1, n) = SubSeq(b, off + 1, off + n)
         /\ SubSeq(b, 1, off) \o SubSeq(b, off + 1, off + n) = SubSeq(b, 1, off + n)
<1> DEFINE x == SubSeq(b, off + 1, off + n)
<1>1. x \in Seq(S) /\ Len(x) = n /\ \A i \in 1 .. n : x[i] = b[off + i]
  OBVIOUS
<1>2. /\ SubSeq(b, 1, off) \in Seq(S) /\ Len(SubSeq(b, 1, off)) = off
      /\ \A i \in 1 .. off : SubSeq(b, 1, off)[i] = b[i]
  OBVIOUS
<1>3. /\ SubSeq(b, 1, off + n) \in Seq(S) /\ Len(SubSeq(b, 1, off + n)) = off + n
      /\ \A i \in 1 .. off + n : SubSeq(b, 1, off + n)[i] = b[i]
  OBVIOUS
<1> HIDE DEF x
<1>4. SubSeq(x, 1, n) = x
  BY <1>1
<1>5. SubSeq(b, 1, off) \o x = SubSeq(b, 1, off + n)
  <2> DEFINE l == SubSeq(b, 1, off)
             r == SubSeq(b, 1, off + n)
  <2>1. /\ l \in Seq(S) /\ Len(l) = off /\ r \in Seq(S) /\ Len(r) = off + n
        /\ \A i \in 1 .. off : l[i] = b[i]
        /\ \A i \in 1 .. off + n : r[i] = b[i]
    BY <1>2, <1>3
  <2> HIDE DEF l, r
  <2>2. PICK z : z = l \o x
    OBVIOUS
  <2>3. /\ z \in Seq(S) /\ Len(z) = off + n
        /\ \A i \in 1 .. off : z[i] = l[i]
        /\ \A i \in 1 .. n : z[off + i] = x[i]
    <3>1. /\ z \in Seq(S) /\ Len(z) = Len(l) + Len(x)
          /\ \A i \in 1 .. Len(l) : z[i] = l[i]
          /\ \A i \in 1 .. Len(x) : z[Len(l) + i] = x[i]
      <4>1. l \in Seq(S) /\ x \in Seq(S)
        BY <2>1, <1>1
      <4>2. QED
        BY <4>1, <2>2, Joined
    <3>2. QED
      BY <3>1, <2>1, <1>1
  <2>5. \A i \in 1 .. Len(z) : z[i] = r[i]
    <3> TAKE i \in 1 .. Len(z)
    <3>1. CASE i <= off
      BY <3>1, <2>1, <2>3
    <3>2. CASE i > off
      <4>1. PICK j \in 1 .. n : i = off + j
        <5>1. i - off \in 1 .. n /\ i = off + (i - off)
          BY <3>2, <2>3
        <5>2. QED
          BY <5>1
      <4>2. QED
        BY <4>1, <2>1, <2>3, <1>1
    <3>3. QED
      BY <3>1, <3>2, <2>3
  <2>4. l \o x = r
    BY <2>1, <2>2, <2>3, <2>5, SeqEqual
  <2> QED
    BY <2>4 DEF l, r
<1> QED
  BY <1>1, <1>4, <1>5 DEF x

LEMMA Rests ==
  ASSUME NEW S, NEW b \in Seq(S), NEW off \in Nat, NEW n \in Nat, off + n <= Len(b)
  PROVE  /\ SubSeq(b, off + 1, Len(b)) \in Seq(S)
         /\ Len(SubSeq(b, off + 1, Len(b))) = Len(b) - off
         /\ SubSeq(SubSeq(b, off + 1, Len(b)), 1, n) = SubSeq(b, off + 1, off + n)
         /\ SubSeq(SubSeq(b, off + 1, Len(b)), n + 1, Len(b) - off)
              = SubSeq(b, off + n + 1, Len(b))
<1> DEFINE r == SubSeq(b, off + 1, Len(b))
           m == Len(b) - off
<1>1. r \in Seq(S) /\ Len(r) = m /\ m \in Nat /\ n <= m /\ \A i \in 1 .. m : r[i] = b[off + i]
  OBVIOUS
<1>2. /\ SubSeq(b, off + 1, off + n) \in Seq(S) /\ Len(SubSeq(b, off + 1, off + n)) = n
      /\ \A i \in 1 .. n : SubSeq(b, off + 1, off + n)[i] = b[off + i]
  OBVIOUS
<1>3. /\ SubSeq(b, off + n + 1, Len(b)) \in Seq(S)
      /\ Len(SubSeq(b, off + n + 1, Len(b))) = Len(b) - off - n
      /\ \A i \in 1 .. Len(b) - off - n : SubSeq(b, off + n + 1, Len(b))[i] = b[off + n + i]
  OBVIOUS
<1> HIDE DEF r
<1>4. /\ SubSeq(r, 1, n) \in Seq(S) /\ Len(SubSeq(r, 1, n)) = n
      /\ \A i \in 1 .. n : SubSeq(r, 1, n)[i] = r[i]
  BY <1>1
<1>5. /\ SubSeq(r, n + 1, m) \in Seq(S) /\ Len(SubSeq(r, n + 1, m)) = m - n
      /\ \A i \in 1 .. m - n : SubSeq(r, n + 1, m)[i] = r[n + i]
  BY <1>1
<1>6. SubSeq(r, 1, n) = SubSeq(b, off + 1, off + n)
  <2>1. \A i \in 1 .. n : SubSeq(r, 1, n)[i] = SubSeq(b, off + 1, off + n)[i]
    BY <1>1, <1>2, <1>4
  <2>2. QED
    BY <1>2, <1>4, <2>1, SeqEqual
<1>7. SubSeq(r, n + 1, m) = SubSeq(b, off + n + 1, Len(b))
  <2>1. \A i \in 1 .. m - n : SubSeq(r, n + 1, m)[i] = SubSeq(b, off + n + 1, Len(b))[i]
    <3> TAKE i \in 1 .. m - n
    <3>1. n + i \in 1 .. m /\ off + (n + i) = off + n + i /\ i \in 1 .. Len(b) - off - n
      BY <1>1
    <3>2. SubSeq(r, n + 1, m)[i] = r[n + i]
      BY <1>5
    <3>3. r[n + i] = b[off + (n + i)]
      BY <1>1, <3>1
    <3>4. SubSeq(b, off + n + 1, Len(b))[i] = b[off + n + i]
      BY <1>3, <3>1
    <3>5. QED
      BY <3>1, <3>2, <3>3, <3>4
  <2>2. m - n = Len(b) - off - n
    OBVIOUS
  <2>3. QED
    BY <1>3, <1>5, <2>1, <2>2, SeqEqual
<1> QED
  BY <1>1, <1>6, <1>7 DEF r

(* Paths.                                                                  *)
LEMMA SpotTyped ==
  ASSUME NEW p \in Spot
  PROVE  /\ p.done \in Nat /\ p.off \in Nat /\ p.size \in RtmpChunkSize
         /\ p.size \in Nat \ {0}
BY RtmpSizes DEF Spot

LEMMA NoPath ==
  ASSUME NEW s, NEW c, NEW p \in Spot
  PROVE  Path(s, c, <<>>, p, p)
<1> DEFINE pos == [i \in 0 .. 0 |-> p]
<1>1. pos \in [0 .. 0 -> Spot] /\ pos[0] = p
  OBVIOUS
<1> HIDE DEF pos
<1>2. Len(<<>>) = 0
  OBVIOUS
<1>3. QED
  BY <1>1, <1>2 DEF Path

LEMMA PathLonger ==
  ASSUME NEW s, NEW c, NEW chunks \in Seq(Chunk), NEW p, NEW q, NEW x \in Chunk,
         NEW r \in Spot, Path(s, c, chunks, p, q), GoesBy(s, c, x, q, r)
  PROVE  Path(s, c, Append(chunks, x), p, r)
<1>1. PICK pos \in [0 .. Len(chunks) -> Spot] :
        /\ pos[0] = p /\ pos[Len(chunks)] = q
        /\ \A i \in 1 .. Len(chunks) : GoesBy(s, c, chunks[i], pos[i - 1], pos[i])
  BY DEF Path
<1>2. PICK w : w = Append(chunks, x)
  OBVIOUS
<1>3. PICK n \in Nat : n = Len(chunks)
  OBVIOUS
<1>4. Len(w) = n + 1 /\ w[n + 1] = x /\ \A i \in 1 .. n : w[i] = chunks[i]
  BY <1>2, <1>3
<1> DEFINE new == [i \in 0 .. n + 1 |-> IF i = n + 1 THEN r ELSE pos[i]]
<1>5. /\ new \in [0 .. n + 1 -> Spot] /\ new[n + 1] = r /\ \A i \in 0 .. n : new[i] = pos[i]
  BY <1>1, <1>3
<1> HIDE DEF new
<1>6. \A i \in 1 .. n + 1 : GoesBy(s, c, w[i], new[i - 1], new[i])
  <2> TAKE i \in 1 .. n + 1
  <2>1. CASE i = n + 1
    <3>1. new[i - 1] = q /\ new[i] = r /\ w[i] = x
      BY <2>1, <1>1, <1>3, <1>4, <1>5
    <3>2. QED
      BY <3>1
  <2>2. CASE i # n + 1
    <3>1. new[i - 1] = pos[i - 1] /\ new[i] = pos[i] /\ w[i] = chunks[i] /\ i \in 1 .. n
      BY <2>2, <1>4, <1>5
    <3>2. QED
      BY <3>1, <1>1, <1>3
  <2>3. QED
    BY <2>1, <2>2
<1>7. new[0] = p
  BY <1>1, <1>3, <1>5
<1>8. Path(s, c, w, p, r)
  BY <1>4, <1>5, <1>6, <1>7 DEF Path
<1>9. QED
  BY <1>2, <1>8

LEMMA PathTaken ==
  ASSUME NEW s, NEW c, NEW chunks \in Seq(Chunk), chunks # <<>>, NEW p, NEW q,
         Path(s, c, chunks, p, q)
  PROVE  \E r \in Spot : GoesBy(s, c, Head(chunks), p, r) /\ Path(s, c, Tail(chunks), r, q)
<1>1. PICK pos \in [0 .. Len(chunks) -> Spot] :
        /\ pos[0] = p /\ pos[Len(chunks)] = q
        /\ \A i \in 1 .. Len(chunks) : GoesBy(s, c, chunks[i], pos[i - 1], pos[i])
  BY DEF Path
<1>2. PICK w : w = Tail(chunks)
  OBVIOUS
<1>3. PICK n \in Nat : Len(chunks) = n + 1
  <2>1. Len(chunks) \in Nat /\ Len(chunks) # 0
    OBVIOUS
  <2>2. Len(chunks) - 1 \in Nat /\ Len(chunks) = (Len(chunks) - 1) + 1
    BY <2>1
  <2>3. QED
    BY <2>2
<1>4. Len(w) = n /\ (\A i \in 1 .. n : w[i] = chunks[i + 1]) /\ Head(chunks) = chunks[1]
  BY <1>2, <1>3
<1> DEFINE new == [i \in 0 .. n |-> pos[i + 1]]
<1>5. new \in [0 .. n -> Spot] /\ \A i \in 0 .. n : new[i] = pos[i + 1]
  BY <1>1, <1>3
<1> HIDE DEF new
<1>6. \A i \in 1 .. n : GoesBy(s, c, w[i], new[i - 1], new[i])
  <2> TAKE i \in 1 .. n
  <2>1. new[i - 1] = pos[(i + 1) - 1] /\ new[i] = pos[i + 1] /\ w[i] = chunks[i + 1]
        /\ i + 1 \in 1 .. Len(chunks)
    BY <1>3, <1>4, <1>5
  <2>2. QED
    BY <2>1, <1>1
<1>7. new[n] = q /\ new[0] = pos[1] /\ new[0] \in Spot
  BY <1>1, <1>3, <1>5
<1>8. Path(s, c, w, new[0], q)
  BY <1>4, <1>5, <1>6, <1>7 DEF Path
<1>9. GoesBy(s, c, Head(chunks), p, new[0])
  BY <1>1, <1>3, <1>4, <1>7
<1>10. QED
  BY <1>2, <1>7, <1>8, <1>9

(* Another message does not change what was sent before it.                *)
LEMMA SameSteps ==
  ASSUME NEW s \in Seq(SentMessage), NEW m \in SentMessage, NEW c, NEW x, NEW p \in Spot,
         NEW q, Sequel(s), GoesBy(s, c, x, p, q)
  PROVE  GoesBy(Append(s, m), c, x, p, q)
<1>1. SUFFICES ASSUME Carried(s, c, x, p, q) PROVE Carried(Append(s, m), c, x, p, q)
  BY DEF GoesBy
<1> DEFINE k == p.done + 1
<1>2. k \in 1 .. Len(s) /\ p.done \in Nat /\ Len(s) \in Nat
  BY <1>1, SpotTyped DEF Carried
<1>3. PICK t : t = Append(s, m)
  OBVIOUS
<1>4. Len(t) = Len(s) + 1 /\ t[k] = s[k] /\ (k > 1 => t[k - 1] = s[k - 1])
  BY <1>2, <1>3
<1> HIDE DEF k
<1>5. HeaderOf(t, k) = HeaderOf(s, k) /\ TimeOf(t, k) = TimeOf(s, k)
  <2>1. s[k].whole \/ k > 1
    BY <1>2 DEF Sequel, k
  <2>2. CASE s[k].whole
    BY <2>2, <1>4 DEF HeaderOf, TimeOf
  <2>3. CASE k > 1
    BY <2>3, <1>4 DEF HeaderOf, TimeOf
  <2>4. QED
    BY <2>1, <2>2, <2>3
<1>6. s[p.done + 1] = t[p.done + 1] /\ HeaderOf(t, p.done + 1) = HeaderOf(s, p.done + 1)
      /\ TimeOf(t, p.done + 1) = TimeOf(s, p.done + 1)
  BY <1>4, <1>5 DEF k
<1>7. BodyAt(t, p) = BodyAt(s, p) /\ Amount(t, p) = Amount(s, p)
  BY <1>6 DEF BodyAt, Amount
<1>8. ChunkAt(t, c, p) = ChunkAt(s, c, p) /\ After(t, p) = After(s, p)
  BY <1>6, <1>7 DEF ChunkAt, After
<1>9. p.done < Len(t)
  BY <1>2, <1>4, <1>1 DEF Carried
<1>10. QED
  BY <1>1, <1>3, <1>8, <1>9 DEF Carried

LEMMA SamePath ==
  ASSUME NEW s \in Seq(SentMessage), NEW m \in SentMessage, NEW c, NEW chunks, NEW p,
         NEW q, Sequel(s), Path(s, c, chunks, p, q), Len(chunks) \in Nat
  PROVE  Path(Append(s, m), c, chunks, p, q)
<1>1. PICK pos \in [0 .. Len(chunks) -> Spot] :
        /\ pos[0] = p /\ pos[Len(chunks)] = q
        /\ \A i \in 1 .. Len(chunks) : GoesBy(s, c, chunks[i], pos[i - 1], pos[i])
  BY DEF Path
<1>2. \A i \in 1 .. Len(chunks) : GoesBy(Append(s, m), c, chunks[i], pos[i - 1], pos[i])
  <2> TAKE i \in 1 .. Len(chunks)
  <2>1. pos[i - 1] \in Spot /\ GoesBy(s, c, chunks[i], pos[i - 1], pos[i])
    BY <1>1
  <2>2. QED
    BY <2>1, SameSteps
<1>3. QED
  BY <1>1, <1>2 DEF Path

(* The spots that the two ends are at.                                     *)
ReaderSpot(c) ==
  [done |-> Len(rtmpGot[c]),
   off |-> IF vecChannelsIn[c] = NoMessage THEN 0 ELSE Len(vecChannelsIn[c].body),
   size |-> inChunkSize]
SenderSpot(c) ==
  [done |-> IF beingSent[c] = NoMessage THEN Len(rtmpSent[c]) ELSE Len(rtmpSent[c]) - 1,
   off |-> IF beingSent[c] = NoMessage THEN 0
           ELSE beingSent[c].size - Len(beingSent[c].rest),
   size |-> outChunkSize]

(* What a sender knows of the last message and of the one it is writing.   *)
LastKept(s, prev) ==
  IF Len(s) = 0 THEN prev = NoMessage
  ELSE /\ prev \in RtmpMessage /\ prev.type = s[Len(s)].type
       /\ prev.body = s[Len(s)].body /\ prev.time = s[Len(s)].time
Written(s, w, off) ==
  /\ off > 0 => off < Len(s[Len(s)].body)
  /\ w.first <=> off = 0
  /\ w.header = HeaderOf(s, Len(s)) /\ w.time = TimeOf(s, Len(s))
  /\ w.type = s[Len(s)].type /\ w.size = Len(s[Len(s)].body)
  /\ w.rest = SubSeq(s[Len(s)].body, off + 1, Len(s[Len(s)].body))
SenderAt(s, prev, w) ==
  /\ LastKept(s, prev)
  /\ \/ w = NoMessage
     \/ Len(s) > 0 /\ \E off \in 0 .. Len(s[Len(s)].body) : Written(s, w, off)

(* What a reader has put together of the next message, and the header of   *)
(* the last one that it goes by.                                           *)
Between(s, k, v) ==
  /\ k > 0 /\ v.body = <<>> /\ ~v.absolute
  /\ v.type = s[k].type /\ v.size = Len(s[k].body)
Within(s, k, v) ==
  /\ k <= Len(s) /\ Len(v.body) \in 1 .. Len(s[k].body) - 1
  /\ v.body = SubSeq(s[k].body, 1, Len(v.body))
  /\ v.type = s[k].type /\ v.size = Len(s[k].body)
  /\ v.absolute <=> s[k].whole
  /\ ~s[k].repeats => v.time = TimeOf(s, k)
ReaderAt(s, g, v, stamp) ==
  /\ Len(g) <= Len(s)
  /\ \A i \in 1 .. Len(g) : g[i].type = s[i].type /\ g[i].body = s[i].body
  /\ stamp = IF Len(g) = 0 THEN 0 ELSE g[Len(g)].time
  /\ \/ v = NoMessage /\ Len(g) = 0
     \/ v \in PartlyRead /\ (Between(s, Len(g), v) \/ Within(s, Len(g) + 1, v))
TimesRight(s, g) ==
  \A i \in 1 .. Len(g) :
    (\E j \in 1 .. i : s[j].whole /\ \A k \in (j + 1) .. i : ~s[k].repeats)
    => g[i].time = s[i].time

ChunksForm ==
  /\ chunkWire \in Seq(Chunk) /\ {inChunkSize, outChunkSize} \subseteq RtmpChunkSize
  /\ rtmpSent \in [RtmpChannel -> Seq(SentMessage)]
  /\ rtmpGot \in [RtmpChannel -> Seq(GotMessage)]
  /\ vecChannelsOut \in [RtmpChannel -> RtmpMessage \cup {NoMessage}]
  /\ beingSent \in [RtmpChannel -> PartlySent \cup {NoMessage}]
  /\ vecChannelsIn \in [RtmpChannel -> PartlyRead \cup {NoMessage}]
  /\ channelTimestamp \in [RtmpChannel -> RtmpTime]
ChannelAt(c) ==
  /\ Sequel(rtmpSent[c])
  /\ SenderAt(rtmpSent[c], vecChannelsOut[c], beingSent[c])
  /\ ReaderAt(rtmpSent[c], rtmpGot[c], vecChannelsIn[c], channelTimestamp[c])
  /\ Path(rtmpSent[c], c, chunkWire, ReaderSpot(c), SenderSpot(c))
  /\ TimesRight(rtmpSent[c], rtmpGot[c])
ChunksInv == ChunksForm /\ \A c \in RtmpChannel : ChannelAt(c)

LEMMA MessageTyped ==
  ASSUME NEW m \in RtmpMessage
  PROVE  m.type \in RtmpType /\ m.body \in Seq(RtmpByte) /\ m.time \in RtmpTime
<1>1. m.body \in Seq(RtmpByte) /\ m.time \in RtmpTime
  BY RtmpContents
<1>2. m.type \in RtmpType
  BY DEF RtmpType
<1>3. QED
  BY <1>1, <1>2

LEMMA SentTyped ==
  ASSUME NEW s \in Seq(SentMessage), NEW k \in 1 .. Len(s)
  PROVE  /\ s[k] \in SentMessage
         /\ s[k].type \in RtmpType /\ s[k].body \in Seq(RtmpByte) /\ s[k].time \in RtmpTime
         /\ Len(s[k].body) \in Nat
<1>1. s[k] \in SentMessage
  OBVIOUS
<1>2. s[k].type \in RtmpType /\ s[k].body \in Seq(RtmpByte) /\ s[k].time \in RtmpTime
  BY <1>1 DEF SentMessage
<1>3. QED
  BY <1>1, <1>2

LEMMA Turned ==
  ASSUME NEW x \in Int
  PROVE  x % TimeModulus \in RtmpTime
BY RtmpTimes DEF RtmpTime

LEMMA HeadersTyped ==
  ASSUME NEW s, Sequel(s), NEW k \in 1 .. Len(s)
  PROVE  HeaderOf(s, k) \in LARGE .. MINIMUM /\ TimeOf(s, k) \in RtmpTime
<1>1. s \in Seq(SentMessage) /\ (s[k].whole \/ k > 1)
  BY DEF Sequel
<1>2. HeaderOf(s, k) \in LARGE .. MINIMUM
  BY DEF HeaderOf, Compressed, LARGE, MEDIUM, SMALL, MINIMUM
<1>3. TimeOf(s, k) \in RtmpTime
  <2>1. CASE s[k].whole
    BY <2>1, <1>1, SentTyped DEF TimeOf
  <2>2. CASE ~s[k].whole
    <3>1. k - 1 \in 1 .. Len(s)
      BY <2>2, <1>1
    <3>2. s[k].time \in RtmpTime /\ s[k - 1].time \in RtmpTime
      BY <3>1, <1>1, SentTyped
    <3>3. s[k].time - s[k - 1].time \in Int
      BY <3>2 DEF RtmpTime
    <3>4. QED
      BY <2>2, <3>3, Turned DEF TimeOf
  <2>3. QED
    BY <2>1, <2>2
<1>4. QED
  BY <1>2, <1>3

LEMMA Smallest == SmallestChunk \in RtmpChunkSize
<1>1. RtmpChunkSize \subseteq Nat /\ RtmpChunkSize # {}
  BY RtmpSizes
<1> DEFINE Lt == {ss \in Nat \X Nat : ss[1] < ss[2]}
<1>2. IsWellFoundedOn(Lt, Nat)
  BY NatLessThanWellFounded DEF OpToRel
<1>3. PICK m \in RtmpChunkSize : \A n \in RtmpChunkSize : ~(<<n, m>> \in Lt)
  <2> HIDE DEF Lt
  <2> QED
    BY <1>1, <1>2, WFMin
<1>4. \A n \in RtmpChunkSize : ~(n < m)
  BY <1>1, <1>3
<1>5. \A n \in RtmpChunkSize : m <= n
  BY <1>1, <1>4
<1>6. QED
  BY <1>5 DEF SmallestChunk

(* A connection that has just been made.                                   *)
LEMMA ChunksBegin == ChunksInit => ChunksInv
<1> SUFFICES ASSUME ChunksInit PROVE ChunksInv
  OBVIOUS
<1>1. 0 \in RtmpTime
  BY RtmpTimes DEF RtmpTime
<1>2. ChunksForm
  <2>1. chunkWire \in Seq(Chunk) /\ {inChunkSize, outChunkSize} \subseteq RtmpChunkSize
    BY Smallest DEF ChunksInit
  <2>2. QED
    BY <1>1, <2>1 DEF ChunksInit, ChunksForm, OnEach
<1>3. ASSUME NEW c \in RtmpChannel PROVE ChannelAt(c)
  <2>1. /\ rtmpSent[c] = <<>> /\ rtmpGot[c] = <<>> /\ vecChannelsOut[c] = NoMessage
        /\ beingSent[c] = NoMessage /\ vecChannelsIn[c] = NoMessage
        /\ channelTimestamp[c] = 0 /\ chunkWire = <<>> /\ inChunkSize = SmallestChunk
        /\ outChunkSize = SmallestChunk
    BY DEF ChunksInit, OnEach
  <2>2. Len(rtmpSent[c]) = 0 /\ Len(rtmpGot[c]) = 0
    BY <2>1
  <2>3. PICK p : p = [done |-> 0, off |-> 0, size |-> SmallestChunk]
    OBVIOUS
  <2>4. p \in Spot
    BY <2>3, Smallest DEF Spot
  <2>5. ReaderSpot(c) = p /\ SenderSpot(c) = p
    BY <2>1, <2>2, <2>3 DEF ReaderSpot, SenderSpot
  <2>6. Path(rtmpSent[c], c, chunkWire, ReaderSpot(c), SenderSpot(c))
    BY <2>1, <2>4, <2>5, NoPath
  <2>7. Sequel(rtmpSent[c])
    BY <2>1 DEF Sequel
  <2>8. SenderAt(rtmpSent[c], vecChannelsOut[c], beingSent[c])
    BY <2>1, <2>2 DEF SenderAt, LastKept
  <2>9. ReaderAt(rtmpSent[c], rtmpGot[c], vecChannelsIn[c], channelTimestamp[c])
    BY <2>1, <2>2 DEF ReaderAt
  <2>10. TimesRight(rtmpSent[c], rtmpGot[c])
    BY <2>2 DEF TimesRight
  <2>11. QED
    BY <2>6, <2>7, <2>8, <2>9, <2>10 DEF ChannelAt
<1>4. QED
  BY <1>2, <1>3 DEF ChunksInv

(* A channel whose ends keep still.                                        *)
LEMMA ChannelStays ==
  ASSUME NEW c, ChannelAt(c), rtmpSent'[c] = rtmpSent[c], rtmpGot'[c] = rtmpGot[c],
         vecChannelsOut'[c] = vecChannelsOut[c], beingSent'[c] = beingSent[c],
         vecChannelsIn'[c] = vecChannelsIn[c],
         channelTimestamp'[c] = channelTimestamp[c],
         Path(rtmpSent[c], c, chunkWire', ReaderSpot(c)', SenderSpot(c)')
  PROVE  ChannelAt(c)'
BY DEF ChannelAt, Sequel, SenderAt, ReaderAt, TimesRight

LEMMA SpotsStay ==
  ASSUME NEW c, rtmpSent'[c] = rtmpSent[c], rtmpGot'[c] = rtmpGot[c],
         beingSent'[c] = beingSent[c], vecChannelsIn'[c] = vecChannelsIn[c]
  PROVE  /\ inChunkSize' = inChunkSize => ReaderSpot(c)' = ReaderSpot(c)
         /\ outChunkSize' = outChunkSize => SenderSpot(c)' = SenderSpot(c)
BY DEF ReaderSpot, SenderSpot

LEMMA SpotsTyped ==
  ASSUME ChunksInv, NEW c \in RtmpChannel
  PROVE  ReaderSpot(c) \in Spot /\ SenderSpot(c) \in Spot
<1>1. /\ rtmpSent[c] \in Seq(SentMessage) /\ rtmpGot[c] \in Seq(GotMessage)
      /\ inChunkSize \in RtmpChunkSize /\ outChunkSize \in RtmpChunkSize
      /\ vecChannelsIn[c] \in PartlyRead \cup {NoMessage}
      /\ beingSent[c] \in PartlySent \cup {NoMessage}
      /\ SenderAt(rtmpSent[c], vecChannelsOut[c], beingSent[c])
  BY DEF ChunksInv, ChunksForm, ChannelAt
<1> DEFINE s == rtmpSent[c]
<1>2. ReaderSpot(c) \in Spot
  <2>1. vecChannelsIn[c] # NoMessage => Len(vecChannelsIn[c].body) \in Nat
    BY <1>1 DEF PartlyRead
  <2>2. QED
    BY <1>1, <2>1 DEF ReaderSpot, Spot
<1>3. SenderSpot(c) \in Spot
  <2>1. CASE beingSent[c] = NoMessage
    BY <2>1, <1>1 DEF SenderSpot, Spot
  <2>2. CASE beingSent[c] # NoMessage
    <3>1. PICK off \in 0 .. Len(s[Len(s)].body) : Len(s) > 0 /\ Written(s, beingSent[c], off)
      BY <2>2, <1>1 DEF SenderAt
    <3>2. Len(s) \in 1 .. Len(s)
      BY <3>1, <1>1
    <3>3. s[Len(s)].body \in Seq(RtmpByte)
      BY <3>2, <1>1, SentTyped
    <3> DEFINE b == s[Len(s)].body
    <3>4. beingSent[c].size = Len(b) /\ beingSent[c].rest = SubSeq(b, off + 1, Len(b))
      BY <3>1 DEF Written
    <3>5. Len(SubSeq(b, off + 1, Len(b))) = Len(b) - off
      BY <3>1, <3>3
    <3>6. beingSent[c].size - Len(beingSent[c].rest) \in Nat
      BY <3>1, <3>3, <3>4, <3>5
    <3>7. QED
      BY <2>2, <3>2, <3>6, <1>1 DEF SenderSpot, Spot
  <2>3. QED
    BY <2>1, <2>2
<1>4. QED
  BY <1>2, <1>3

(* What is new of a message that is sent.                                  *)
SentAs(m, form, prev) ==
  [type |-> m.type, body |-> m.body, time |-> m.time,
   repeats |-> HeaderType(form, m, prev) = MINIMUM, whole |-> form = LARGE]

LEMMA SentAsTyped ==
  ASSUME NEW m \in RtmpMessage, NEW form \in {LARGE, MEDIUM}, NEW prev
  PROVE  /\ SentAs(m, form, prev) \in SentMessage
         /\ SentAs(m, form, prev).type = m.type /\ SentAs(m, form, prev).body = m.body
         /\ SentAs(m, form, prev).time = m.time
         /\ SentAs(m, form, prev).whole <=> form = LARGE
         /\ SentAs(m, form, prev).repeats <=> HeaderType(form, m, prev) = MINIMUM
<1>1. m.type \in RtmpType /\ m.body \in Seq(RtmpByte) /\ m.time \in RtmpTime
  BY MessageTyped
<1>2. (form = LARGE) \in BOOLEAN /\ (HeaderType(form, m, prev) = MINIMUM) \in BOOLEAN
  OBVIOUS
<1>3. SentAs(m, form, prev) \in SentMessage
  BY <1>1, <1>2 DEF SentAs, SentMessage
<1>4. QED
  BY <1>3 DEF SentAs

LEMMA LongerSequel ==
  ASSUME NEW s, Sequel(s), NEW m \in RtmpMessage, NEW form \in {LARGE, MEDIUM}, NEW prev,
         LastKept(s, prev), form = LARGE \/ prev # NoMessage
  PROVE  LET t == Append(s, SentAs(m, form, prev))
         IN  /\ Sequel(t) /\ HeaderOf(t, Len(t)) = HeaderType(form, m, prev)
             /\ TimeOf(t, Len(t)) = TimeField(form, m, prev)
             /\ \A k \in 1 .. Len(s) : TimeOf(t, k) = TimeOf(s, k)
<1>1. PICK x \in SentMessage : x = SentAs(m, form, prev)
  BY SentAsTyped
<1>2. /\ x.type = m.type /\ x.body = m.body /\ x.time = m.time /\ (x.whole <=> form = LARGE)
      /\ x.repeats <=> HeaderType(form, m, prev) = MINIMUM
  BY <1>1, SentAsTyped
<1>3. PICK t : t = Append(s, x)
  OBVIOUS
<1>4. PICK n \in Nat : n = Len(s)
  BY DEF Sequel
<1>5. s \in Seq(SentMessage) /\ \A k \in 1 .. n : s[k].whole \/ k > 1
  BY <1>4 DEF Sequel
<1>6. /\ t \in Seq(SentMessage) /\ Len(t) = n + 1 /\ t[n + 1] = x
      /\ \A k \in 1 .. n : t[k] = s[k]
  BY <1>3, <1>4, <1>5
<1>7. ASSUME NEW k \in 1 .. n
      PROVE  HeaderOf(t, k) = HeaderOf(s, k) /\ TimeOf(t, k) = TimeOf(s, k)
  <2>1. t[k] = s[k] /\ (k > 1 => t[k - 1] = s[k - 1])
    BY <1>6
  <2>2. CASE s[k].whole
    BY <2>1, <2>2 DEF HeaderOf, TimeOf
  <2>3. CASE k > 1
    BY <2>1, <2>3 DEF HeaderOf, TimeOf
  <2>4. QED
    BY <1>5, <2>2, <2>3
<1>8. /\ HeaderOf(t, n + 1) = HeaderType(form, m, prev)
      /\ TimeOf(t, n + 1) = TimeField(form, m, prev)
      /\ x.whole \/ n > 0
  <2>1. CASE form = LARGE
    <3>1. HeaderOf(t, n + 1) = LARGE /\ TimeOf(t, n + 1) = m.time
      BY <2>1, <1>2, <1>6 DEF HeaderOf, TimeOf
    <3>2. HeaderType(form, m, prev) = LARGE /\ TimeField(form, m, prev) = m.time
      BY <2>1 DEF HeaderType, TimeField
    <3>3. QED
      BY <3>1, <3>2, <2>1, <1>2
  <2>2. CASE form # LARGE
    <3>1. form = MEDIUM /\ prev # NoMessage /\ ~x.whole
      BY <2>2, <1>2
    <3>2. n > 0 /\ prev.type = s[n].type /\ prev.body = s[n].body /\ prev.time = s[n].time
      BY <3>1, <1>4 DEF LastKept
    <3>3. t[(n + 1) - 1] = s[n] /\ t[n + 1] = x
      BY <3>2, <1>6
    <3>4. HeaderOf(t, n + 1) = Compressed(MEDIUM, x, s[n])
          /\ TimeOf(t, n + 1) = (x.time - s[n].time) % TimeModulus
      BY <3>1, <3>3 DEF HeaderOf, TimeOf
    <3>5. Compressed(MEDIUM, x, s[n]) = Compressed(MEDIUM, m, prev)
      BY <3>2, <1>2 DEF Compressed
    <3>6. HeaderType(form, m, prev) = Compressed(MEDIUM, m, prev)
          /\ TimeField(form, m, prev) = (m.time - prev.time) % TimeModulus
      BY <2>2, <3>1 DEF HeaderType, TimeField
    <3>7. QED
      BY <3>2, <3>4, <3>5, <3>6, <1>2
  <2>3. QED
    BY <2>1, <2>2
<1>9. Sequel(t)
  <2> SUFFICES ASSUME NEW k \in 1 .. n + 1
               PROVE  /\ t[k].whole \/ k > 1
                      /\ t[k].repeats <=> HeaderOf(t, k) = MINIMUM
    BY <1>6 DEF Sequel
  <2>1. CASE k = n + 1
    BY <2>1, <1>2, <1>6, <1>8
  <2>2. CASE k # n + 1
    <3>1. k \in 1 .. n /\ t[k] = s[k]
      BY <2>2, <1>6
    <3>2. s[k].repeats <=> HeaderOf(s, k) = MINIMUM
      BY <3>1, <1>4 DEF Sequel
    <3>3. QED
      BY <3>1, <3>2, <1>5, <1>7
  <2>3. QED
    BY <2>1, <2>2
<1>10. QED
  BY <1>1, <1>3, <1>4, <1>6, <1>7, <1>8, <1>9

(* What the reader holds does not depend on messages to come.              *)
LEMMA ReaderLonger ==
  ASSUME NEW s \in Seq(SentMessage), NEW x \in SentMessage, NEW t, t = Append(s, x),
         \A k \in 1 .. Len(s) : TimeOf(t, k) = TimeOf(s, k),
         NEW g \in Seq(GotMessage), NEW v, NEW stamp,
         ReaderAt(s, g, v, stamp), TimesRight(s, g)
  PROVE  ReaderAt(t, g, v, stamp) /\ TimesRight(t, g)
<1>1. Len(t) = Len(s) + 1 /\ (\A k \in 1 .. Len(s) : t[k] = s[k]) /\ Len(s) \in Nat
      /\ Len(g) \in Nat /\ Len(g) <= Len(s)
  BY DEF ReaderAt
<1>2. \A i \in 1 .. Len(g) : g[i].type = t[i].type /\ g[i].body = t[i].body
  BY <1>1 DEF ReaderAt
<1>3. Between(s, Len(g), v) => Between(t, Len(g), v)
  BY <1>1 DEF Between
<1>4. Within(s, Len(g) + 1, v) => Within(t, Len(g) + 1, v)
  BY <1>1 DEF Within
<1>5. ReaderAt(t, g, v, stamp)
  <2>1. Len(g) <= Len(t) /\ stamp = IF Len(g) = 0 THEN 0 ELSE g[Len(g)].time
    BY <1>1 DEF ReaderAt
  <2>2. \/ v = NoMessage /\ Len(g) = 0
        \/ v \in PartlyRead /\ (Between(s, Len(g), v) \/ Within(s, Len(g) + 1, v))
    BY DEF ReaderAt
  <2>3. QED
    BY <2>1, <2>2, <1>2, <1>3, <1>4 DEF ReaderAt
<1>6. TimesRight(t, g)
  <2> SUFFICES ASSUME NEW i \in 1 .. Len(g), NEW j \in 1 .. i, t[j].whole,
                      \A k \in (j + 1) .. i : ~t[k].repeats
               PROVE  g[i].time = t[i].time
    BY DEF TimesRight
  <2>1. s[j].whole /\ t[i] = s[i]
    BY <1>1
  <2>2. \A k \in (j + 1) .. i : ~s[k].repeats
    <3> TAKE k \in (j + 1) .. i
    <3>1. k \in 1 .. Len(s)
      BY <1>1
    <3>2. QED
      BY <3>1, <1>1
  <2>3. QED
    BY <2>1, <2>2 DEF TimesRight
<1>7. QED
  BY <1>5, <1>6

LEMMA ChannelOf ==
  ASSUME ChunksInv, NEW c \in RtmpChannel
  PROVE  /\ ChannelAt(c) /\ Sequel(rtmpSent[c]) /\ rtmpSent[c] \in Seq(SentMessage)
         /\ rtmpGot[c] \in Seq(GotMessage) /\ chunkWire \in Seq(Chunk)
         /\ SenderAt(rtmpSent[c], vecChannelsOut[c], beingSent[c])
         /\ ReaderAt(rtmpSent[c], rtmpGot[c], vecChannelsIn[c], channelTimestamp[c])
         /\ Path(rtmpSent[c], c, chunkWire, ReaderSpot(c), SenderSpot(c))
         /\ TimesRight(rtmpSent[c], rtmpGot[c])
BY DEF ChunksInv, ChunksForm, ChannelAt

LEMMA SendMessageKeeps ==
  ASSUME ChunksInv, NEW c \in RtmpChannel, NEW m \in RtmpMessage,
         NEW form \in {LARGE, MEDIUM}, SendMessage(c, m, form)
  PROVE  ChunksInv'
<1> DEFINE prev == vecChannelsOut[c]
           s == rtmpSent[c]
           w == [first |-> TRUE, header |-> HeaderType(form, m, prev), type |-> m.type,
                 size |-> Len(m.body), time |-> TimeField(form, m, prev), rest |-> m.body]
<1>0. ChunksForm
  BY DEF ChunksInv
<1>1. /\ beingSent[c] = NoMessage /\ (form = LARGE \/ prev # NoMessage)
      /\ beingSent' = [beingSent EXCEPT ![c] = w]
      /\ vecChannelsOut' = [vecChannelsOut EXCEPT ![c] = m]
      /\ rtmpSent' = [rtmpSent EXCEPT ![c] = Append(@, SentAs(m, form, prev))]
      /\ UNCHANGED <<outChunkSize, vecChannelsIn, channelTimestamp, inChunkSize, chunkWire, rtmpGot>>
  BY DEF SendMessage, SentAs, readerVars
<1>2. Sequel(s) /\ s \in Seq(SentMessage) /\ SenderAt(s, prev, beingSent[c])
      /\ rtmpGot[c] \in Seq(GotMessage) /\ chunkWire \in Seq(Chunk)
      /\ ReaderAt(s, rtmpGot[c], vecChannelsIn[c], channelTimestamp[c])
      /\ Path(s, c, chunkWire, ReaderSpot(c), SenderSpot(c))
      /\ TimesRight(s, rtmpGot[c])
  BY ChannelOf
<1>3. LastKept(s, prev)
  BY <1>2 DEF SenderAt
<1>4. PICK x \in SentMessage : x = SentAs(m, form, prev)
  BY SentAsTyped
<1>5. x.type = m.type /\ x.body = m.body /\ x.time = m.time
  BY <1>4, SentAsTyped
<1>6. PICK t : t = Append(s, x)
  OBVIOUS
<1>7. /\ Sequel(t) /\ HeaderOf(t, Len(t)) = HeaderType(form, m, prev)
      /\ TimeOf(t, Len(t)) = TimeField(form, m, prev)
      /\ \A k \in 1 .. Len(s) : TimeOf(t, k) = TimeOf(s, k)
  <2> HIDE DEF prev, s
  <2> QED
    BY <1>1, <1>2, <1>3, <1>4, <1>6, LongerSequel
<1>8. /\ t \in Seq(SentMessage) /\ Len(t) = Len(s) + 1 /\ t[Len(t)] = x
      /\ Len(s) \in Nat /\ Len(t) \in 1 .. Len(t)
  BY <1>2, <1>6
<1>9. /\ rtmpSent \in [RtmpChannel -> Seq(SentMessage)]
      /\ vecChannelsOut \in [RtmpChannel -> RtmpMessage \cup {NoMessage}]
      /\ beingSent \in [RtmpChannel -> PartlySent \cup {NoMessage}]
  BY <1>0 DEF ChunksForm
<1>10. /\ rtmpSent'[c] = t /\ beingSent'[c] = w /\ vecChannelsOut'[c] = m
       /\ \A d \in RtmpChannel \ {c} : /\ rtmpSent'[d] = rtmpSent[d]
            /\ beingSent'[d] = beingSent[d] /\ vecChannelsOut'[d] = vecChannelsOut[d]
  BY <1>1, <1>4, <1>6, <1>9
<1>11. m.type \in RtmpType /\ m.body \in Seq(RtmpByte) /\ m.time \in RtmpTime
       /\ m # NoMessage
  BY MessageTyped, RtmpNothing
<1>12. HeaderOf(t, Len(t)) \in LARGE .. MINIMUM /\ TimeOf(t, Len(t)) \in RtmpTime
  BY <1>7, <1>8, HeadersTyped
<1>13. w \in PartlySent /\ w # NoMessage
  <2>1. w \in PartlySent
    BY <1>7, <1>11, <1>12 DEF PartlySent
  <2>2. QED
    BY <2>1, RtmpNothing
<1>14. ChunksForm'
  <2>1. rtmpSent' \in [RtmpChannel -> Seq(SentMessage)]
    BY <1>1, <1>4, <1>6, <1>8, <1>9
  <2>2. vecChannelsOut' \in [RtmpChannel -> RtmpMessage \cup {NoMessage}]
    BY <1>1, <1>9
  <2>3. beingSent' \in [RtmpChannel -> PartlySent \cup {NoMessage}]
    <3> HIDE DEF w
    <3> QED
      BY <1>1, <1>9, <1>13
  <2>4. QED
    BY <1>0, <1>1, <2>1, <2>2, <2>3 DEF ChunksForm
<1>15. ASSUME NEW d \in RtmpChannel, d # c PROVE ChannelAt(d)'
  <2>1. /\ rtmpSent'[d] = rtmpSent[d] /\ rtmpGot'[d] = rtmpGot[d]
        /\ vecChannelsOut'[d] = vecChannelsOut[d] /\ beingSent'[d] = beingSent[d]
        /\ vecChannelsIn'[d] = vecChannelsIn[d] /\ channelTimestamp'[d] = channelTimestamp[d]
        /\ chunkWire' = chunkWire /\ inChunkSize' = inChunkSize /\ outChunkSize' = outChunkSize
    BY <1>1, <1>10, <1>15
  <2>2. ReaderSpot(d)' = ReaderSpot(d) /\ SenderSpot(d)' = SenderSpot(d)
    BY <2>1, SpotsStay
  <2>3. ChannelAt(d) /\ Path(rtmpSent[d], d, chunkWire, ReaderSpot(d), SenderSpot(d))
    BY ChannelOf
  <2>4. QED
    BY <2>1, <2>2, <2>3, ChannelStays
<1>16. ChannelAt(c)'
  <2>1. LastKept(t, m)
    BY <1>5, <1>8 DEF LastKept
  <2>2. Written(t, w, 0)
    <3>1. t[Len(t)].body = m.body /\ t[Len(t)].type = m.type /\ Len(m.body) \in Nat
      BY <1>5, <1>8, <1>11
    <3>2. SubSeq(m.body, 0 + 1, Len(m.body)) = m.body
      BY <1>11
    <3>3. QED
      BY <3>1, <3>2, <1>7 DEF Written
  <2>3. SenderAt(t, m, w)
    <3>1. Len(t[Len(t)].body) \in Nat
      BY <1>8, SentTyped
    <3>2. QED
      BY <2>1, <2>2, <3>1, <1>8 DEF SenderAt
  <2>4. ReaderSpot(c)' = ReaderSpot(c)
    BY <1>1 DEF ReaderSpot
  <2>5. SenderSpot(c)' = SenderSpot(c)
    <3>1. beingSent'[c] # NoMessage /\ beingSent'[c].size - Len(beingSent'[c].rest) = 0
      BY <1>10, <1>11, <1>13
    <3>2. Len(rtmpSent'[c]) - 1 = Len(s)
      BY <1>8, <1>10
    <3>3. QED
      BY <3>1, <3>2, <1>1 DEF SenderSpot
  <2>6. Path(t, c, chunkWire, ReaderSpot(c), SenderSpot(c))
    <3>1. Len(chunkWire) \in Nat
      BY <1>2
    <3>2. QED
      BY <3>1, <1>2, <1>6, SamePath
  <2>7. ReaderAt(t, rtmpGot[c], vecChannelsIn[c], channelTimestamp[c]) /\ TimesRight(t, rtmpGot[c])
    BY <1>2, <1>6, <1>7, ReaderLonger
  <2>8. QED
    BY <1>1, <1>7, <1>10, <2>3, <2>4, <2>5, <2>6, <2>7 DEF ChannelAt
<1>17. QED
  BY <1>14, <1>15, <1>16 DEF ChunksInv

(* A chunk that is written takes its channel a spot further.               *)
LEMMA WriteChunkKeeps ==
  ASSUME ChunksInv, NEW c \in RtmpChannel, WriteChunk(c)
  PROVE  ChunksInv'
<1>0. ChunksForm
  BY DEF ChunksInv
<1>a. PICK w : w = beingSent[c]
  OBVIOUS
<1>b. PICK s : s = rtmpSent[c]
  OBVIOUS
<1>c. PICK n : n = IF Len(w.rest) < outChunkSize THEN Len(w.rest) ELSE outChunkSize
  OBVIOUS
<1>d. PICK x : x = ChunkOf(c, w, n)
  OBVIOUS
<1>e. PICK p : p = SenderSpot(c)
  OBVIOUS
<1>f. PICK rest : rest = SubSeq(w.rest, n + 1, Len(w.rest))
  OBVIOUS
<1>1. /\ w # NoMessage /\ chunkWire' = Append(chunkWire, x)
      /\ beingSent' = [beingSent EXCEPT ![c] =
           IF n = Len(w.rest) THEN NoMessage
           ELSE [w EXCEPT !.first = FALSE, !.rest = rest]]
      /\ UNCHANGED <<vecChannelsOut, outChunkSize, vecChannelsIn, channelTimestamp,
                     inChunkSize, rtmpSent, rtmpGot>>
  BY <1>a, <1>c, <1>d, <1>f DEF WriteChunk, readerVars
<1>2. Sequel(s) /\ s \in Seq(SentMessage) /\ SenderAt(s, vecChannelsOut[c], w)
      /\ chunkWire \in Seq(Chunk) /\ Path(s, c, chunkWire, ReaderSpot(c), p)
  BY ChannelOf, <1>a, <1>b, <1>e
<1>3. PICK off \in 0 .. Len(s[Len(s)].body) : Len(s) > 0 /\ Written(s, w, off)
  BY <1>1, <1>2 DEF SenderAt
<1>g. PICK k : k = Len(s)
  OBVIOUS
<1>h. PICK b : b = s[k].body
  OBVIOUS
<1>4. /\ k \in 1 .. Len(s) /\ k > 0 /\ b \in Seq(RtmpByte) /\ Len(b) \in Nat
      /\ s[k].type \in RtmpType /\ off \in 0 .. Len(b) /\ off \in Nat
  BY <1>2, <1>3, <1>g, <1>h, SentTyped
<1>5. w \in PartlySent
  BY <1>0, <1>1, <1>a DEF ChunksForm
<1>6. /\ (off > 0 => off < Len(b))
      /\ (w.first <=> off = 0) /\ w.header = HeaderOf(s, k) /\ w.type = s[k].type
      /\ w.size = Len(b) /\ w.time = TimeOf(s, k) /\ w.rest = SubSeq(b, off + 1, Len(b))
  BY <1>3, <1>g, <1>h DEF Written
<1>7. outChunkSize \in RtmpChunkSize /\ outChunkSize \in Nat /\ outChunkSize > 0
  <2>1. outChunkSize \in RtmpChunkSize
    BY <1>0 DEF ChunksForm
  <2>2. QED
    BY <2>1, RtmpSizes
<1>8. Len(w.rest) = Len(b) - off /\ n \in Nat /\ off + n <= Len(b)
      /\ (n = Len(w.rest) <=> off + n = Len(b))
  <2>1. Len(w.rest) = Len(b) - off
    BY <1>4, <1>6
  <2>2. QED
    BY <2>1, <1>4, <1>7, <1>c
<1>9. /\ p = [done |-> k - 1, off |-> off, size |-> outChunkSize]
      /\ p.done = k - 1 /\ p.off = off /\ p.size = outChunkSize /\ p.done + 1 = k
  <2>1. Len(b) - (Len(b) - off) = off
    BY <1>4
  <2>2. QED
    <3>1. p = [done |-> k - 1, off |-> w.size - Len(w.rest), size |-> outChunkSize]
      BY <1>1, <1>a, <1>b, <1>e, <1>g DEF SenderSpot
    <3>2. w.size - Len(w.rest) = off
      BY <2>1, <1>6, <1>8
    <3>3. (k - 1) + 1 = k
      BY <1>4
    <3>4. QED
      BY <3>1, <3>2, <3>3
<1>10. BodyAt(s, p) = b /\ Amount(s, p) = n
  BY <1>8, <1>9, <1>c, <1>h DEF BodyAt, Amount
<1>11. HeaderOf(s, k) \in LARGE .. MINIMUM /\ TimeOf(s, k) \in RtmpTime
  BY <1>2, <1>4, HeadersTyped
<1>12. /\ SubSeq(w.rest, 1, n) = SubSeq(b, off + 1, off + n)
       /\ rest = SubSeq(b, off + n + 1, Len(b)) /\ Len(rest) = Len(b) - off - n
       /\ rest \in Seq(RtmpByte) /\ SubSeq(w.rest, 1, n) \in Seq(RtmpByte)
  <2>1. /\ SubSeq(w.rest, 1, n) = SubSeq(b, off + 1, off + n)
        /\ SubSeq(w.rest, n + 1, Len(b) - off) = SubSeq(b, off + n + 1, Len(b))
        /\ SubSeq(b, off + 1, off + n) \in Seq(RtmpByte)
    <3>1. /\ SubSeq(SubSeq(b, off + 1, Len(b)), 1, n) = SubSeq(b, off + 1, off + n)
          /\ SubSeq(SubSeq(b, off + 1, Len(b)), n + 1, Len(b) - off)
               = SubSeq(b, off + n + 1, Len(b))
      BY <1>4, <1>8, Rests
    <3>2. SubSeq(b, off + 1, off + n) \in Seq(RtmpByte)
      BY <1>4, <1>8, Pieces
    <3>3. QED
      BY <3>1, <3>2, <1>6
  <2>2. rest = SubSeq(b, off + n + 1, Len(b))
    BY <2>1, <1>8, <1>f
  <2>3. rest \in Seq(RtmpByte) /\ Len(rest) = Len(b) - off - n
    BY <2>2, <1>4, <1>8
  <2>4. QED
    BY <2>1, <2>2, <2>3
<1>13. x = ChunkAt(s, c, p)
  <2>1. (IF w.first THEN w.header ELSE MINIMUM) = IF p.off = 0 THEN HeaderOf(s, k) ELSE MINIMUM
    BY <1>6, <1>9
  <2>2. w.size = Len(BodyAt(s, p)) /\ w.type = s[p.done + 1].type /\ w.time = TimeOf(s, p.done + 1)
    BY <1>6, <1>9, <1>10
  <2>3. SubSeq(w.rest, 1, n) = SubSeq(BodyAt(s, p), p.off + 1, p.off + Amount(s, p))
    BY <1>9, <1>10, <1>12
  <2>4. QED
    BY <1>9, <1>d, <2>1, <2>2, <2>3 DEF ChunkOf, ChunkAt
<1>14. x \in Chunk
  <2>2. PICK h \in LARGE .. MINIMUM : h = IF w.first THEN w.header ELSE MINIMUM
    BY <1>6, <1>11 DEF LARGE, MINIMUM
  <2>3. /\ (IF w.time >= EscapeTime THEN EscapeTime ELSE w.time) \in RtmpTime
        /\ (IF w.time >= EscapeTime THEN w.time ELSE 0) \in RtmpTime
    BY <1>6, <1>11, RtmpTimes DEF RtmpTime
  <2>4. w.size \in Nat /\ w.type \in RtmpType
    BY <1>4, <1>6
  <2>5. QED
    BY <1>12, <1>d, <2>2, <2>3, <2>4 DEF ChunkOf, Chunk
<1>15. GoesBy(s, c, x, p, After(s, p))
  BY <1>4, <1>9, <1>13, <1>g DEF GoesBy, Carried
<1>16. n = Len(w.rest) => beingSent'[c] = NoMessage
  BY <1>0, <1>1 DEF ChunksForm
<1>17. n # Len(w.rest) =>
         /\ beingSent'[c] = [w EXCEPT !.first = FALSE, !.rest = rest]
         /\ beingSent'[c] \in PartlySent /\ beingSent'[c] # NoMessage
         /\ beingSent'[c].size = Len(b) /\ beingSent'[c].rest = rest
         /\ ~beingSent'[c].first /\ beingSent'[c].header = HeaderOf(s, k)
         /\ beingSent'[c].time = TimeOf(s, k) /\ beingSent'[c].type = s[k].type
  <2> SUFFICES ASSUME n # Len(w.rest)
               PROVE  /\ beingSent'[c] = [w EXCEPT !.first = FALSE, !.rest = rest]
                      /\ beingSent'[c] \in PartlySent /\ beingSent'[c] # NoMessage
                      /\ beingSent'[c].size = Len(b) /\ beingSent'[c].rest = rest
                      /\ ~beingSent'[c].first /\ beingSent'[c].header = HeaderOf(s, k)
                      /\ beingSent'[c].time = TimeOf(s, k) /\ beingSent'[c].type = s[k].type
    OBVIOUS
  <2>1. PICK v : v = [w EXCEPT !.first = FALSE, !.rest = rest]
    OBVIOUS
  <2>2. beingSent'[c] = v
    BY <2>1, <1>0, <1>1 DEF ChunksForm
  <2>3. v \in PartlySent
    BY <2>1, <1>5, <1>12 DEF PartlySent
  <2>4. /\ ~v.first /\ v.rest = rest /\ v.size = w.size /\ v.header = w.header
        /\ v.time = w.time /\ v.type = w.type
    BY <2>1, <1>5 DEF PartlySent
  <2>5. v # NoMessage
    BY <2>3, RtmpNothing
  <2>6. QED
    BY <2>1, <2>2, <2>3, <2>4, <2>5, <1>6
<1>18. SenderSpot(c)' = After(s, p)
  <2>1. CASE n = Len(w.rest)
    <3>1. SenderSpot(c)' = [done |-> k, off |-> 0, size |-> outChunkSize]
      BY <2>1, <1>1, <1>16, <1>b, <1>g DEF SenderSpot
    <3>2. QED
      BY <2>1, <3>1, <1>8, <1>9, <1>10 DEF After
  <2>2. CASE n # Len(w.rest)
    <3>1. Len(b) - (Len(b) - off - n) = off + n
      BY <1>4, <1>8
    <3>2. SenderSpot(c)' = [done |-> k - 1, off |-> off + n, size |-> outChunkSize]
      BY <2>2, <3>1, <1>1, <1>12, <1>17, <1>b, <1>g DEF SenderSpot
    <3>3. QED
      BY <2>2, <3>2, <1>8, <1>9, <1>10 DEF After
  <2>3. QED
    BY <2>1, <2>2
<1>19. ReaderSpot(c)' = ReaderSpot(c) /\ After(s, p) \in Spot
  <2>1. ReaderSpot(c)' = ReaderSpot(c)
    BY <1>1 DEF ReaderSpot
  <2>2. After(s, p) \in Spot
    BY <1>4, <1>7, <1>8, <1>9, <1>10 DEF After, Spot
  <2>3. QED
    BY <2>1, <2>2
<1>20. Path(s, c, chunkWire', ReaderSpot(c)', SenderSpot(c)')
  BY <1>1, <1>2, <1>14, <1>15, <1>18, <1>19, PathLonger
<1>21. ChannelAt(c)'
  <2>1. SenderAt(s, vecChannelsOut[c], beingSent'[c])
    <3>1. LastKept(s, vecChannelsOut[c])
      BY <1>2 DEF SenderAt
    <3>2. CASE n = Len(w.rest)
      BY <3>1, <3>2, <1>16 DEF SenderAt
    <3>3. CASE n # Len(w.rest)
      <4>1. off + n \in 0 .. Len(b) /\ off + n < Len(b) /\ off + n > 0
        BY <3>3, <1>4, <1>7, <1>8, <1>c
      <4>2. Written(s, beingSent'[c], off + n)
        <5>1. /\ beingSent'[c].size = Len(b) /\ beingSent'[c].rest = rest
              /\ ~beingSent'[c].first /\ beingSent'[c].header = HeaderOf(s, k)
              /\ beingSent'[c].time = TimeOf(s, k) /\ beingSent'[c].type = s[k].type
          BY <3>3, <1>17
        <5>2. ~(off + n = 0) /\ rest = SubSeq(b, off + n + 1, Len(b))
          BY <4>1, <1>12
        <5>3. QED
          BY <4>1, <5>1, <5>2, <1>g, <1>h DEF Written
      <4>3. QED
        BY <3>1, <4>1, <4>2, <1>4, <1>g, <1>h DEF SenderAt
    <3>4. QED
      BY <3>2, <3>3
  <2>2. ReaderAt(s, rtmpGot[c], vecChannelsIn[c], channelTimestamp[c])
        /\ TimesRight(s, rtmpGot[c])
    BY ChannelOf, <1>b
  <2>3. QED
    BY <2>1, <2>2, <1>1, <1>2, <1>20, <1>b DEF ChannelAt
<1>22. ASSUME NEW d \in RtmpChannel, d # c PROVE ChannelAt(d)'
  <2>1. beingSent'[d] = beingSent[d]
    BY <1>0, <1>1, <1>22 DEF ChunksForm
  <2>2. ReaderSpot(d)' = ReaderSpot(d) /\ SenderSpot(d)' = SenderSpot(d)
    BY <2>1, <1>1, SpotsStay
  <2>3. Foreign(d, x, SenderSpot(d), SenderSpot(d))
    BY <1>22, <1>d DEF ChunkOf, Foreign
  <2>4. Path(rtmpSent[d], d, chunkWire, ReaderSpot(d), SenderSpot(d)) /\ ChannelAt(d)
        /\ SenderSpot(d) \in Spot
    BY ChannelOf, SpotsTyped
  <2>5. GoesBy(rtmpSent[d], d, x, SenderSpot(d), SenderSpot(d))
    BY <2>3 DEF GoesBy
  <2>6. Path(rtmpSent[d], d, chunkWire', ReaderSpot(d)', SenderSpot(d)')
    BY <2>2, <2>4, <2>5, <1>1, <1>2, <1>14, PathLonger
  <2>7. QED
    BY <2>1, <2>4, <2>6, <1>1, ChannelStays
<1>23. ChunksForm'
  <2>1. chunkWire' \in Seq(Chunk)
    BY <1>1, <1>2, <1>14
  <2>2. beingSent' \in [RtmpChannel -> PartlySent \cup {NoMessage}]
    <3>1. beingSent'[c] \in PartlySent \cup {NoMessage}
      BY <1>16, <1>17
    <3>2. beingSent' = [beingSent EXCEPT ![c] = beingSent'[c]]
      BY <1>0, <1>1 DEF ChunksForm
    <3>3. QED
      BY <3>1, <3>2, <1>0 DEF ChunksForm
  <2>3. QED
    BY <2>1, <2>2, <1>0, <1>1 DEF ChunksForm
<1>24. QED
  BY <1>21, <1>22, <1>23 DEF ChunksInv

(* A new chunk size reaches the reader behind the chunks made before it.   *)
LEMMA AnnounceChunkSizeKeeps ==
  ASSUME ChunksInv, AnnounceChunkSize
  PROVE  ChunksInv'
<1>0. ChunksForm
  BY DEF ChunksInv
<1>1. PICK n \in RtmpChunkSize :
        outChunkSize' = n /\ chunkWire' = Append(chunkWire, [size |-> n])
  BY DEF AnnounceChunkSize
<1>2. UNCHANGED <<vecChannelsOut, beingSent, vecChannelsIn, channelTimestamp,
                  inChunkSize, rtmpSent, rtmpGot>>
  BY DEF AnnounceChunkSize, readerVars
<1>3. PICK x : x = [size |-> n]
  OBVIOUS
<1>4. x \in Chunk
  BY <1>3 DEF Chunk
<1>5. ChunksForm'
  <2>1. chunkWire' \in Seq(Chunk)
    BY <1>0, <1>1, <1>3, <1>4 DEF ChunksForm
  <2>2. QED
    BY <2>1, <1>0, <1>1, <1>2 DEF ChunksForm
<1>6. ASSUME NEW c \in RtmpChannel PROVE ChannelAt(c)'
  <2>1. ChannelAt(c) /\ chunkWire \in Seq(Chunk) /\ SenderSpot(c) \in Spot
        /\ Path(rtmpSent[c], c, chunkWire, ReaderSpot(c), SenderSpot(c))
    BY ChannelOf, SpotsTyped
  <2>2. PICK q : q = SenderSpot(c)
    OBVIOUS
  <2>3. SenderSpot(c)' = [done |-> q.done, off |-> q.off, size |-> n]
    BY <2>2, <1>1, <1>2 DEF SenderSpot
  <2>4. SenderSpot(c)' \in Spot
    BY <2>1, <2>2, <2>3 DEF Spot
  <2>5. GoesBy(rtmpSent[c], c, x, q, SenderSpot(c)')
    BY <2>3, <1>3 DEF GoesBy, Resized
  <2>6. ReaderSpot(c)' = ReaderSpot(c)
    BY <1>2 DEF ReaderSpot
  <2>7. Path(rtmpSent[c], c, chunkWire', ReaderSpot(c)', SenderSpot(c)')
    <3>1. PICK r : r = SenderSpot(c)'
      OBVIOUS
    <3>2. Path(rtmpSent[c], c, Append(chunkWire, x), ReaderSpot(c), r)
      BY <3>1, <2>1, <2>2, <2>4, <2>5, <1>4, PathLonger
    <3>3. QED
      BY <3>1, <3>2, <2>6, <1>1, <1>3
  <2>8. QED
    BY <2>1, <2>7, <1>2, ChannelStays
<1>7. QED
  BY <1>5, <1>6 DEF ChunksInv

LEMMA HeadTyped ==
  ASSUME ChunksInv, chunkWire # <<>>
  PROVE  Head(chunkWire) \in Chunk /\ Tail(chunkWire) \in Seq(Chunk)
BY DEF ChunksInv, ChunksForm

LEMMA HandleChangeChunkSizeKeeps ==
  ASSUME ChunksInv, HandleChangeChunkSize
  PROVE  ChunksInv'
<1>0. ChunksForm
  BY DEF ChunksInv
<1>a. PICK x : x = Head(chunkWire)
  OBVIOUS
<1>1. /\ chunkWire # <<>> /\ DOMAIN x = {"size"} /\ inChunkSize' = x.size
      /\ chunkWire' = Tail(chunkWire)
      /\ UNCHANGED <<vecChannelsOut, beingSent, outChunkSize, vecChannelsIn, channelTimestamp,
                     rtmpSent, rtmpGot>>
  BY <1>a DEF HandleChangeChunkSize, senderVars
<1>2. x \in Chunk /\ chunkWire' \in Seq(Chunk)
  BY <1>a, <1>1, HeadTyped
<1>3. x \in [size : RtmpChunkSize]
  BY <1>1, <1>2 DEF Chunk
<1>4. inChunkSize' \in RtmpChunkSize
  BY <1>1, <1>3
<1>5. ChunksForm'
  BY <1>0, <1>1, <1>2, <1>4 DEF ChunksForm
<1>6. ASSUME NEW c \in RtmpChannel PROVE ChannelAt(c)'
  <2>1. ChannelAt(c) /\ chunkWire \in Seq(Chunk) /\ SenderSpot(c) \in Spot
        /\ Path(rtmpSent[c], c, chunkWire, ReaderSpot(c), SenderSpot(c))
    BY ChannelOf, SpotsTyped
  <2>2. PICK p : p = ReaderSpot(c)
    OBVIOUS
  <2>3. PICK r \in Spot : GoesBy(rtmpSent[c], c, x, p, r)
                          /\ Path(rtmpSent[c], c, Tail(chunkWire), r, SenderSpot(c))
    BY <2>1, <2>2, <1>1, <1>a, PathTaken
  <2>4. ~Foreign(c, x, p, r)
    BY <1>1 DEF Foreign
  <2>5. ~Carried(rtmpSent[c], c, x, p, r)
    <3>1. DOMAIN ChunkAt(rtmpSent[c], c, p) # {"size"}
      BY DEF ChunkAt
    <3>2. QED
      BY <3>1, <1>1 DEF Carried
  <2>6. Resized(x, p, r)
    BY <2>3, <2>4, <2>5 DEF GoesBy
  <2>7. r = [done |-> p.done, off |-> p.off, size |-> x.size]
    BY <2>6 DEF Resized
  <2>8. ReaderSpot(c)' = r
    BY <2>2, <2>7, <1>1 DEF ReaderSpot
  <2>9. SenderSpot(c)' = SenderSpot(c)
    BY <1>1 DEF SenderSpot
  <2>10. QED
    BY <2>1, <2>3, <2>8, <2>9, <1>1, ChannelStays
<1>7. QED
  BY <1>5, <1>6 DEF ChunksInv

LEMMA Zeros == ~(LARGE > SMALL) /\ ~(LARGE > MEDIUM)
BY DEF LARGE, MEDIUM, SMALL

DecodedAs(h, s, k, off) ==
  \E t \in RtmpTime :
    /\ Decoded(h) = [absolute |-> s[k].whole, time |-> t, size |-> Len(s[k].body),
                     type |-> s[k].type, body |-> SubSeq(s[k].body, 1, off)]
    /\ ~s[k].repeats => t = TimeOf(s, k)

(* The reader makes of a header what the sender had in mind: the fields    *)
(* left out are those of the message before, which it goes by, too.        *)
LEMMA Decodes ==
  ASSUME NEW s, Sequel(s), NEW c, NEW g \in Seq(GotMessage), NEW v, NEW p, NEW h, NEW stamp,
         vecChannelsIn[c] = v, ReaderAt(s, g, v, stamp),
         p.done = Len(g), p.off = IF v = NoMessage THEN 0 ELSE Len(v.body),
         p.done < Len(s), h = ChunkAt(s, c, p), NEW k, k = p.done + 1
  PROVE  DecodedAs(h, s, k, p.off)
<1> USE DEF DecodedAs
<1>a. k = p.done + 1
  OBVIOUS
<1>1. k \in 1 .. Len(s) /\ k = Len(g) + 1 /\ s \in Seq(SentMessage) /\ Len(g) \in Nat
  BY <1>a DEF Sequel
<1>2. /\ s[k].type \in RtmpType /\ s[k].body \in Seq(RtmpByte) /\ Len(s[k].body) \in Nat
      /\ HeaderOf(s, k) \in LARGE .. MINIMUM /\ TimeOf(s, k) \in RtmpTime
      /\ (s[k].whole \/ k > 1) /\ (s[k].repeats <=> HeaderOf(s, k) = MINIMUM)
  BY <1>1, SentTyped, HeadersTyped DEF Sequel
<1>3. /\ h.channel = c /\ h.header = (IF p.off = 0 THEN HeaderOf(s, k) ELSE MINIMUM)
      /\ h.size = Len(s[k].body) /\ h.type = s[k].type
      /\ (IF h.time = EscapeTime THEN h.extended ELSE h.time) = TimeOf(s, k)
  <2>1. /\ h.channel = c /\ h.header = (IF p.off = 0 THEN HeaderOf(s, k) ELSE MINIMUM)
        /\ h.size = Len(s[k].body) /\ h.type = s[k].type
        /\ h.time = (IF TimeOf(s, k) >= EscapeTime THEN EscapeTime ELSE TimeOf(s, k))
        /\ h.extended = IF TimeOf(s, k) >= EscapeTime THEN TimeOf(s, k) ELSE 0
    BY <1>a DEF ChunkAt, BodyAt
  <2>2. TimeOf(s, k) \in Int /\ EscapeTime \in Int
    BY <1>2, RtmpTimes DEF RtmpTime
  <2>3. QED
    BY <2>1, <2>2
<1>4. \/ v = NoMessage /\ Len(g) = 0
      \/ v \in PartlyRead /\ v # NoMessage /\ (Between(s, Len(g), v) \/ Within(s, k, v))
  <2>1. \/ v = NoMessage /\ Len(g) = 0
        \/ v \in PartlyRead /\ (Between(s, Len(g), v) \/ Within(s, k, v))
    BY <1>1 DEF ReaderAt
  <2>2. v \in PartlyRead => v # NoMessage
    BY RtmpNothing
  <2>3. QED
    BY <2>1, <2>2
<1>b. PICK d : d = Decoded(h)
  OBVIOUS
<1>5. CASE v # NoMessage /\ Within(s, k, v)
  <2>1. p.off = Len(v.body) /\ Len(v.body) > 0 /\ v \in PartlyRead
    BY <1>4, <1>5 DEF Within
  <2>2. h.header = MINIMUM
    BY <2>1, <1>3
  <2>3. d = v
    BY <2>2, <1>3, <1>5, <1>b DEF Decoded, LARGE, MEDIUM, SMALL, MINIMUM
  <2>4. /\ v.body = SubSeq(s[k].body, 1, p.off) /\ v.type = s[k].type
        /\ v.size = Len(s[k].body) /\ (v.absolute <=> s[k].whole)
        /\ ~s[k].repeats => v.time = TimeOf(s, k)
    BY <1>5, <2>1 DEF Within
  <2>5. s[k].whole \in BOOLEAN /\ v.absolute \in BOOLEAN /\ v.time \in RtmpTime
    BY <1>1, <2>1, SentTyped DEF SentMessage, PartlyRead
  <2>6. v = [absolute |-> s[k].whole, time |-> v.time, size |-> Len(s[k].body),
             type |-> s[k].type, body |-> SubSeq(s[k].body, 1, p.off)]
    <3>1. v = [absolute |-> v.absolute, time |-> v.time, size |-> v.size,
               type |-> v.type, body |-> v.body]
      BY <2>1 DEF PartlyRead
    <3>2. v.absolute = s[k].whole
      BY <2>4, <2>5
    <3>3. QED
      BY <3>1, <3>2, <2>4
  <2>7. QED
    BY <2>3, <2>4, <2>5, <2>6, <1>a, <1>b
<1>6. CASE v = NoMessage \/ Between(s, Len(g), v)
  <2>1. p.off = 0 /\ h.header = HeaderOf(s, k) /\ SubSeq(s[k].body, 1, p.off) = <<>>
    <3>1. p.off = 0
      BY <1>6 DEF Between
    <3>2. SubSeq(s[k].body, 1, 0) = <<>>
      BY <1>2
    <3>3. QED
      BY <3>1, <3>2, <1>3
  <2>2. CASE s[k].whole
    <3>1. h.header = LARGE /\ ~s[k].repeats /\ s[k].whole = TRUE
      <4>1. HeaderOf(s, k) = LARGE
        BY <2>2 DEF HeaderOf
      <4>2. s[k].whole \in BOOLEAN
        BY <1>1, SentTyped DEF SentMessage
      <4>3. QED
        BY <4>1, <4>2, <2>1, <2>2, <1>2 DEF LARGE, MINIMUM
    <3>2. d = [absolute |-> TRUE, time |-> TimeOf(s, k), size |-> h.size, type |-> h.type,
               body |-> <<>>]
      <4>1. PICK base : base = [absolute |-> h.header = LARGE, time |-> 0, size |-> 0,
                                type |-> h.type, body |-> <<>>]
        OBVIOUS
      <4>2. base = [absolute |-> TRUE, time |-> 0, size |-> 0, type |-> h.type, body |-> <<>>]
        BY <3>1, <4>1
      <4>3. PICK timed : timed = [base EXCEPT !.time = TimeOf(s, k)]
        OBVIOUS
      <4>4. timed = [absolute |-> TRUE, time |-> TimeOf(s, k), size |-> 0, type |-> h.type,
                     body |-> <<>>]
        BY <4>2, <4>3
      <4>5. d = [timed EXCEPT !.size = h.size, !.body = <<>>, !.type = h.type]
        BY <3>1, <4>1, <4>3, <1>3, <1>b, Zeros DEF Decoded
      <4>6. QED
        BY <4>4, <4>5
    <3>3. QED
      BY <3>1, <3>2, <2>1, <1>2, <1>3, <1>a, <1>b
  <2>3. CASE ~s[k].whole
    <3>1. k > 1 /\ Len(g) > 0 /\ v # NoMessage /\ v \in PartlyRead /\ Between(s, k - 1, v)
          /\ Len(g) = k - 1
      BY <2>3, <1>1, <1>2, <1>4, <1>6
    <3>2. /\ v.body = <<>> /\ ~v.absolute /\ v.type = s[k - 1].type
          /\ v.size = Len(s[k - 1].body)
      BY <3>1 DEF Between
    <3>3. /\ HeaderOf(s, k) = Compressed(MEDIUM, s[k], s[k - 1])
          /\ HeaderOf(s, k) \in {MEDIUM, SMALL, MINIMUM}
          /\ HeaderOf(s, k) # MEDIUM => Len(s[k - 1].body) = Len(s[k].body)
                                        /\ s[k - 1].type = s[k].type
      BY <2>3 DEF HeaderOf, Compressed, LARGE, MEDIUM, SMALL, MINIMUM
    <3>4. /\ v.absolute \in BOOLEAN /\ v.time \in RtmpTime /\ s[k].whole \in BOOLEAN
          /\ v = [absolute |-> v.absolute, time |-> v.time, size |-> v.size,
                  type |-> v.type, body |-> v.body]
      BY <3>1, <1>1, SentTyped DEF PartlyRead, SentMessage
    <3>5. v.absolute = s[k].whole
      BY <3>2, <3>4, <2>3
    <3>6. CASE HeaderOf(s, k) = MINIMUM
      <4>1. d = v
        BY <3>1, <3>6, <2>1, <1>3, <1>b DEF Decoded, LARGE, MEDIUM, SMALL, MINIMUM
      <4>2. v.size = Len(s[k].body) /\ v.type = s[k].type /\ s[k].repeats
        BY <3>2, <3>3, <3>6, <1>2 DEF MEDIUM, MINIMUM
      <4>3. QED
        BY <4>1, <4>2, <3>2, <3>4, <3>5, <2>1, <1>a, <1>b
    <3>7. CASE HeaderOf(s, k) = SMALL
      <4>1. d = [v EXCEPT !.time = TimeOf(s, k)]
        BY <3>1, <3>7, <2>1, <1>3, <1>b DEF Decoded, LARGE, MEDIUM, SMALL, MINIMUM
      <4>2. v.size = Len(s[k].body) /\ v.type = s[k].type
        BY <3>2, <3>3, <3>7 DEF MEDIUM, SMALL
      <4>3. d = [absolute |-> v.absolute, time |-> TimeOf(s, k), size |-> v.size,
                 type |-> v.type, body |-> v.body]
        BY <4>1, <3>4
      <4>4. QED
        BY <4>2, <4>3, <3>2, <3>5, <2>1, <1>2, <1>a, <1>b
    <3>8. CASE HeaderOf(s, k) = MEDIUM
      <4>1. d = [[v EXCEPT !.time = TimeOf(s, k)]
                   EXCEPT !.size = h.size, !.body = <<>>, !.type = h.type]
        <5>1. ~(h.header = LARGE \/ vecChannelsIn[h.channel] = NoMessage)
              /\ ~(h.header > SMALL) /\ ~(h.header > MEDIUM)
          BY <3>1, <3>8, <2>1, <1>3 DEF LARGE, MEDIUM, SMALL
        <5>2. vecChannelsIn[h.channel] = v
          BY <1>3
        <5>3. QED
          BY <5>1, <5>2, <1>3, <1>b, Zenon DEF Decoded
      <4>2. d = [absolute |-> v.absolute, time |-> TimeOf(s, k), size |-> h.size,
                 type |-> h.type, body |-> <<>>]
        BY <4>1, <3>4
      <4>3. QED
        BY <4>2, <3>5, <2>1, <1>2, <1>3, <1>a, <1>b
    <3>9. QED
      BY <3>3, <3>6, <3>7, <3>8
  <2>4. QED
    BY <2>2, <2>3
<1>7. QED
  BY <1>4, <1>5, <1>6

(* A time that was made a difference comes back.                           *)
LEMMA TimesAdd ==
  ASSUME NEW a \in RtmpTime, NEW b \in RtmpTime
  PROVE  (((a - b) % TimeModulus) + b) % TimeModulus = a
<1>1. TimeModulus \in Nat \ {0} /\ a \in 0 .. TimeModulus - 1 /\ b \in 0 .. TimeModulus - 1
  BY RtmpTimes DEF RtmpTime
<1>2. CASE a >= b
  <2>1. (a - b) % TimeModulus = a - b /\ a % TimeModulus = a
    BY <1>1, <1>2
  <2>2. (a - b) + b = a
    BY <1>1
  <2>3. QED
    BY <2>1, <2>2
<1>3. CASE a < b
  <2>1. a - b + TimeModulus \in 0 .. TimeModulus - 1
    BY <1>1, <1>3
  <2>2. PICK e \in 0 .. TimeModulus - 1 : e = a - b + TimeModulus
    BY <2>1
  <2>3. a - b = e - TimeModulus
    BY <1>1, <2>2
  <2>4. (e - TimeModulus) % TimeModulus = e
    BY <1>1
  <2>5. e + b = a + TimeModulus
    BY <1>1, <2>2
  <2>6. (a + TimeModulus) % TimeModulus = a
    BY <1>1
  <2>7. QED
    BY <2>3, <2>4, <2>5, <2>6
<1>4. QED
  BY <1>1, <1>2, <1>3

(* A packet that is put together: the chunk at the head of the wire is the *)
(* next one of its channel.                                                *)
LEMMA NextChunk ==
  ASSUME ChunksInv, chunkWire # <<>>, DOMAIN Head(chunkWire) # {"size"}
  PROVE  /\ Head(chunkWire).channel \in RtmpChannel
         /\ \A d \in RtmpChannel :
              LET p == ReaderSpot(d)
                  r == IF d = Head(chunkWire).channel THEN After(rtmpSent[d], p) ELSE p
              IN  /\ d = Head(chunkWire).channel =>
                       p.done < Len(rtmpSent[d]) /\ Head(chunkWire) = ChunkAt(rtmpSent[d], d, p)
                  /\ r \in Spot
                  /\ Path(rtmpSent[d], d, Tail(chunkWire), r, SenderSpot(d))
<1>1. PICK h \in Chunk : h = Head(chunkWire)
  BY HeadTyped
<1>2. h.channel \in RtmpChannel
  <2>1. h \notin [size : RtmpChunkSize]
    BY <1>1
  <2>2. QED
    BY <2>1 DEF Chunk
<1>3. ASSUME NEW d \in RtmpChannel, NEW p, p = ReaderSpot(d)
      PROVE  \E r \in Spot :
               /\ IF d = h.channel
                    THEN /\ r = After(rtmpSent[d], p) /\ p.done < Len(rtmpSent[d])
                         /\ h = ChunkAt(rtmpSent[d], d, p)
                    ELSE r = p
               /\ Path(rtmpSent[d], d, Tail(chunkWire), r, SenderSpot(d))
  <2>1. chunkWire \in Seq(Chunk) /\ Path(rtmpSent[d], d, chunkWire, p, SenderSpot(d))
    BY <1>3, ChannelOf
  <2>2. PICK r \in Spot : GoesBy(rtmpSent[d], d, h, p, r)
                          /\ Path(rtmpSent[d], d, Tail(chunkWire), r, SenderSpot(d))
    BY <2>1, <1>1, PathTaken
  <2>3. ~Resized(h, p, r)
    BY <1>1 DEF Resized
  <2>4. Foreign(d, h, p, r) => d # h.channel /\ r = p
    BY DEF Foreign
  <2>5. Carried(rtmpSent[d], d, h, p, r) =>
          /\ d = h.channel /\ r = After(rtmpSent[d], p) /\ p.done < Len(rtmpSent[d])
          /\ h = ChunkAt(rtmpSent[d], d, p)
    BY DEF Carried, ChunkAt
  <2>6. QED
    BY <2>2, <2>3, <2>4, <2>5 DEF GoesBy
<1>4. QED
  BY <1>1, <1>2, <1>3

(* How a packet is read: a whole one leaves its header behind, and is the  *)
(* next message; of another there is more to come.                         *)
ReadOf(s, g, k, v, stamp, vNew, stampNew, gNew, n) ==
  \E t \in RtmpTime :
    LET off == IF v = NoMessage THEN 0 ELSE Len(v.body)
        b == s[k].body
        absolute == IF s[k].whole THEN t ELSE (t + stamp) % TimeModulus
    IN  /\ ~s[k].repeats => t = TimeOf(s, k)
        /\ IF off + n = Len(b)
             THEN /\ vNew = [absolute |-> FALSE, time |-> t, size |-> Len(b),
                             type |-> s[k].type, body |-> <<>>]
                  /\ stampNew = absolute
                  /\ gNew = Append(g, [type |-> s[k].type, body |-> b, time |-> absolute])
             ELSE /\ vNew = [absolute |-> s[k].whole, time |-> t, size |-> Len(b),
                             type |-> s[k].type, body |-> SubSeq(b, 1, off + n)]
                  /\ stampNew = stamp /\ gNew = g

LEMMA ReaderSteps ==
  ASSUME NEW s, Sequel(s), NEW g \in Seq(GotMessage), NEW v, NEW stamp \in RtmpTime,
         ReaderAt(s, g, v, stamp), TimesRight(s, g), NEW k, k = Len(g) + 1, k <= Len(s),
         NEW n \in Nat, NEW off, off = IF v = NoMessage THEN 0 ELSE Len(v.body),
         off \in Nat, off + n <= Len(s[k].body),
         off + n < Len(s[k].body) => n > 0,
         NEW vNew, NEW stampNew, NEW gNew,
         ReadOf(s, g, k, v, stamp, vNew, stampNew, gNew, n)
  PROVE  /\ vNew \in PartlyRead /\ stampNew \in RtmpTime /\ gNew \in Seq(GotMessage)
         /\ ReaderAt(s, gNew, vNew, stampNew) /\ TimesRight(s, gNew)
<1>1. k \in 1 .. Len(s) /\ s \in Seq(SentMessage) /\ Len(g) \in Nat /\ Len(g) = k - 1
      /\ Len(s) \in Nat
  BY DEF Sequel
<1>2. /\ s[k].type \in RtmpType /\ s[k].body \in Seq(RtmpByte) /\ Len(s[k].body) \in Nat
      /\ s[k].time \in RtmpTime /\ s[k].whole \in BOOLEAN
      /\ (s[k].whole \/ k > 1) /\ (s[k].whole => ~s[k].repeats)
  <2>1. /\ s[k].type \in RtmpType /\ s[k].body \in Seq(RtmpByte) /\ Len(s[k].body) \in Nat
        /\ s[k].time \in RtmpTime /\ s[k].whole \in BOOLEAN
    BY <1>1, SentTyped DEF SentMessage
  <2>2. (s[k].whole \/ k > 1) /\ (s[k].repeats <=> HeaderOf(s, k) = MINIMUM)
    BY <1>1 DEF Sequel
  <2>3. s[k].whole => HeaderOf(s, k) # MINIMUM
    BY DEF HeaderOf, LARGE, MINIMUM
  <2>4. QED
    BY <2>1, <2>2, <2>3
<1>b. PICK b \in Seq(RtmpByte) : b = s[k].body
  BY <1>2
<1>3. PICK t \in RtmpTime :
        /\ ~s[k].repeats => t = TimeOf(s, k)
        /\ IF off + n = Len(b)
             THEN /\ vNew = [absolute |-> FALSE, time |-> t, size |-> Len(b),
                             type |-> s[k].type, body |-> <<>>]
                  /\ stampNew = (IF s[k].whole THEN t ELSE (t + stamp) % TimeModulus)
                  /\ gNew = Append(g, [type |-> s[k].type, body |-> b,
                       time |-> IF s[k].whole THEN t ELSE (t + stamp) % TimeModulus])
             ELSE /\ vNew = [absolute |-> s[k].whole, time |-> t, size |-> Len(b),
                             type |-> s[k].type, body |-> SubSeq(b, 1, off + n)]
                  /\ stampNew = stamp /\ gNew = g
  BY <1>b DEF ReadOf
<1>4. PICK u \in RtmpTime : u = IF s[k].whole THEN t ELSE (t + stamp) % TimeModulus
  <2>1. t + stamp \in Int
    BY DEF RtmpTime
  <2>2. QED
    BY <2>1, Turned
<1>5. CASE off + n = Len(b)
  <2>1. PICK m \in GotMessage : m = [type |-> s[k].type, body |-> b, time |-> u]
    BY <1>2 DEF GotMessage
  <2>2. m.type = s[k].type /\ m.body = s[k].body /\ m.time = u
    BY <2>1, <1>b
  <2>3. gNew = Append(g, m) /\ stampNew = u
    BY <1>3, <1>4, <1>5, <2>1
  <2>4. /\ gNew \in Seq(GotMessage) /\ Len(gNew) = k /\ gNew[k] = m
        /\ \A i \in 1 .. k - 1 : gNew[i] = g[i]
    BY <2>3, <1>1
  <2>5. vNew = [absolute |-> FALSE, time |-> t, size |-> Len(b), type |-> s[k].type, body |-> <<>>]
    BY <1>3, <1>5
  <2>6. vNew \in PartlyRead
    <3>1. <<>> \in Seq(RtmpByte) /\ FALSE \in BOOLEAN /\ Len(b) \in Nat
      OBVIOUS
    <3>2. QED
      BY <3>1, <2>5, <1>2 DEF PartlyRead
  <2>7. Between(s, k, vNew)
    BY <2>5, <1>1, <1>b DEF Between
  <2>8. \A i \in 1 .. k : gNew[i].type = s[i].type /\ gNew[i].body = s[i].body
    <3>1. \A i \in 1 .. k - 1 : g[i].type = s[i].type /\ g[i].body = s[i].body
      BY <1>1 DEF ReaderAt
    <3> TAKE i \in 1 .. k
    <3>2. CASE i = k
      BY <3>2, <2>2, <2>4
    <3>3. CASE i # k
      <4>1. i \in 1 .. k - 1
        BY <3>3, <1>1
      <4>2. QED
        BY <4>1, <3>1, <2>4
    <3>4. QED
      BY <3>2, <3>3
  <2>9. ReaderAt(s, gNew, vNew, stampNew)
    BY <2>2, <2>3, <2>4, <2>6, <2>7, <2>8, <1>1 DEF ReaderAt
  <2>10. TimesRight(s, gNew)
    <3> SUFFICES ASSUME NEW i \in 1 .. k, NEW j \in 1 .. i, s[j].whole,
                        \A l \in (j + 1) .. i : ~s[l].repeats
                 PROVE  gNew[i].time = s[i].time
      BY <2>4 DEF TimesRight
    <3>1. CASE i # k
      <4>1. i \in 1 .. Len(g) /\ gNew[i] = g[i]
        BY <3>1, <1>1, <2>4
      <4>2. QED
        BY <4>1 DEF TimesRight
    <3>2. CASE i = k /\ s[k].whole
      <4>1. TimeOf(s, k) = s[k].time /\ t = TimeOf(s, k)
        BY <3>2, <1>2, <1>3 DEF TimeOf
      <4>2. QED
        BY <4>1, <3>2, <1>4, <2>2, <2>4
    <3>3. CASE i = k /\ ~s[k].whole
      <4>1. j \in 1 .. k - 1 /\ k \in (j + 1) .. k /\ k > 1 /\ k - 1 \in 1 .. Len(s)
        BY <3>3, <1>1, <1>2
      <4>2. ~s[k].repeats /\ \A l \in (j + 1) .. k - 1 : ~s[l].repeats
        BY <4>1, <3>3
      <4>3. g[k - 1].time = s[k - 1].time
        BY <4>1, <4>2, <1>1 DEF TimesRight
      <4>4. stamp = s[k - 1].time /\ s[k - 1].time \in RtmpTime
        BY <4>1, <4>3, <1>1, SentTyped DEF ReaderAt
      <4>5. t = (s[k].time - s[k - 1].time) % TimeModulus
        BY <4>2, <3>3, <1>3 DEF TimeOf
      <4>6. u = s[k].time
        BY <4>4, <4>5, <3>3, <1>2, <1>4, TimesAdd
      <4>7. QED
        BY <4>6, <3>3, <2>2, <2>4
    <3>4. QED
      BY <3>1, <3>2, <3>3
  <2>11. QED
    BY <2>3, <2>4, <2>6, <2>9, <2>10
<1>6. CASE off + n # Len(b)
  <2>1. stampNew = stamp /\ gNew = g
        /\ vNew = [absolute |-> s[k].whole, time |-> t, size |-> Len(b),
                   type |-> s[k].type, body |-> SubSeq(b, 1, off + n)]
    BY <1>3, <1>6
  <2>2. /\ off + n \in 1 .. Len(b) - 1 /\ SubSeq(b, 1, off + n) \in Seq(RtmpByte)
        /\ Len(SubSeq(b, 1, off + n)) = off + n
    <3>1. off + n <= Len(b) /\ Len(b) \in Nat /\ off + n \in Nat
      BY <1>b
    <3>a. off + n < Len(b)
      BY <3>1, <1>6
    <3>b. n > 0
      BY <3>a, <1>b
    <3>2. off + n < Len(b) /\ n > 0
      BY <3>a, <3>b
    <3>3. off + n \in 1 .. Len(b) - 1
      BY <3>1, <3>2
    <3>4. PICK e \in 1 .. Len(b) - 1 : e = off + n
      BY <3>3
    <3>5. SubSeq(b, 1, e) \in Seq(RtmpByte) /\ Len(SubSeq(b, 1, e)) = e
      OBVIOUS
    <3>6. QED
      BY <3>4, <3>5
  <2>3. PICK x \in Seq(RtmpByte) : x = SubSeq(b, 1, off + n) /\ Len(x) = off + n
    BY <2>2
  <2>4. vNew \in PartlyRead
    BY <2>1, <2>3, <1>2, <1>b DEF PartlyRead
  <2>5. Within(s, k, vNew)
    <3>1. /\ vNew.body = x /\ vNew.type = s[k].type /\ vNew.size = Len(s[k].body)
          /\ vNew.absolute = s[k].whole /\ vNew.time = t
      BY <2>1, <2>3, <1>b
    <3>2. QED
      BY <3>1, <2>2, <2>3, <1>1, <1>3, <1>b DEF Within
  <2>6. ReaderAt(s, gNew, vNew, stampNew)
    BY <2>1, <2>4, <2>5 DEF ReaderAt
  <2>7. QED
    BY <2>1, <2>4, <2>6
<1>7. QED
  BY <1>5, <1>6

LEMMA ReadPacketKeeps ==
  ASSUME ChunksInv, ReadPacket
  PROVE  /\ ChunksInv'
         /\ \E c \in RtmpChannel :
              /\ \A d \in RtmpChannel \ {c} : rtmpGot'[d] = rtmpGot[d]
              /\ \/ rtmpGot'[c] = rtmpGot[c]
                 \/ \E m \in GotMessage : rtmpGot'[c] = Append(rtmpGot[c], m)
<1>0. ChunksForm
  BY DEF ChunksInv
<1>1. PICK h : h = Head(chunkWire)
  OBVIOUS
<1>2. PICK c : c = h.channel
  OBVIOUS
<1>3. chunkWire # <<>> /\ DOMAIN h # {"size"} /\ chunkWire' = Tail(chunkWire)
      /\ UNCHANGED <<vecChannelsOut, beingSent, outChunkSize, inChunkSize, rtmpSent>>
  BY <1>1 DEF ReadPacket, senderVars
<1>a. PICK d : d = Decoded(h)
  OBVIOUS
<1>b. PICK n : n = IF d.size - Len(d.body) < inChunkSize THEN d.size - Len(d.body)
                   ELSE inChunkSize
  OBVIOUS
<1>c. PICK q : q = [d EXCEPT !.body = @ \o SubSeq(h.data, 1, n)]
  OBVIOUS
<1>4. IF Whole(q)
        THEN /\ vecChannelsIn' = [vecChannelsIn EXCEPT
                  ![c] = [q EXCEPT !.body = <<>>, !.absolute = FALSE]]
             /\ channelTimestamp' = [channelTimestamp EXCEPT ![c] = AbsoluteTime(q, c)]
             /\ rtmpGot' = [rtmpGot EXCEPT ![c] = Append(@,
                  [type |-> q.type, body |-> q.body, time |-> AbsoluteTime(q, c)])]
        ELSE /\ vecChannelsIn' = [vecChannelsIn EXCEPT ![c] = q]
             /\ UNCHANGED <<channelTimestamp, rtmpGot>>
  BY <1>1, <1>2, <1>a, <1>b, <1>c DEF ReadPacket
<1>d. PICK s : s = rtmpSent[c]
  OBVIOUS
<1>e. PICK g : g = rtmpGot[c]
  OBVIOUS
<1>f. PICK v : v = vecChannelsIn[c]
  OBVIOUS
<1>g. PICK p : p = ReaderSpot(c)
  OBVIOUS
<1>h. PICK stamp : stamp = channelTimestamp[c]
  OBVIOUS
<1>i. PICK k : k = p.done + 1
  OBVIOUS
<1>5. /\ c \in RtmpChannel /\ p.done < Len(s) /\ h = ChunkAt(s, c, p)
      /\ After(s, p) \in Spot
      /\ Path(s, c, chunkWire', After(s, p), SenderSpot(c))
      /\ \A e \in RtmpChannel : e # c =>
            Path(rtmpSent[e], e, chunkWire', ReaderSpot(e), SenderSpot(e))
  BY <1>1, <1>2, <1>3, <1>d, <1>g, NextChunk
<1>6. /\ Sequel(s) /\ s \in Seq(SentMessage) /\ g \in Seq(GotMessage)
      /\ ReaderAt(s, g, v, stamp) /\ TimesRight(s, g)
      /\ SenderAt(s, vecChannelsOut[c], beingSent[c])
  BY <1>5, <1>d, <1>e, <1>f, <1>h, ChannelOf
<1>7. stamp \in RtmpTime /\ inChunkSize \in RtmpChunkSize
      /\ v \in PartlyRead \cup {NoMessage}
  BY <1>0, <1>5, <1>f, <1>h DEF ChunksForm
<1>8. inChunkSize \in Nat /\ inChunkSize > 0
  BY <1>7, RtmpSizes
<1>j. PICK off : off = IF v = NoMessage THEN 0 ELSE Len(v.body)
  OBVIOUS
<1>9. /\ p = [done |-> Len(g), off |-> off, size |-> inChunkSize]
      /\ p.done = Len(g) /\ p.off = off /\ p.size = inChunkSize
  BY <1>e, <1>f, <1>g, <1>j DEF ReaderSpot
<1>10. k = Len(g) + 1 /\ k \in 1 .. Len(s) /\ k <= Len(s) /\ Len(g) \in Nat
  BY <1>5, <1>6, <1>9, <1>i
<1>k. PICK b : b = s[k].body
  OBVIOUS
<1>11. b \in Seq(RtmpByte) /\ Len(b) \in Nat /\ s[k].type \in RtmpType
       /\ s[k].whole \in BOOLEAN
  BY <1>6, <1>10, <1>k, SentTyped DEF SentMessage
<1>12. off \in Nat /\ off <= Len(b)
  <2>1. CASE v = NoMessage
    BY <2>1, <1>11, <1>j
  <2>2. CASE v # NoMessage
    <3>1. Between(s, Len(g), v) \/ Within(s, k, v)
      BY <2>2, <1>6, <1>10 DEF ReaderAt
    <3>2. QED
      BY <2>2, <3>1, <1>11, <1>j, <1>k DEF Between, Within
  <2>3. QED
    BY <2>1, <2>2
<1>13. PICK t \in RtmpTime :
         /\ d = [absolute |-> s[k].whole, time |-> t, size |-> Len(b),
                 type |-> s[k].type, body |-> SubSeq(b, 1, off)]
         /\ ~s[k].repeats => t = TimeOf(s, k)
  <2>1. /\ Sequel(s) /\ g \in Seq(GotMessage) /\ vecChannelsIn[c] = v
        /\ ReaderAt(s, g, v, stamp) /\ p.done = Len(g)
        /\ p.off = (IF v = NoMessage THEN 0 ELSE Len(v.body))
        /\ p.done < Len(s) /\ h = ChunkAt(s, c, p)
    BY <1>5, <1>6, <1>9, <1>f, <1>j
  <2>2. DecodedAs(h, s, k, p.off)
    BY <2>1, <1>i, Decodes
  <2>3. QED
    BY <2>2, <1>9, <1>a, <1>k DEF DecodedAs
<1>14. SubSeq(b, 1, off) \in Seq(RtmpByte) /\ Len(SubSeq(b, 1, off)) = off
  BY <1>11, <1>12
<1>15. n = (IF Len(b) - off < inChunkSize THEN Len(b) - off ELSE inChunkSize)
       /\ n \in Nat /\ off + n <= Len(b) /\ (off + n < Len(b) => n > 0)
  <2>1. d.size = Len(b) /\ Len(d.body) = off
    BY <1>13, <1>14
  <2>2. QED
    BY <2>1, <1>8, <1>11, <1>12, <1>b
<1>16. BodyAt(s, p) = b /\ Amount(s, p) = n
  BY <1>9, <1>15, <1>i, <1>k DEF BodyAt, Amount
<1>17. h.data = SubSeq(b, off + 1, off + n)
  BY <1>5, <1>9, <1>16 DEF ChunkAt
<1>18. q = [absolute |-> s[k].whole, time |-> t, size |-> Len(b), type |-> s[k].type,
            body |-> SubSeq(b, 1, off + n)]
  <2>1. /\ SubSeq(SubSeq(b, off + 1, off + n), 1, n) = SubSeq(b, off + 1, off + n)
        /\ SubSeq(b, 1, off) \o SubSeq(b, off + 1, off + n) = SubSeq(b, 1, off + n)
    <3>1. b \in Seq(RtmpByte) /\ off \in Nat /\ n \in Nat /\ off + n <= Len(b)
      BY <1>11, <1>12, <1>15
    <3>2. QED
      BY <3>1, Pieces
  <2>2. d.body \o SubSeq(h.data, 1, n) = SubSeq(b, 1, off + n)
    BY <2>1, <1>13, <1>17
  <2>3. QED
    BY <2>2, <1>13, <1>c
<1>19. Len(SubSeq(b, 1, off + n)) = off + n
  <2>1. PICK e \in 0 .. Len(b) : e = off + n
    BY <1>12, <1>15
  <2>2. Len(SubSeq(b, 1, e)) = e
    BY <1>11
  <2>3. QED
    BY <2>1, <2>2
<1>20. /\ Whole(q) <=> off + n = Len(b)
       /\ AbsoluteTime(q, c) = IF s[k].whole THEN t ELSE (t + stamp) % TimeModulus
       /\ q.type = s[k].type /\ q.body = SubSeq(b, 1, off + n)
       /\ [q EXCEPT !.body = <<>>, !.absolute = FALSE]
            = [absolute |-> FALSE, time |-> t, size |-> Len(b), type |-> s[k].type,
               body |-> <<>>]
  <2>1. q.absolute = s[k].whole /\ q.time = t /\ q.size = Len(b) /\ q.type = s[k].type
        /\ q.body = SubSeq(b, 1, off + n)
    BY <1>18
  <2>2. [q EXCEPT !.body = <<>>, !.absolute = FALSE]
            = [absolute |-> FALSE, time |-> t, size |-> Len(b), type |-> s[k].type,
               body |-> <<>>]
    <3>1. PICK e : e = [q EXCEPT !.body = <<>>]
      OBVIOUS
    <3>2. e = [absolute |-> s[k].whole, time |-> t, size |-> Len(b), type |-> s[k].type,
               body |-> <<>>]
      BY <3>1, <1>18
    <3>3. PICK z : z = FALSE
      OBVIOUS
    <3>4. [e EXCEPT !.absolute = z]
            = [absolute |-> z, time |-> t, size |-> Len(b), type |-> s[k].type,
               body |-> <<>>]
      BY <3>2
    <3>5. [q EXCEPT !.body = <<>>, !.absolute = z] = [e EXCEPT !.absolute = z]
      BY <3>1
    <3>6. QED
      BY <3>3, <3>4, <3>5
  <2>3. QED
    BY <2>1, <2>2, <1>19, <1>h DEF Whole, AbsoluteTime
<1>l. /\ vecChannelsIn \in [RtmpChannel -> PartlyRead \cup {NoMessage}]
      /\ channelTimestamp \in [RtmpChannel -> RtmpTime]
      /\ rtmpGot \in [RtmpChannel -> Seq(GotMessage)]
  BY <1>0 DEF ChunksForm
<1>21. ReadOf(s, g, k, v, stamp, vecChannelsIn'[c], channelTimestamp'[c], rtmpGot'[c], n)
  <2>1. CASE off + n = Len(b)
    <3>1. SubSeq(b, 1, off + n) = b
      BY <2>1, <1>11
    <3>2. /\ vecChannelsIn'[c] = [absolute |-> FALSE, time |-> t, size |-> Len(b),
                                  type |-> s[k].type, body |-> <<>>]
          /\ channelTimestamp'[c] = AbsoluteTime(q, c)
          /\ rtmpGot'[c] = Append(g, [type |-> s[k].type, body |-> b,
                                      time |-> AbsoluteTime(q, c)])
      <4>1. /\ vecChannelsIn' = [vecChannelsIn EXCEPT
                  ![c] = [q EXCEPT !.body = <<>>, !.absolute = FALSE]]
            /\ channelTimestamp' = [channelTimestamp EXCEPT ![c] = AbsoluteTime(q, c)]
            /\ rtmpGot' = [rtmpGot EXCEPT ![c] = Append(@,
                  [type |-> q.type, body |-> q.body, time |-> AbsoluteTime(q, c)])]
        BY <2>1, <1>4, <1>20
      <4>2. vecChannelsIn'[c] = [q EXCEPT !.body = <<>>, !.absolute = FALSE]
            /\ channelTimestamp'[c] = AbsoluteTime(q, c)
        BY <4>1, <1>5, <1>l
      <4>3. rtmpGot'[c] = Append(g, [type |-> q.type, body |-> q.body,
                                     time |-> AbsoluteTime(q, c)])
        BY <4>1, <1>5, <1>l, <1>e
      <4>4. QED
        BY <4>2, <4>3, <3>1, <1>20
    <3>3. QED
      BY <2>1, <3>2, <1>13, <1>20, <1>j, <1>k DEF ReadOf
  <2>2. CASE off + n # Len(b)
    <3>1. vecChannelsIn'[c] = q /\ channelTimestamp'[c] = stamp /\ rtmpGot'[c] = g
      BY <2>2, <1>4, <1>5, <1>20, <1>l, <1>e, <1>h
    <3>2. QED
      BY <2>2, <3>1, <1>13, <1>18, <1>j, <1>k DEF ReadOf
  <2>3. QED
    BY <2>1, <2>2
<1>22. /\ vecChannelsIn'[c] \in PartlyRead /\ channelTimestamp'[c] \in RtmpTime
       /\ rtmpGot'[c] \in Seq(GotMessage)
       /\ ReaderAt(s, rtmpGot'[c], vecChannelsIn'[c], channelTimestamp'[c])
       /\ TimesRight(s, rtmpGot'[c])
  BY <1>6, <1>7, <1>10, <1>12, <1>15, <1>21, <1>j, <1>k, ReaderSteps
<1>23. /\ vecChannelsIn' = [vecChannelsIn EXCEPT ![c] = vecChannelsIn'[c]]
       /\ channelTimestamp' = [channelTimestamp EXCEPT ![c] = channelTimestamp'[c]]
       /\ rtmpGot' = [rtmpGot EXCEPT ![c] = rtmpGot'[c]]
  BY <1>4, <1>5, <1>l
<1>24. ChunksForm'
  <2>1. /\ vecChannelsIn' \in [RtmpChannel -> PartlyRead \cup {NoMessage}]
        /\ channelTimestamp' \in [RtmpChannel -> RtmpTime]
        /\ rtmpGot' \in [RtmpChannel -> Seq(GotMessage)]
    BY <1>5, <1>22, <1>23, <1>l
  <2>2. chunkWire' \in Seq(Chunk)
    BY <1>1, <1>3, HeadTyped
  <2>3. QED
    BY <2>1, <2>2, <1>0, <1>3 DEF ChunksForm
<1>25. ReaderSpot(c)' = After(s, p)
  <2>1. vecChannelsIn'[c] # NoMessage
    BY <1>22, RtmpNothing
  <2>2. ReaderSpot(c)' = [done |-> Len(rtmpGot'[c]), off |-> Len(vecChannelsIn'[c].body),
                          size |-> inChunkSize]
    BY <2>1, <1>3 DEF ReaderSpot
  <2>3. CASE off + n = Len(b)
    <3>1. Len(rtmpGot'[c]) = k /\ vecChannelsIn'[c].body = <<>>
      BY <2>3, <1>6, <1>10, <1>21, <1>j, <1>k DEF ReadOf
    <3>2. QED
      BY <2>2, <2>3, <3>1, <1>9, <1>16, <1>i DEF After
  <2>4. CASE off + n # Len(b)
    <3>1. rtmpGot'[c] = g /\ vecChannelsIn'[c].body = SubSeq(b, 1, off + n)
      BY <2>4, <1>21, <1>j, <1>k DEF ReadOf
    <3>2. QED
      BY <2>2, <2>4, <3>1, <1>9, <1>16, <1>19 DEF After
  <2>5. QED
    BY <2>3, <2>4
<1>26. SenderSpot(c)' = SenderSpot(c)
  BY <1>3 DEF SenderSpot
<1>27. ChannelAt(c)'
  BY <1>3, <1>5, <1>6, <1>22, <1>25, <1>26, <1>d DEF ChannelAt
<1>28. ASSUME NEW e \in RtmpChannel, e # c
       PROVE  ChannelAt(e)' /\ rtmpGot'[e] = rtmpGot[e]
  <2>1. /\ rtmpSent'[e] = rtmpSent[e] /\ rtmpGot'[e] = rtmpGot[e]
        /\ vecChannelsOut'[e] = vecChannelsOut[e] /\ beingSent'[e] = beingSent[e]
        /\ vecChannelsIn'[e] = vecChannelsIn[e] /\ channelTimestamp'[e] = channelTimestamp[e]
    BY <1>3, <1>23, <1>28, <1>l
  <2>2. ReaderSpot(e)' = ReaderSpot(e) /\ SenderSpot(e)' = SenderSpot(e)
    BY <2>1, <1>3, SpotsStay
  <2>3. ChannelAt(e)
    BY ChannelOf
  <2>4. QED
    BY <2>1, <2>2, <2>3, <1>5, <1>28, ChannelStays
<1>29. rtmpGot'[c] = g \/ \E m \in GotMessage : rtmpGot'[c] = Append(g, m)
  <2>1. PICK m : m = [type |-> s[k].type, body |-> b, time |-> AbsoluteTime(q, c)]
    OBVIOUS
  <2>2. CASE off + n = Len(b)
    <3>1. rtmpGot'[c] = Append(g, m)
      <4>1. SubSeq(b, 1, off + n) = b
        BY <2>2, <1>11
      <4>2. rtmpGot' = [rtmpGot EXCEPT ![c] = Append(@,
                  [type |-> q.type, body |-> q.body, time |-> AbsoluteTime(q, c)])]
        BY <2>2, <1>4, <1>20
      <4>3. rtmpGot'[c] = Append(g, [type |-> q.type, body |-> q.body,
                                     time |-> AbsoluteTime(q, c)])
        BY <4>2, <1>5, <1>l, <1>e
      <4>4. QED
        BY <4>1, <4>3, <1>20, <2>1
    <3>2. AbsoluteTime(q, c) \in RtmpTime
      <4>1. t + stamp \in Int
        BY <1>7 DEF RtmpTime
      <4>2. QED
        BY <4>1, <1>20, Turned
    <3>3. m \in GotMessage
      BY <3>2, <2>1, <1>11 DEF GotMessage
    <3>4. QED
      BY <3>1, <3>3
  <2>3. CASE off + n # Len(b)
    BY <2>3, <1>4, <1>20, <1>e
  <2>4. QED
    BY <2>2, <2>3
<1>30. QED
  BY <1>5, <1>24, <1>27, <1>28, <1>29, <1>e DEF ChunksInv

-----------------------------------------------------------------------------
(* The chunk stream as a channel of messages.                              *)
Out == [c \in RtmpChannel |-> Contents(rtmpSent[c])]
In == [c \in RtmpChannel |-> Contents(rtmpGot[c])]

LEMMA ContentsTyped ==
  ASSUME NEW S, NEW s \in Seq(S)
  PROVE  /\ Contents(s) \in Seq({Content(m) : m \in S}) /\ Len(Contents(s)) = Len(s)
         /\ \A i \in 1 .. Len(s) : Contents(s)[i] = Content(s[i])
<1>1. DOMAIN s = 1 .. Len(s) /\ Len(s) \in Nat /\ \A i \in 1 .. Len(s) : s[i] \in S
  OBVIOUS
<1>2. Contents(s) = [i \in 1 .. Len(s) |-> Content(s[i])]
  BY <1>1 DEF Contents
<1>3. Contents(s) \in [1 .. Len(s) -> {Content(m) : m \in S}]
  BY <1>1, <1>2
<1>4. QED
  BY <1>1, <1>2, <1>3

LEMMA ContentsLonger ==
  ASSUME NEW S, NEW s \in Seq(S), NEW m \in S
  PROVE  Contents(Append(s, m)) = Append(Contents(s), Content(m))
<1> DEFINE T == {Content(x) : x \in S}
<1>a. Append(s, m) \in Seq(S)
  OBVIOUS
<1>1. PICK t \in Seq(S) : t = Append(s, m)
  BY <1>a
<1>2. Len(t) = Len(s) + 1 /\ Len(s) \in Nat /\ t[Len(s) + 1] = m
      /\ \A i \in 1 .. Len(s) : t[i] = s[i]
  BY <1>1
<1>3. /\ Contents(t) \in Seq(T) /\ Len(Contents(t)) = Len(s) + 1
      /\ \A i \in 1 .. Len(s) + 1 : Contents(t)[i] = Content(t[i])
  BY <1>2, ContentsTyped
<1>4. /\ Contents(s) \in Seq(T) /\ Len(Contents(s)) = Len(s)
      /\ \A i \in 1 .. Len(s) : Contents(s)[i] = Content(s[i])
  BY ContentsTyped
<1>5. Content(m) \in T
  OBVIOUS
<1> HIDE DEF T
<1>b. Append(Contents(s), Content(m)) \in Seq(T)
  BY <1>4, <1>5
<1>6. PICK r \in Seq(T) : r = Append(Contents(s), Content(m))
  BY <1>b
<1>7. Len(r) = Len(s) + 1 /\ r[Len(s) + 1] = Content(m)
      /\ \A i \in 1 .. Len(s) : r[i] = Contents(s)[i]
  BY <1>4, <1>5, <1>6
<1>8. \A i \in 1 .. Len(Contents(t)) : Contents(t)[i] = r[i]
  <2> TAKE i \in 1 .. Len(Contents(t))
  <2>1. CASE i = Len(s) + 1
    BY <2>1, <1>2, <1>3, <1>7
  <2>2. CASE i # Len(s) + 1
    <3>1. i \in 1 .. Len(s) /\ i \in 1 .. Len(s) + 1
      BY <2>2, <1>2, <1>3
    <3>2. QED
      BY <3>1, <1>2, <1>3, <1>4, <1>7
  <2>3. QED
    BY <2>1, <2>2
<1>9. Contents(t) = r
  BY <1>3, <1>7, <1>8, SeqEqual
<1>10. QED
  BY <1>1, <1>6, <1>9

LEMMA SendIsSend ==
  ASSUME ChunksInv, NEW c \in RtmpChannel, NEW m \in RtmpMessage,
         NEW form \in {LARGE, MEDIUM}, SendMessage(c, m, form)
  PROVE  Messages!Send(c)
<1>1. PICK x \in SentMessage : x = SentAs(m, form, vecChannelsOut[c])
  BY SentAsTyped
<1>2. Content(x) = Content(m) /\ Content(x) \in {Content(y) : y \in RtmpMessage}
  <2>1. x.type = m.type /\ x.body = m.body
    BY <1>1, SentAsTyped
  <2>2. QED
    BY <2>1 DEF Content
<1>3. rtmpSent' = [rtmpSent EXCEPT ![c] = Append(@, x)] /\ rtmpGot' = rtmpGot
  BY <1>1 DEF SendMessage, SentAs
<1>4. rtmpSent \in [RtmpChannel -> Seq(SentMessage)]
  BY DEF ChunksInv, ChunksForm
<1>5. Contents(rtmpSent'[c]) = Append(Contents(rtmpSent[c]), Content(x))
  BY <1>3, <1>4, ContentsLonger
<1>6. \A d \in RtmpChannel \ {c} : rtmpSent'[d] = rtmpSent[d]
  BY <1>3, <1>4
<1>7. Out' = [Out EXCEPT ![c] = Append(@, Content(x))]
  BY <1>5, <1>6 DEF Out
<1>8. In' = In
  BY <1>3 DEF In
<1>9. QED
  BY <1>2, <1>7, <1>8 DEF Messages!Send, Out, In

(* A message that is read whole is the next one that was sent.             *)
LEMMA ReadIsDeliver ==
  ASSUME ChunksInv, ReadPacket
  PROVE  UNCHANGED <<Out, In>> \/ \E c \in RtmpChannel : Messages!Deliver(c)
<1>1. ChunksInv' /\ rtmpSent' = rtmpSent
  BY ReadPacketKeeps DEF ReadPacket
<1>2. PICK c \in RtmpChannel :
        /\ \A d \in RtmpChannel \ {c} : rtmpGot'[d] = rtmpGot[d]
        /\ rtmpGot'[c] = rtmpGot[c] \/ \E m \in GotMessage : rtmpGot'[c] = Append(rtmpGot[c], m)
  BY ReadPacketKeeps
<1>3. /\ rtmpGot \in [RtmpChannel -> Seq(GotMessage)]
      /\ rtmpGot' \in [RtmpChannel -> Seq(GotMessage)]
      /\ rtmpSent[c] \in Seq(SentMessage) /\ rtmpGot[c] \in Seq(GotMessage)
  BY <1>1 DEF ChunksInv, ChunksForm
<1>4. Out' = Out
  BY <1>1 DEF Out
<1>5. CASE rtmpGot'[c] = rtmpGot[c]
  <2>1. In' = In
    BY <1>2, <1>5 DEF In
  <2>2. QED
    BY <2>1, <1>4
<1>6. ASSUME NEW m \in GotMessage, rtmpGot'[c] = Append(rtmpGot[c], m)
      PROVE  Messages!Deliver(c)
  <2>1. PICK n \in Nat : n = Len(rtmpGot[c])
    BY <1>3
  <2>2. Len(rtmpGot'[c]) = n + 1 /\ rtmpGot'[c][n + 1] = m
    BY <1>3, <1>6, <2>1
  <2>3. /\ n + 1 <= Len(rtmpSent[c]) /\ m.type = rtmpSent[c][n + 1].type
        /\ m.body = rtmpSent[c][n + 1].body
    <3>1. ReaderAt(rtmpSent[c], rtmpGot'[c], vecChannelsIn'[c], channelTimestamp'[c])
      BY <1>1 DEF ChunksInv, ChannelAt
    <3>2. QED
      BY <2>2, <3>1 DEF ReaderAt
  <2>4. Content(m) = Content(rtmpSent[c][n + 1])
    BY <2>3 DEF Content
  <2>5. Contents(rtmpSent[c])[n + 1] = Content(m) /\ n < Len(Contents(rtmpSent[c]))
    <3>1. /\ Len(Contents(rtmpSent[c])) = Len(rtmpSent[c])
          /\ \A i \in 1 .. Len(rtmpSent[c]) :
               Contents(rtmpSent[c])[i] = Content(rtmpSent[c][i])
      BY <1>3, ContentsTyped
    <3>2. n + 1 \in 1 .. Len(rtmpSent[c]) /\ n < Len(rtmpSent[c])
      BY <1>3, <2>3
    <3>3. QED
      BY <3>1, <3>2, <2>4
  <2>6. Contents(rtmpGot'[c]) = Append(Contents(rtmpGot[c]), Content(m))
    BY <1>3, <1>6, ContentsLonger
  <2>7. Len(Contents(rtmpGot[c])) = n
    BY <1>3, <2>1, ContentsTyped
  <2>8. Len(In[c]) < Len(Out[c])
    BY <2>5, <2>7 DEF In, Out
  <2>9. In' = [In EXCEPT ![c] = Append(@, Out[c][Len(@) + 1])]
    <3>1. In[c] = Contents(rtmpGot[c]) /\ Out[c][Len(In[c]) + 1] = Content(m)
      BY <2>5, <2>7 DEF In, Out
    <3>2. In'[c] = Append(In[c], Out[c][Len(In[c]) + 1])
      BY <2>6, <3>1 DEF In
    <3>3. \A d \in RtmpChannel \ {c} : In'[d] = In[d]
      BY <1>2 DEF In
    <3>4. In \in [RtmpChannel -> {In[d] : d \in RtmpChannel}] /\ DOMAIN In = RtmpChannel
          /\ In' = [d \in RtmpChannel |-> In'[d]]
      BY DEF In
    <3>5. QED
      BY <3>2, <3>3, <3>4
  <2>10. QED
    BY <1>4, <2>8, <2>9 DEF Messages!Deliver, Out, In
<1>7. QED
  BY <1>2, <1>5, <1>6

LEMMA BeginsAnew == ChunksInit' => ChunksInv'
BY ChunksBegin, PTL

LEMMA ChunksStep ==
  ASSUME ChunksInv, [ChunksNext]_chunkvars
  PROVE  ChunksInv' /\ [Messages!Next]_<<Out, In>>
<1>1. ASSUME NEW c \in RtmpChannel, NEW m \in RtmpMessage, NEW form \in {LARGE, MEDIUM},
             SendMessage(c, m, form)
      PROVE  ChunksInv' /\ [Messages!Next]_<<Out, In>>
  BY <1>1, SendMessageKeeps, SendIsSend DEF Messages!Next
<1>2. ASSUME UNCHANGED <<rtmpSent, rtmpGot>> PROVE UNCHANGED <<Out, In>>
  BY <1>2 DEF Out, In
<1>3. ASSUME NEW c \in RtmpChannel, WriteChunk(c)
      PROVE  ChunksInv' /\ [Messages!Next]_<<Out, In>>
  BY <1>2, <1>3, WriteChunkKeeps DEF WriteChunk
<1>4. CASE AnnounceChunkSize
  BY <1>2, <1>4, AnnounceChunkSizeKeeps DEF AnnounceChunkSize
<1>5. CASE HandleChangeChunkSize
  BY <1>2, <1>5, HandleChangeChunkSizeKeeps DEF HandleChangeChunkSize
<1>6. CASE ReadPacket
  BY <1>6, ReadPacketKeeps, ReadIsDeliver DEF Messages!Next
<1>7. CASE NewConnection
  <2>1. ChunksInv'
    BY <1>7, BeginsAnew DEF NewConnection, ChunksInit, OnEach
  <2>2. Messages!Reconnect(RtmpChannel)
    <3>1. rtmpSent' = OnEach(<<>>) /\ rtmpGot' = OnEach(<<>>)
      BY <1>7 DEF NewConnection
    <3>2. Contents(<<>>) = <<>>
      BY DEF Contents
    <3>3. Out' = [c \in RtmpChannel |-> <<>>] /\ In' = [c \in RtmpChannel |-> <<>>]
      BY <3>1, <3>2 DEF Out, In, OnEach
    <3>4. QED
      BY <3>3 DEF Messages!Reconnect, Out, In
  <2>3. QED
    BY <2>1, <2>2 DEF Messages!Next
<1>8. CASE UNCHANGED chunkvars
  <2>1. UNCHANGED <<vecChannelsOut, beingSent, outChunkSize, vecChannelsIn, channelTimestamp,
                    inChunkSize, chunkWire, rtmpSent, rtmpGot>>
    BY <1>8 DEF chunkvars, senderVars, readerVars
  <2>2. ChunksForm'
    BY <2>1 DEF ChunksInv, ChunksForm
  <2>3. ASSUME NEW c \in RtmpChannel PROVE ChannelAt(c)'
    <3>1. ReaderSpot(c)' = ReaderSpot(c) /\ SenderSpot(c)' = SenderSpot(c)
      BY <2>1, SpotsStay
    <3>2. QED
      BY <2>1, <3>1, ChannelOf, ChannelStays
  <2>4. QED
    BY <2>1, <2>2, <2>3, <1>2 DEF ChunksInv
<1>9. QED
  BY <1>1, <1>3, <1>4, <1>5, <1>6, <1>7, <1>8 DEF ChunksNext

(* Whatever the chunk sizes, the headers asked for, and the way the chunks *)
(* of the channels mix, each channel of an RTMP connection carries whole   *)
(* messages in order: RTMP_ReadPacket fills in what the headers of         *)
(* RTMP_SendPacket leave out as it was meant.                              *)
THEOREM ChannelOfWholeMessages == ChunksSpec => CarriesMessages
<1>1. ChunksInit => ChunksInv /\ Messages!Init
  <2> SUFFICES ASSUME ChunksInit PROVE Messages!Init
    BY ChunksBegin
  <2>1. rtmpSent = OnEach(<<>>) /\ rtmpGot = OnEach(<<>>)
    BY DEF ChunksInit
  <2>2. Contents(<<>>) = <<>>
    BY DEF Contents
  <2>3. QED
    BY <2>1, <2>2 DEF Messages!Init, Messages!Quiet, OnEach
<1>2. ChunksInv /\ [ChunksNext]_chunkvars => ChunksInv' /\ [Messages!Next]_<<Out, In>>
  BY ChunksStep
<1>3. QED
  BY <1>1, <1>2, PTL DEF ChunksSpec, CarriesMessages, Messages!Spec, Out, In

(* And, but for those that repeat the one before in all but their bytes,   *)
(* with the times they were sent with.                                     *)
LEMMA TimesAlwaysCarried == ChunksSpec => []TimesCarried
<1>1. ChunksInit => ChunksInv
  BY ChunksBegin
<1>2. ChunksInv /\ [ChunksNext]_chunkvars => ChunksInv'
  BY ChunksStep
<1>3. ChunksInv => TimesCarried
  <2> SUFFICES ASSUME ChunksInv, NEW c \in RtmpChannel, NEW i \in DOMAIN rtmpGot[c],
                      NEW j \in 1 .. i, rtmpSent[c][j].whole,
                      \A k \in (j + 1) .. i : ~rtmpSent[c][k].repeats
               PROVE  rtmpGot[c][i].time = rtmpSent[c][i].time
    BY DEF TimesCarried
  <2>1. TimesRight(rtmpSent[c], rtmpGot[c]) /\ rtmpGot[c] \in Seq(GotMessage)
    BY ChannelOf
  <2>2. i \in 1 .. Len(rtmpGot[c])
    BY <2>1
  <2>3. QED
    BY <2>1, <2>2 DEF TimesRight
<1>4. QED
  BY <1>1, <1>2, <1>3, PTL DEF ChunksSpec

-----------------------------------------------------------------------------
(* The timer of the RTCP reports.                                          *)

(* What a product of naturals leaves when it is divided again.             *)
LEMMA Product ==
  ASSUME NEW x \in Nat, NEW y \in Nat, NEW z \in Nat, x <= y
  PROVE  x * z \in Nat /\ x * z <= y * z
OBVIOUS

LEMMA Scaled ==
  ASSUME NEW m \in Nat, NEW b \in Nat \ {0}, NEW x \in Nat, m <= b
  PROVE  (m * x) \div b \in Nat /\ (m * x) \div b <= x
<1>1. m * x \in Nat /\ m * x <= b * x
  OBVIOUS
<1> DEFINE p == m * x
<1> HIDE DEF p
<1>2. p \in Nat /\ p <= b * x
  BY <1>1 DEF p
<1>3. p \div b \in Int /\ (p \div b) * b <= p /\ p < (p \div b) * b + b
  BY <1>2
<1> DEFINE q == p \div b
<1> HIDE DEF q
<1>4. q \in Int /\ q * b <= b * x /\ 0 < (q + 1) * b
  BY <1>2, <1>3 DEF q
<1>5. q <= x
  <2>1. SUFFICES ASSUME q >= x + 1 PROVE FALSE
    BY <1>4
  <2>2. q * b >= (x + 1) * b
    BY <2>1, <1>4
  <2>3. QED
    BY <2>2, <1>4
<1>6. q >= 0
  <2>1. SUFFICES ASSUME q + 1 <= 0 PROVE FALSE
    BY <1>4
  <2>2. (q + 1) * b <= 0
    BY <2>1, <1>4
  <2>3. QED
    BY <2>2, <1>4
<1>7. QED
  BY <1>4, <1>5, <1>6 DEF p, q

LEMMA Tenths ==
  ASSUME NEW x \in Nat, NEW y \in Nat, x <= y
  PROVE  x \div 10 \in Nat /\ y \div 10 \in Nat /\ x \div 10 <= y \div 10
OBVIOUS

Span == Larger(MinInterval, MaxMembers * Larger(ForOthers, ForAll))

LEMMA Shares ==
  ASSUME SchedAssumption, NEW n \in 0 .. MaxMembers
  PROVE  /\ Span \in Nat /\ MinInterval <= Span /\ n * ForAll <= Span /\ n * ForOthers <= Span
         /\ n * ForAll \in Nat /\ n * ForOthers \in Nat
<1> DEFINE most == Larger(ForOthers, ForAll)
<1>1. /\ MinInterval \in Nat /\ ForAll \in Nat /\ ForOthers \in Nat /\ MaxMembers \in Nat
  BY DEF SchedAssumption
<1>2. most \in Nat /\ ForOthers <= most /\ ForAll <= most
  BY <1>1 DEF Larger
<1> HIDE DEF most
<1>3. MaxMembers * most \in Nat /\ n * most <= MaxMembers * most
  BY <1>1, <1>2, Product
<1>4. n * ForAll \in Nat /\ n * ForOthers \in Nat /\ n * ForAll <= n * most /\ n * ForOthers <= n * most
  <2>1. ForAll * n <= most * n /\ ForOthers * n <= most * n /\ ForAll * n \in Nat /\ ForOthers * n \in Nat
    BY <1>1, <1>2, Product
  <2>2. n * most \in Nat
    BY <1>1, <1>2
  <2>3. QED
    BY <2>1, <2>2, <1>1, <1>2
<1>5. n * most \in Nat
  BY <1>2
<1>6. Span = Larger(MinInterval, MaxMembers * most)
  BY DEF Span, most
<1> DEFINE top == MaxMembers * most  mid == n * most  fa == n * ForAll  fo == n * ForOthers
<1>7. top \in Nat /\ mid \in Nat /\ fa \in Nat /\ fo \in Nat /\ mid <= top /\ fa <= mid /\ fo <= mid
      /\ Span = Larger(MinInterval, top)
  BY <1>3, <1>4, <1>5, <1>6
<1> HIDE DEF top, mid, fa, fo
<1>8. Span \in Nat /\ MinInterval <= Span /\ fa <= Span /\ fo <= Span
  BY <1>1, <1>7 DEF Larger
<1>9. QED
  BY <1>7, <1>8 DEF fa, fo

(* The deterministic interval, for whatever members there are.             *)
Members ==
  /\ members \in 1 .. MaxMembers /\ senders \in 0 .. members /\ pmembers \in 0 .. MaxMembers
  /\ byemembers \in 0 .. MaxMembers

LEMMA Interval ==
  ASSUME SchedAssumption, Members
  PROVE  CalculateDeterministicInterval \in 0 .. Span
<1>1. /\ members \in Nat /\ senders \in Nat /\ members <= MaxMembers /\ 1 <= members /\ senders <= members
      /\ {MinInterval, ForAll, ForSenders, ForOthers, ShareOf, MaxMembers} \subseteq Nat
  BY DEF Members, SchedAssumption
<1>2. Larger(members, 1) = members
  BY <1>1 DEF Larger
<1>3. Tmin(~hassentrtcp) \in Nat /\ Tmin(~hassentrtcp) <= MinInterval
  BY <1>1 DEF Tmin
<1>4. CASE senders * ShareOf <= members
  <2>1. senders * ForSenders <= (senders * ShareOf) * ForAll /\ senders * ForSenders \in Nat
    <3>1. ForSenders <= ShareOf * ForAll /\ ShareOf * ForAll \in Nat
      BY <1>1 DEF SchedAssumption
    <3>2. ForSenders * senders <= (ShareOf * ForAll) * senders /\ ForSenders * senders \in Nat
      BY <1>1, <3>1, Product
    <3>3. QED
      BY <1>1, <3>2
  <2>2. (senders * ShareOf) * ForAll <= members * ForAll
    <3>1. senders * ShareOf \in Nat
      BY <1>1
    <3>2. QED
      BY <1>1, <1>4, <3>1, Product
  <2>3. members * ForAll <= Span /\ Span \in Nat /\ MinInterval <= Span
    BY <1>1, Shares
  <2>4. members - senders \in 0 .. MaxMembers
    BY <1>1
  <2>5. (members - senders) * ForOthers <= Span /\ (members - senders) * ForOthers \in Nat
    BY <2>4, Shares
  <2> DEFINE a == senders * ForSenders  b == (members - senders) * ForOthers
             n == IF own THEN a ELSE b
             m == (senders * ShareOf) * ForAll  t == members * ForAll
  <2>6. CalculateDeterministicInterval = Larger(Tmin(~hassentrtcp), n)
    BY <1>2, <1>4 DEF CalculateDeterministicInterval
  <2>7. a \in Nat /\ b \in Nat /\ b <= Span /\ a <= m /\ m <= t /\ t <= Span
    BY <2>1, <2>2, <2>3, <2>5
  <2>8. m \in Int /\ t \in Int
    BY <1>1
  <2> HIDE DEF a, b, m, t
  <2>9. n \in Nat /\ n <= Span
    BY <2>7, <2>8, <2>3
  <2> HIDE DEF n
  <2>10. QED
    BY <1>3, <2>3, <2>6, <2>9 DEF Larger
<1>5. CASE ~(senders * ShareOf <= members)
  <2>1. CalculateDeterministicInterval = Larger(Tmin(~hassentrtcp), members * ForAll)
    BY <1>2, <1>5 DEF CalculateDeterministicInterval
  <2>2. members * ForAll <= Span /\ members * ForAll \in Nat /\ Span \in Nat /\ MinInterval <= Span
    BY <1>1, Shares
  <2> DEFINE t == members * ForAll
  <2>3. t \in Nat /\ t <= Span /\ CalculateDeterministicInterval = Larger(Tmin(~hassentrtcp), t)
    BY <2>1, <2>2
  <2> HIDE DEF t
  <2>4. QED
    BY <1>3, <2>2, <2>3 DEF Larger
<1>6. QED
  BY <1>4, <1>5

Shortest(Td) == (Td * LeastDraw) \div 10

LEMMA Draws ==
  ASSUME SchedAssumption, NEW Td \in 0 .. Span, NEW T \in Drawn(Td)
  PROVE  T \in Int /\ Shortest(Td) \in Nat /\ Shortest(Td) <= T /\ T <= Longest /\ Longest \in Nat
<1>1. /\ LeastDraw \in Nat /\ MostDraw \in Nat /\ LeastDraw <= MostDraw /\ Span \in Nat /\ Td \in Nat
      /\ Td <= Span
  <2>1. 0 \in 0 .. MaxMembers
    BY DEF SchedAssumption
  <2>2. Span \in Nat
    BY <2>1, Shares
  <2>3. QED
    BY <2>2 DEF SchedAssumption
<1> DEFINE l == Td * LeastDraw  h == Td * MostDraw  top == Span * MostDraw
<1>2. l \in Nat /\ h \in Nat /\ top \in Nat /\ l <= h /\ h <= top
  <2>1. LeastDraw * Td \in Nat /\ LeastDraw * Td <= MostDraw * Td
    BY <1>1, Product
  <2>2. Td * MostDraw \in Nat /\ Td * MostDraw <= Span * MostDraw /\ Span * MostDraw \in Nat
    BY <1>1, Product
  <2>3. QED
    BY <1>1, <2>1, <2>2
<1>3. Longest = top \div 10
  BY <1>1 DEF Longest, Span
<1>4. T = l \div 10 \/ T = h \div 10
  BY DEF Drawn
<1>5. Shortest(Td) = l \div 10
  BY DEF Shortest
<1> HIDE DEF l, h, top
<1>6. /\ l \div 10 \in Nat /\ h \div 10 \in Nat /\ top \div 10 \in Nat
      /\ l \div 10 <= h \div 10 /\ h \div 10 <= top \div 10
  BY <1>2, Tenths
<1>7. QED
  BY <1>3, <1>4, <1>5, <1>6

LEMMA NextDraw ==
  ASSUME SchedAssumption, Members, NEW T \in CalculateTransmissionInterval
  PROVE  /\ T \in Int /\ T <= Longest /\ Longest \in Nat
         /\ (CalculateDeterministicInterval * LeastDraw) \div 10 <= T
         /\ (CalculateDeterministicInterval * LeastDraw) \div 10 <= Longest
         /\ (CalculateDeterministicInterval * LeastDraw) \div 10 \in Nat
<1>1. CalculateDeterministicInterval \in 0 .. Span
  BY Interval
<1>2. T \in Drawn(CalculateDeterministicInterval)
  BY DEF CalculateTransmissionInterval
<1>3. QED
  BY <1>1, <1>2, Draws DEF Shortest

LEMMA NextBYE ==
  ASSUME SchedAssumption, NEW n \in 0 .. MaxMembers, NEW now,
         NEW T \in CalculateBYETransmissionInterval(now, n)
  PROVE  T \in Int /\ T <= Longest /\ Longest \in Nat
<1>1. Span \in Nat /\ MinInterval <= Span /\ n * ForOthers <= Span /\ n * ForOthers \in Nat
      /\ MinInterval \in Nat
  BY Shares DEF SchedAssumption
<1>2. Tmin(TRUE) \in Nat /\ Tmin(TRUE) <= MinInterval
  BY <1>1 DEF Tmin
<1> DEFINE f == n * ForOthers  low == Tmin(TRUE)
<1>3. f \in Nat /\ f <= Span /\ low \in Nat /\ low <= MinInterval
  BY <1>1, <1>2
<1> HIDE DEF f, low
<1>4. Larger(low, f) \in 0 .. Span
  BY <1>1, <1>3 DEF Larger
<1>5. CASE now
  <2>1. T = 0
    BY <1>5 DEF CalculateBYETransmissionInterval
  <2>2. PICK z : z \in Drawn(Larger(low, f))
    <3>1. (Larger(low, f) * LeastDraw) \div 10 \in Drawn(Larger(low, f))
      BY DEF Drawn
    <3>2. QED
      BY <3>1
  <2>3. Longest \in Nat
    BY <2>2, <1>4, Draws
  <2>4. QED
    BY <2>1, <2>3
<1>6. CASE ~now
  <2>1. T \in Drawn(Larger(low, f))
    BY <1>6 DEF CalculateBYETransmissionInterval, f, low
  <2>2. QED
    BY <2>1, <1>4, Draws
<1>7. QED
  BY <1>5, <1>6

-----------------------------------------------------------------------------
(* What the timer and the history have to do with each other.              *)

Timer ==
  /\ nextrtcptime \in Int /\ prevrtcptime \in Int /\ prevrtcptime <= 0
  /\ lastReport \in Int /\ lastReport <= 0 /\ -Longest <= lastReport
  /\ lastReport <= prevrtcptime \/ lastReport = -Longest
SchedInv == Members /\ Timer /\ SchedulerSound

LEMMA TimerSet ==
  ASSUME Timer, Longest \in Nat, prevrtcptime' = 0, nextrtcptime' \in Int, nextrtcptime' <= Longest,
         lastReport' = lastReport \/ lastReport' = 0
  PROVE  Timer' /\ NotPutOff'
BY DEF Timer, NotPutOff, Longest, Larger

LEMMA FirstKeeps == SchedAssumption /\ SchedInv /\ FirstInterval => SchedInv'
<1> SUFFICES ASSUME SchedAssumption, SchedInv, FirstInterval PROVE SchedInv'
  OBVIOUS
<1>1. /\ nextrtcptime' \in CalculateTransmissionInterval /\ prevrtcptime' = 0
      /\ pmembers' = members /\ members' = members /\ senders' = senders
      /\ byemembers' = byemembers /\ lastReport' = lastReport /\ hurried' = hurried
  BY DEF FirstInterval, CalculateNextRTCPTime, bye, counts
<1>2. nextrtcptime' \in Int /\ nextrtcptime' <= Longest /\ Longest \in Nat
  BY <1>1, NextDraw DEF SchedInv
<1>3. Timer' /\ NotPutOff'
  BY <1>1, <1>2, TimerSet DEF SchedInv
<1>4. Members'
  BY <1>1 DEF SchedInv, Members
<1>5. QED
  BY <1>1, <1>3, <1>4 DEF SchedInv, SchedulerSound, ReportsSpaced

LEMMA IsTimeKeeps == SchedAssumption /\ SchedInv /\ IsTime => SchedInv'
<1> SUFFICES ASSUME SchedAssumption, SchedInv, IsTime PROVE SchedInv'
  OBVIOUS
<1>1. CASE firstcall /\ FirstInterval
  BY <1>1, FirstKeeps
<1>2. CASE ~firstcall
  <2>1. PICK T \in Checked :
          /\ \/ /\ prevrtcptime + T <= 0 /\ prevrtcptime' = 0
                /\ nextrtcptime' \in CalculateTransmissionInterval /\ NoteReport
             \/ /\ nextrtcptime' = prevrtcptime + T
                /\ UNCHANGED <<prevrtcptime, lastReport, hurried>>
          /\ pmembers' = members /\ members' = members /\ senders' = senders
          /\ byemembers' = byemembers /\ firstcall' = firstcall
    BY <1>2 DEF IsTime, Due, PutOff, CalculateNextRTCPTime, counts
  <2>2. Members' /\ Members /\ Timer
    BY <2>1 DEF SchedInv, Members
  <2>3. T \in Int /\ T <= Longest /\ Longest \in Nat
    <3>1. CASE byescheduled
      <4>1. byemembers \in 0 .. MaxMembers /\ T \in CalculateBYETransmissionInterval(sendbyenow, byemembers)
        BY <3>1 DEF Checked, SchedInv, Members
      <4>2. QED
        BY <4>1, NextBYE
    <3>2. CASE ~byescheduled
      <4>1. T \in CalculateTransmissionInterval
        BY <3>2 DEF Checked
      <4>2. QED
        BY <4>1, <2>2, NextDraw
    <3>3. QED
      BY <3>1, <3>2
  <2>4. CASE /\ prevrtcptime + T <= 0 /\ prevrtcptime' = 0
             /\ nextrtcptime' \in CalculateTransmissionInterval /\ NoteReport
    <3>1. nextrtcptime' \in Int /\ nextrtcptime' <= Longest
      BY <2>2, <2>4, NextDraw
    <3>2. lastReport' = lastReport \/ lastReport' = 0
      BY <2>4 DEF NoteReport
    <3>3. Timer' /\ NotPutOff'
      BY <2>2, <2>3, <2>4, <3>1, <3>2, TimerSet
    <3>4. ~hurried'
      <4>1. CASE byescheduled
        BY <4>1, <2>4 DEF NoteReport, SchedInv, SchedulerSound, ReportsSpaced
      <4>2. CASE ~byescheduled
        <5> DEFINE least == (CalculateDeterministicInterval * LeastDraw) \div 10
        <5>1. T \in CalculateTransmissionInterval
          BY <4>2 DEF Checked
        <5>2. least \in Nat /\ least <= T /\ least <= Longest
          BY <5>1, <2>2, NextDraw
        <5>3. hurried' = (-lastReport < least)
          BY <4>2, <2>4 DEF NoteReport
        <5> HIDE DEF least
        <5>4. ~(-lastReport < least)
          BY <5>2, <2>2, <2>3, <2>4 DEF Timer
        <5>5. QED
          BY <5>3, <5>4, Zenon
      <4>3. QED
        BY <4>1, <4>2
    <3>5. QED
      BY <2>2, <3>3, <3>4 DEF SchedInv, SchedulerSound, ReportsSpaced
  <2>5. CASE /\ nextrtcptime' = prevrtcptime + T
             /\ UNCHANGED <<prevrtcptime, lastReport, hurried>>
    <3>1. Timer' /\ NotPutOff'
      BY <2>2, <2>3, <2>5 DEF Timer, NotPutOff, Longest, Larger
    <3>2. QED
      BY <2>2, <2>5, <3>1 DEF SchedInv, SchedulerSound, ReportsSpaced
  <2>6. QED
    BY <2>1, <2>4, <2>5
<1>3. QED
  BY <1>1, <1>2 DEF IsTime

LEMMA ScheduleKeeps == SchedAssumption /\ SchedInv /\ ScheduleBYEPacket => SchedInv'
<1> SUFFICES ASSUME SchedAssumption, SchedInv, ScheduleBYEPacket PROVE SchedInv'
  OBVIOUS
<1>1. /\ nextrtcptime' \in CalculateBYETransmissionInterval(sendbyenow', 1) /\ prevrtcptime' = 0
      /\ pmembers' \in {members, pmembers} /\ members' = members /\ senders' = senders
      /\ byemembers' = 1 /\ lastReport' = lastReport /\ hurried' = hurried
  BY DEF ScheduleBYEPacket, counts
<1>2. 1 \in 0 .. MaxMembers
  BY DEF SchedAssumption
<1>3. nextrtcptime' \in Int /\ nextrtcptime' <= Longest /\ Longest \in Nat
  BY <1>1, <1>2, NextBYE
<1>4. Timer' /\ NotPutOff'
  BY <1>1, <1>3, TimerSet DEF SchedInv
<1>5. Members'
  BY <1>1, <1>2 DEF SchedInv, Members
<1>6. QED
  BY <1>1, <1>4, <1>5 DEF SchedInv, SchedulerSound, ReportsSpaced

LEMMA LongestNat == SchedAssumption /\ Members => Longest \in Nat
<1> SUFFICES ASSUME SchedAssumption, Members PROVE Longest \in Nat
  OBVIOUS
<1>1. PICK T : T \in CalculateTransmissionInterval
  BY DEF CalculateTransmissionInterval, Drawn
<1>2. QED
  BY <1>1, NextDraw

LEMMA GoesKeeps == SchedAssumption /\ SchedInv /\ MemberGoes => SchedInv'
<1> SUFFICES ASSUME SchedAssumption, SchedInv, MemberGoes PROVE SchedInv'
  OBVIOUS
<1>1. /\ members > Larger(senders, 1) /\ members' = members - 1 /\ ActiveMemberDecrease
      /\ firstcall' = firstcall /\ byemembers' = byemembers /\ senders' = senders
      /\ lastReport' = lastReport /\ hurried' = hurried /\ Members /\ Timer /\ NotPutOff
      /\ hurried = FALSE
  BY DEF MemberGoes, bye, SchedInv, SchedulerSound, ReportsSpaced
<1>2. members' \in 1 .. MaxMembers /\ senders' \in 0 .. members' /\ Longest \in Nat
      /\ pmembers \in Nat /\ members' \in Nat
  BY <1>1, LongestNat DEF Members, Larger, SchedAssumption
<1>3. CASE UNCHANGED timers
  BY <1>1, <1>2, <1>3
     DEF timers, SchedInv, Members, Timer, SchedulerSound, ReportsSpaced, NotPutOff, Longest, Larger
<1>4. CASE members' < pmembers /\ PerformReverseReconsideration
  <2> DEFINE a == (members' * Larger(nextrtcptime, 0)) \div pmembers
             b == (members' * (-prevrtcptime)) \div pmembers
  <2>1. Larger(pmembers, 1) = pmembers /\ pmembers \in Nat \ {0}
    BY <1>2, <1>4 DEF Larger
  <2>2. nextrtcptime' = a /\ prevrtcptime' = -b /\ pmembers' = members'
    BY <1>4, <2>1 DEF PerformReverseReconsideration
  <2>3. Larger(nextrtcptime, 0) \in Nat /\ -prevrtcptime \in Nat
    BY <1>1 DEF Timer, Larger
  <2>4. a \in Nat /\ a <= Larger(nextrtcptime, 0) /\ b \in Nat /\ b <= -prevrtcptime
    <3>1. members' <= pmembers
      BY <1>2, <1>4
    <3>2. a \in Nat /\ a <= Larger(nextrtcptime, 0)
      BY <1>2, <2>1, <2>3, <3>1, Scaled
    <3>3. b \in Nat /\ b <= -prevrtcptime
      BY <1>2, <2>1, <2>3, <3>1, Scaled
    <3>4. QED
      BY <3>2, <3>3
  <2> HIDE DEF a, b
  <2>5. Timer'
    BY <1>1, <1>2, <2>2, <2>4 DEF Timer, Longest, Larger
  <2>6. NotPutOff'
    BY <1>1, <1>2, <2>2, <2>4 DEF Timer, NotPutOff, Longest, Larger
  <2>7. Members'
    BY <1>1, <1>2, <2>2 DEF Members
  <2>8. QED
    BY <1>1, <2>5, <2>6, <2>7 DEF SchedInv, SchedulerSound, ReportsSpaced
<1>5. QED
  BY <1>1, <1>3, <1>4 DEF ActiveMemberDecrease

LEMMA TickKeeps == SchedAssumption /\ SchedInv /\ Tick => SchedInv'
<1> SUFFICES ASSUME SchedAssumption, SchedInv, Tick PROVE SchedInv'
  OBVIOUS
<1>1. /\ nextrtcptime' = nextrtcptime - 1 /\ prevrtcptime' = prevrtcptime - 1
      /\ lastReport' = Larger(lastReport - 1, -Longest)
      /\ UNCHANGED <<pmembers, firstcall, members, senders, byemembers, hurried>>
  BY DEF Tick, counts, bye
<1>2. Longest \in Nat /\ Members /\ Timer /\ NotPutOff /\ hurried = FALSE
  BY LongestNat DEF SchedInv, SchedulerSound, ReportsSpaced
<1>3. Longest' = Longest
  BY DEF Longest, Larger
<1>4. Timer'
  BY <1>1, <1>2, <1>3 DEF Timer, Larger
<1>5. NotPutOff'
  BY <1>1, <1>2, <1>3 DEF Timer, NotPutOff
<1>6. Members'
  BY <1>1, <1>2 DEF Members
<1>7. QED
  BY <1>1, <1>2, <1>4, <1>5, <1>6 DEF SchedInv, SchedulerSound, ReportsSpaced

LEMMA SchedStep == SchedAssumption /\ SchedInv /\ [SchedNext]_schedvars => SchedInv'
<1> SUFFICES ASSUME SchedAssumption, SchedInv, [SchedNext]_schedvars PROVE SchedInv'
  OBVIOUS
<1>1. CASE AnalyseOutgoing \/ UNCHANGED schedvars
  BY <1>1 DEF AnalyseOutgoing, schedvars, timers, bye, counts, SchedInv, Members, Timer,
       SchedulerSound, ReportsSpaced, NotPutOff, Longest, Larger
<1>2. CASE AnalyseIncoming
  BY <1>2 DEF AnalyseIncoming, timers, counts, SchedInv, Members, Timer,
       SchedulerSound, ReportsSpaced, NotPutOff, Longest, Larger, SchedAssumption
<1>3. CASE MemberComes
  BY <1>3 DEF MemberComes, timers, bye, SchedInv, Members, Timer,
       SchedulerSound, ReportsSpaced, NotPutOff, Longest, Larger, SchedAssumption
<1>4. CASE SenderChanges
  <2>1. senders' \in 0 .. members /\ members' = members /\ pmembers' = pmembers
        /\ byemembers' = byemembers
    BY <1>4 DEF SenderChanges, timers, bye
  <2>2. Members'
    BY <2>1 DEF SchedInv, Members
  <2>3. QED
    BY <1>4, <2>2 DEF SenderChanges, timers, bye, SchedInv, Timer,
       SchedulerSound, ReportsSpaced, NotPutOff, Longest, Larger
<1>5. QED
  BY <1>1, <1>2, <1>3, <1>4, FirstKeeps, IsTimeKeeps, ScheduleKeeps, GoesKeeps, TickKeeps
     DEF SchedNext, GetTransmissionDelay

(* Reports keep their distance and the timer is not put off, for any       *)
(* bandwidth, any number of members, and however late the session polls.   *)
THEOREM ReportsAlwaysSpaced == SchedSpec => []SchedulerSound
<1>1. SchedInit => SchedInv
  <2> SUFFICES ASSUME SchedInit PROVE SchedInv
    OBVIOUS
  <2>1. Members
    BY SchedAssumption DEF SchedInit, Members, SchedAssumption
  <2>2. Longest \in Nat
    BY <2>1, LongestNat, SchedAssumption
  <2>3. QED
    BY <2>1, <2>2 DEF SchedInit, SchedInv, Timer, SchedulerSound, ReportsSpaced, NotPutOff
<1>2. SchedInv /\ [SchedNext]_schedvars => SchedInv'
  BY SchedStep, SchedAssumption
<1>3. SchedInv => SchedulerSound
  BY DEF SchedInv
<1>4. QED
  BY <1>1, <1>2, <1>3, PTL DEF SchedSpec

-----------------------------------------------------------------------------
(* The reports of the two ends.                                            *)

LEMMA TurnsOff ==
  ASSUME NEW T \in Nat \ {0}, NEW x \in 0 .. T - 1, NEW k \in Int
  PROVE  (x + k * T) % T = x
OBVIOUS

LEMMA TurnsOf ==
  ASSUME NEW T \in Nat \ {0}, NEW x \in Int
  PROVE  x % T \in 0 .. T - 1 /\ \E k \in Int : x = (x % T) + k * T
<1>1. x \div T \in Int /\ x = (x % T) + (x \div T) * T /\ x % T \in 0 .. T - 1
  OBVIOUS
<1>2. QED
  BY <1>1

LEMMA TurnsLeave ==
  ASSUME NEW T \in Nat \ {0}, NEW x \in Int, NEW k \in Int
  PROVE  (x + k * T) % T = x % T
<1>1. PICK r \in 0 .. T - 1, q \in Int : r = x % T /\ x = r + q * T
  BY TurnsOf
<1>2. x + k * T = r + (q + k) * T
  BY <1>1
<1>3. (r + (q + k) * T) % T = r
  <2>1. PICK j \in Int : j = q + k
    OBVIOUS
  <2>2. QED
    BY <2>1, TurnsOff
<1>4. QED
  BY <1>1, <1>2, <1>3

LEMMA TurnsAdd ==
  ASSUME NEW T \in Nat \ {0}, NEW x \in Int, NEW y \in Int
  PROVE  ((x % T) + y) % T = (x + y) % T /\ (y - (x % T)) % T = (y - x) % T
<1>1. PICK r \in 0 .. T - 1, q \in Int : r = x % T /\ x = r + q * T
  BY TurnsOf
<1>2. r + y = (x + y) + (-q) * T /\ y - r = (y - x) + q * T
  BY <1>1
<1>3. ((x + y) + (-q) * T) % T = (x + y) % T
  <2>1. x + y \in Int /\ -q \in Int
    OBVIOUS
  <2>2. QED
    BY <2>1, TurnsLeave
<1>4. ((y - x) + q * T) % T = (y - x) % T
  <2>1. y - x \in Int
    OBVIOUS
  <2>2. QED
    BY <2>1, TurnsLeave
<1>5. QED
  BY <1>1, <1>2, <1>3, <1>4

LEMMA Divided ==
  ASSUME NEW c \in Nat, NEW d \in Nat \ {0}
  PROVE  (c * d) \div d = c
OBVIOUS

LEMMA Fraction ==
  ASSUME NEW e \in Nat \ {0}, NEW x \in Nat, x < e
  PROVE  (x * 256) \div e < 256
<1>1. PICK q \in Int : q = (x * 256) \div e
  OBVIOUS
<1>2. q * e <= x * 256
  BY <1>1
<1>3. x * 256 < 256 * e
  OBVIOUS
<1>4. q >= 256 => q * e >= 256 * e
  OBVIOUS
<1>5. q * e \in Int
  OBVIOUS
<1>6. QED
  BY <1>1, <1>2, <1>3, <1>4, <1>5

-----------------------------------------------------------------------------
LEMMA ShortTimes ==
  /\ ReportModulus \in Nat \ {0} /\ ClockRate \in Nat \ {0} /\ MaxTicks \in Nat
  /\ StartTime \in Nat /\ Skew \in Nat /\ TransmissionDelay \in Nat
  /\ ReportModulus \div 16 \in Nat /\ 16 * (ReportModulus \div 16) = ReportModulus
  /\ \A x \in 0 .. MaxTicks :
       /\ ClockRate * x \in Nat /\ ClockRate * x < ReportModulus \div 16
       /\ x < ReportModulus
<1>1. /\ ReportModulus \in Nat /\ ClockRate \in Nat \ {0} /\ MaxTicks \in Nat
      /\ StartTime \in Nat /\ Skew \in Nat /\ TransmissionDelay \in Nat
      /\ ReportModulus % 16 = 0 /\ ClockRate * MaxTicks < ReportModulus \div 16
  BY ReportAssumption DEF ReportAssumption
<1>2. /\ ReportModulus \div 16 \in Nat /\ 16 * (ReportModulus \div 16) = ReportModulus
  BY <1>1
<1>3. ClockRate * MaxTicks \in Nat
  BY <1>1
<1>4. ASSUME NEW x \in 0 .. MaxTicks
      PROVE  /\ ClockRate * x \in Nat /\ ClockRate * x < ReportModulus \div 16
             /\ x < ReportModulus
  <2>1. ClockRate * x \in Nat /\ ClockRate * x <= ClockRate * MaxTicks /\ x <= ClockRate * x
    BY <1>1
  <2>2. QED
    BY <2>1, <1>1, <1>2, <1>3
<1>5. ReportModulus # 0
  BY <1>1, <1>2, <1>3
<1>6. QED
  BY <1>1, <1>2, <1>4, <1>5

LEMMA Turning ==
  ASSUME NEW x \in Int, NEW y \in Int
  PROVE  /\ Turn(x) \in 0 .. ReportModulus - 1 /\ Turn(Turn(x) + y) = Turn(x + y)
         /\ Turn(y - Turn(x)) = Turn(y - x)
         /\ x \in 0 .. ReportModulus - 1 => Turn(x) = x
<1>1. ReportModulus \in Nat \ {0}
  BY ShortTimes
<1>2. Turn(x) \in 0 .. ReportModulus - 1
  BY <1>1, TurnsOf DEF Turn
<1>3. Turn(Turn(x) + y) = Turn(x + y) /\ Turn(y - Turn(x)) = Turn(y - x)
  BY <1>1, TurnsAdd DEF Turn
<1>4. x \in 0 .. ReportModulus - 1 => Turn(x) = x
  BY <1>1 DEF Turn
<1>5. QED
  BY <1>2, <1>3, <1>4

(* Steps of the media clock between two instants, from their timestamps.   *)
LEMMA StepsTold ==
  ASSUME NEW x \in Int, NEW y \in Int, x - y \in 0 .. MaxTicks \/ y - x \in 0 .. MaxTicks
  PROVE  /\ StepsBetween(MediaTime(x), MediaTime(y)) = ClockRate * (y - x)
         /\ y >= x => Turn(MediaTime(y) - MediaTime(x)) = ClockRate * (y - x)
<1>1. /\ ReportModulus \in Nat \ {0} /\ ClockRate \in Nat \ {0} /\ MaxTicks \in Nat
      /\ ReportModulus \div 16 \in Nat /\ 16 * (ReportModulus \div 16) = ReportModulus
  BY ShortTimes
<1>2. PICK X \in Int : X = ClockRate * x
  BY <1>1
<1>3. PICK Y \in Int : Y = ClockRate * y
  BY <1>1
<1>4. Y - X = ClockRate * (y - x) /\ X - Y = ClockRate * (x - y)
  BY <1>1, <1>2, <1>3
<1>5. /\ MediaTime(x) = Turn(X) /\ MediaTime(y) = Turn(Y)
      /\ Turn(Turn(Y) - Turn(X)) = Turn(Y - X) /\ Turn(Turn(X) - Turn(Y)) = Turn(X - Y)
  <2>1. MediaTime(x) = Turn(X) /\ MediaTime(y) = Turn(Y)
    BY <1>2, <1>3 DEF MediaTime
  <2>2. ASSUME NEW a \in Int, NEW b \in Int PROVE Turn(Turn(a) - Turn(b)) = Turn(a - b)
    <3>1. Turn(a) \in Int /\ Turn(b) \in Int /\ -b \in Int
      BY <1>1, Turning
    <3>2. Turn(Turn(a) - Turn(b)) = Turn(Turn(a) - b)
      BY <3>1, Turning
    <3>3. Turn(Turn(a) + (-b)) = Turn(a + (-b))
      BY <3>1, Turning
    <3>4. Turn(a) - b = Turn(a) + (-b) /\ a - b = a + (-b)
      BY <3>1
    <3>5. QED
      BY <3>2, <3>3, <3>4
  <2>3. QED
    BY <2>1, <2>2
<1>6. CASE y - x \in 0 .. MaxTicks
  <2>1. Y - X \in 0 .. ReportModulus - 1 /\ Y - X < ReportModulus \div 16
    BY <1>1, <1>4, <1>6, ShortTimes
  <2>2. Turn(Y - X) = Y - X
    BY <2>1, Turning
  <2>3. StepsBetween(MediaTime(x), MediaTime(y)) = Y - X
    BY <2>1, <2>2, <1>5 DEF StepsBetween
  <2>4. QED
    BY <2>2, <2>3, <1>4, <1>5
<1>7. CASE ~(y - x \in 0 .. MaxTicks)
  <2>1. x - y \in 0 .. MaxTicks /\ ~(y >= x)
    BY <1>7
  <2>2. X - Y \in 0 .. ReportModulus - 1 /\ X - Y < ReportModulus \div 16 /\ X - Y # 0
    <3>1. ClockRate * (x - y) \in Nat /\ ClockRate * (x - y) < ReportModulus \div 16
      BY <2>1, ShortTimes
    <3>2. ClockRate * (x - y) # 0
      BY <2>1, <1>1
    <3>3. QED
      BY <3>1, <3>2, <1>1, <1>4
  <2>3. Turn(X - Y) = X - Y
    BY <2>2, Turning
  <2>4. Turn(Y - X) = ReportModulus - (X - Y)
    <3>1. PICK e \in 0 .. ReportModulus - 1 : e = ReportModulus - (X - Y)
      BY <2>2, <1>1
    <3>2. Y - X = e + (-1) * ReportModulus
      BY <3>1, <1>1
    <3>3. (e + (-1) * ReportModulus) % ReportModulus = e
      BY <1>1, TurnsOff
    <3>4. QED
      BY <3>1, <3>2, <3>3 DEF Turn
  <2>5. ~(Turn(Y - X) < ReportModulus \div 16)
    BY <2>2, <2>4, <1>1
  <2>6. StepsBetween(MediaTime(x), MediaTime(y)) = -(X - Y)
    BY <2>2, <2>3, <2>5, <1>5 DEF StepsBetween
  <2>7. -(X - Y) = Y - X
    OBVIOUS
  <2>8. QED
    BY <2>1, <2>6, <2>7, <1>4
<1>8. QED
  BY <1>6, <1>7

-----------------------------------------------------------------------------
(* What the two ends know.                                                 *)
PacketForm == [timestamp : Int, sampled : Int]
StatsForm ==
  [received : Nat, new : Nat, base : Nat, high : Nat, saved : Nat, timestamp : Int, time : Int]
HeardForm == [numbers : Seq(Nat), way : Int, before : Int, rated : BOOLEAN]
BlockForm ==
  [expected : Int, new : Int, lost : Int, lsr : Int, dlsr : Int, heard : BOOLEAN,
   way : Int, sent : Int]

InTime(t) == t \in StartTime .. moment
ReportsForm ==
  /\ moment \in StartTime .. StartTime + MaxTicks
  /\ packetsOut \in Seq(PacketForm) /\ frame \in [time : Int, timestamp : Int]
  /\ stats \in StatsForm /\ heardOf \in HeardForm /\ unitKnown \in BOOLEAN
  /\ build \in [first : BOOLEAN, time : Int] /\ blocksOut \in Seq(BlockForm)
  /\ deviation \in Int

(* The sender's clocks: packets, and reports, which the receiver may know. *)
PacketsTied ==
  /\ \A k \in 1 .. Len(packetsOut) :
       /\ InTime(packetsOut[k].sampled + TransmissionDelay)
       /\ packetsOut[k].timestamp = MediaTime(packetsOut[k].sampled)
  /\ packetsOut # <<>> => frame.timestamp = MediaTime(frame.time - TransmissionDelay)
Tied(r) == r.ntp \in Int /\ InTime(r.ntp) /\ r.rtp = MediaTime(r.ntp)
Known(x) ==
  x # NoInfo =>
    /\ Tied(x) /\ x.at \in Int /\ x.ntp <= x.at - Skew /\ x.at <= There
    /\ x.took = x.at - Skew - x.ntp
ReportsTied ==
  /\ \A r \in reportsOut : Tied(r)
  /\ Known(SRinf) /\ Known(SRprevinf)
  /\ SRprevinf # NoInfo => SRinf # NoInfo

(* The receiver's count, and the last packet it saw.                       *)
Counts ==
  /\ stats.new <= stats.received /\ stats.received = Len(heardOf.numbers)
  /\ stats.base <= stats.saved /\ stats.saved <= stats.high
  /\ stats.received = 0 => blocksOut = <<>>
  /\ stats.received > 0 /\ stats.new = 0 => ~build.first /\ stats.time <= build.time
LastSeen ==
  stats.received > 0 =>
    /\ stats.time <= There
    /\ \E x \in Int :
         /\ InTime(x + TransmissionDelay) /\ stats.timestamp = MediaTime(x)
         /\ heardOf.way = ClockRate * (stats.time - x)

(* The blocks: each has the times of a report that was heard, and the      *)
(* losses of the interval since the one before it.                         *)
Answers(b) ==
  /\ b.sent \in Int /\ InTime(b.sent)
  /\ b.heard =>
       \E ntp \in Int, came \in Int :
         /\ StartTime <= ntp /\ ntp <= came /\ came <= b.sent
         /\ b.lsr = Turn(ntp) /\ b.dlsr = Turn(b.sent - came) /\ b.way = came - ntp
LostUpTo(bs, i) == IF i = 0 THEN 0 ELSE bs[i].lost
Chain(bs, lost) ==
  /\ \A i \in 1 .. Len(bs) :
       /\ Answers(bs[i])
       /\ bs[i].new > 0 \/ (i > 1 /\ SaysAgain(bs[i], bs[i - 1]))
       /\ bs[i].expected - bs[i].new = bs[i].lost - LostUpTo(bs, i - 1)
  /\ LostUpTo(bs, Len(bs)) = lost
LostSoFar == stats.saved - stats.base - (stats.received - stats.new)
BlocksAnswer ==
  /\ Chain(blocksOut, LostSoFar)
  /\ RRinf # NoInfo =>
       Answers(RRinf.block) /\ RRinf.at \in RRinf.block.sent .. moment

ReportsInv ==
  /\ ReportsForm /\ PacketsTied /\ ReportsTied /\ Counts /\ LastSeen /\ BlocksAnswer
  /\ JitterIsChangeOfWay

LEMMA ReportsStart == ReportsInit => ReportsInv
<1> SUFFICES ASSUME ReportsInit PROVE ReportsInv
  OBVIOUS
<1>1. /\ StartTime \in Nat /\ MaxTicks \in Nat /\ moment = StartTime
      /\ packetsOut = <<>> /\ frame = [time |-> 0, timestamp |-> 0] /\ reportsOut = {}
      /\ stats = [received |-> 0, new |-> 0, base |-> 0, high |-> 0, saved |-> 0,
                  timestamp |-> 0, time |-> 0]
      /\ deviation = 0 /\ unitKnown \in BOOLEAN
      /\ SRinf = NoInfo /\ SRprevinf = NoInfo
      /\ build = [first |-> TRUE, time |-> 0]
      /\ blocksOut = <<>> /\ RRinf = NoInfo
      /\ heardOf = [numbers |-> <<>>, way |-> 0, before |-> 0, rated |-> FALSE]
  BY ShortTimes DEF ReportsInit
<1>2. ReportsForm
  <2>1. moment \in StartTime .. StartTime + MaxTicks
    BY <1>1
  <2>2. packetsOut \in Seq(PacketForm) /\ blocksOut \in Seq(BlockForm)
    BY <1>1
  <2>3. frame \in [time : Int, timestamp : Int] /\ build \in [first : BOOLEAN, time : Int]
    BY <1>1
  <2>4. stats \in StatsForm
    BY <1>1 DEF StatsForm
  <2>5. heardOf \in HeardForm
    <3>1. <<>> \in Seq(Nat)
      OBVIOUS
    <3>2. QED
      BY <1>1, <3>1 DEF HeardForm
  <2>6. QED
    BY <1>1, <2>1, <2>2, <2>3, <2>4, <2>5 DEF ReportsForm
<1>3. PacketsTied
  BY <1>1 DEF PacketsTied
<1>4. ReportsTied
  BY <1>1 DEF ReportsTied, Known
<1>5. Counts
  BY <1>1 DEF Counts
<1>6. LastSeen
  BY <1>1 DEF LastSeen
<1>7. BlocksAnswer
  <2>1. LostSoFar = 0
    BY <1>1 DEF LostSoFar
  <2>2. Chain(blocksOut, 0)
    BY <1>1 DEF Chain, LostUpTo
  <2>3. QED
    BY <1>1, <2>1, <2>2 DEF BlocksAnswer
<1>8. JitterIsChangeOfWay
  BY <1>1 DEF JitterIsChangeOfWay
<1>9. QED
  BY <1>2, <1>3, <1>4, <1>5, <1>6, <1>7, <1>8 DEF ReportsInv

(* What a step leaves alone.                                               *)
LEMMA PacketsLeft ==
  ASSUME PacketsTied, UNCHANGED <<moment, packetsOut, frame>>
  PROVE  PacketsTied'
BY DEF PacketsTied, InTime

LEMMA ReportsLeft ==
  ASSUME ReportsTied, UNCHANGED <<moment, reportsOut, SRinf, SRprevinf>>
  PROVE  ReportsTied'
BY DEF ReportsTied, Tied, Known, InTime, There

LEMMA CountsLeft ==
  ASSUME Counts, UNCHANGED <<stats, heardOf, build, blocksOut>>
  PROVE  Counts'
BY DEF Counts

LEMMA SeenLeft ==
  ASSUME LastSeen, UNCHANGED <<moment, stats, heardOf>>
  PROVE  LastSeen'
BY DEF LastSeen, InTime, There

LEMMA BlocksLeft ==
  ASSUME BlocksAnswer, UNCHANGED <<moment, blocksOut, stats, RRinf>>
  PROVE  BlocksAnswer'
<1>1. LostSoFar' = LostSoFar
  BY DEF LostSoFar
<1>2. Chain(blocksOut, LostSoFar)
  BY DEF BlocksAnswer
<1>3. Chain(blocksOut, LostSoFar)'
  BY <1>1, <1>2 DEF Chain, LostUpTo, Answers, InTime
<1>4. (RRinf # NoInfo =>
         Answers(RRinf.block) /\ RRinf.at \in RRinf.block.sent .. moment)'
  BY DEF BlocksAnswer, Answers, InTime
<1>5. QED
  BY <1>3, <1>4 DEF BlocksAnswer

LEMMA JitterLeft ==
  ASSUME JitterIsChangeOfWay, UNCHANGED <<heardOf, deviation>>
  PROVE  JitterIsChangeOfWay'
BY DEF JitterIsChangeOfWay

(* The clock goes on.                                                      *)
LEMMA ClockGoesOn == ReportsInv /\ ReportClock => ReportsInv'
<1> SUFFICES ASSUME ReportsInv, ReportClock PROVE ReportsInv'
  OBVIOUS
<1>1. /\ moment < StartTime + MaxTicks /\ moment' = moment + 1
      /\ UNCHANGED <<packetsOut, frame, reportsOut, stats, deviation, unitKnown, heardOf,
                     SRinf, SRprevinf, build, blocksOut, RRinf>>
  BY DEF ReportClock, sentvars, statvars, srvars, rrvars
<1>2. /\ ReportsForm /\ PacketsTied /\ ReportsTied /\ Counts /\ LastSeen /\ BlocksAnswer
      /\ JitterIsChangeOfWay
  BY DEF ReportsInv
<1>3. /\ StartTime \in Nat /\ Skew \in Nat /\ MaxTicks \in Nat /\ moment \in Int
  BY <1>2, ShortTimes DEF ReportsForm
<1>4. \A t : InTime(t) => InTime(t)'
  BY <1>1, <1>3 DEF InTime
<1>5. There \in Int /\ There' = There + 1
  BY <1>1, <1>3 DEF There
<1>6. ReportsForm'
  BY <1>1, <1>2, <1>3 DEF ReportsForm
<1>7. PacketsTied'
  BY <1>1, <1>2, <1>4 DEF PacketsTied
<1>8. ReportsTied'
  <2>1. \A r : Tied(r) => Tied(r)'
    BY <1>4 DEF Tied
  <2>2. Known(SRinf)' /\ Known(SRprevinf)'
    <3>1. Known(SRinf) /\ Known(SRprevinf)
      BY <1>2 DEF ReportsTied
    <3>2. QED
      BY <1>1, <1>3, <1>5, <2>1, <3>1 DEF Known
  <2>3. QED
    BY <1>1, <1>2, <2>1, <2>2 DEF ReportsTied
<1>9. LastSeen'
  <2>1. stats.received > 0 => stats.time \in Int
    BY <1>2 DEF ReportsForm, StatsForm
  <2>2. QED
    BY <1>1, <1>2, <1>4, <1>5, <2>1 DEF LastSeen
<1>10. BlocksAnswer'
  <2>1. \A b : Answers(b) => Answers(b)'
    BY <1>4 DEF Answers
  <2>2. RRinf # NoInfo => RRinf.block.sent \in Int
    BY <1>2 DEF BlocksAnswer, Answers
  <2>3. LostSoFar' = LostSoFar
    BY <1>1 DEF LostSoFar
  <2>4. Chain(blocksOut, LostSoFar)
    BY <1>2 DEF BlocksAnswer
  <2>5. Chain(blocksOut, LostSoFar)'
    BY <1>1, <2>1, <2>3, <2>4 DEF Chain, LostUpTo
  <2>6. (RRinf # NoInfo =>
           Answers(RRinf.block) /\ RRinf.at \in RRinf.block.sent .. moment)'
    BY <1>1, <1>2, <1>3, <2>1, <2>2 DEF BlocksAnswer
  <2>7. QED
    BY <2>5, <2>6 DEF BlocksAnswer
<1>11. QED
  BY <1>1, <1>2, <1>6, <1>7, <1>8, <1>9, <1>10, CountsLeft, JitterLeft DEF ReportsInv

(* A packet that is sent has the timestamp of its sample.                  *)
LEMMA FrameSent == ReportsInv /\ SendFrame => ReportsInv'
<1> SUFFICES ASSUME ReportsInv, SendFrame PROVE ReportsInv'
  OBVIOUS
<1>1. PICK s \in Int : s = moment - TransmissionDelay
  BY ShortTimes DEF ReportsInv, ReportsForm
<1>2. PICK p : p = [timestamp |-> MediaTime(s), sampled |-> s]
  OBVIOUS
<1>3. /\ packetsOut' = Append(packetsOut, p)
      /\ frame' = IF packetsOut = <<>> \/ MediaTime(s) # frame.timestamp
                  THEN [time |-> moment, timestamp |-> MediaTime(s)] ELSE frame
      /\ UNCHANGED <<moment, reportsOut, stats, deviation, unitKnown, heardOf,
                     SRinf, SRprevinf, build, blocksOut, RRinf>>
  BY <1>1, <1>2 DEF SendFrame, statvars, srvars, rrvars
<1>4. /\ ReportsForm /\ PacketsTied /\ ReportsTied /\ Counts /\ LastSeen /\ BlocksAnswer
      /\ JitterIsChangeOfWay
  BY DEF ReportsInv
<1>5. /\ StartTime \in Nat /\ TransmissionDelay \in Nat /\ MaxTicks \in Nat
      /\ moment \in StartTime .. StartTime + MaxTicks /\ ClockRate \in Nat
  BY <1>4, ShortTimes DEF ReportsForm
<1>6. MediaTime(s) \in Int
  <2>1. ClockRate * s \in Int
    BY <1>5
  <2>2. QED
    BY <2>1, Turning, ShortTimes DEF MediaTime
<1>7. p \in PacketForm /\ p.sampled = s /\ p.timestamp = MediaTime(s)
  BY <1>2, <1>6 DEF PacketForm
<1>8. packetsOut \in Seq(PacketForm)
  BY <1>4 DEF ReportsForm
<1>9. packetsOut' \in Seq(PacketForm)
  BY <1>3, <1>7, <1>8
<1>10. ReportsForm'
  BY <1>3, <1>4, <1>5, <1>6, <1>9 DEF ReportsForm
<1>11. PacketsTied'
  <2>1. InTime(s + TransmissionDelay)
    BY <1>1, <1>5 DEF InTime
  <2>2. \A t : InTime(t)' = InTime(t)
    BY <1>3 DEF InTime
  <2>3. ASSUME NEW k \in 1 .. Len(packetsOut')
        PROVE  /\ InTime(packetsOut'[k].sampled + TransmissionDelay)
               /\ packetsOut'[k].timestamp = MediaTime(packetsOut'[k].sampled)
    <3>1. CASE k \in 1 .. Len(packetsOut)
      <4>1. packetsOut'[k] = packetsOut[k]
        BY <1>3, <1>7, <1>8, <3>1
      <4>2. QED
        BY <1>4, <3>1, <4>1 DEF PacketsTied
    <3>2. CASE k = Len(packetsOut) + 1
      <4>1. packetsOut'[k] = p
        BY <1>3, <1>7, <1>8, <3>2
      <4>2. QED
        BY <1>7, <2>1, <4>1
    <3>3. QED
      BY <1>3, <1>7, <1>8, <3>1, <3>2
  <2>4. frame'.timestamp = MediaTime(frame'.time - TransmissionDelay)
    <3>1. CASE packetsOut = <<>> \/ MediaTime(s) # frame.timestamp
      BY <1>1, <1>3, <3>1
    <3>2. CASE ~(packetsOut = <<>> \/ MediaTime(s) # frame.timestamp)
      BY <1>3, <1>4, <3>2 DEF PacketsTied
    <3>3. QED
      BY <3>1, <3>2
  <2>5. QED
    BY <1>3, <2>2, <2>3, <2>4 DEF PacketsTied, InTime
<1>12. QED
  BY <1>3, <1>4, <1>10, <1>11, ReportsLeft, CountsLeft, SeenLeft, BlocksLeft, JitterLeft
     DEF ReportsInv

LEMMA RestSent == ReportsInv /\ SendRestOfFrame => ReportsInv'
<1> SUFFICES ASSUME ReportsInv, SendRestOfFrame PROVE ReportsInv'
  OBVIOUS
<1>1. PICK p : p = packetsOut[Len(packetsOut)]
  OBVIOUS
<1>2. /\ packetsOut # <<>> /\ packetsOut' = Append(packetsOut, p)
      /\ UNCHANGED <<moment, frame, reportsOut, stats, deviation, unitKnown, heardOf,
                     SRinf, SRprevinf, build, blocksOut, RRinf>>
  BY <1>1 DEF SendRestOfFrame, statvars, srvars, rrvars
<1>3. /\ ReportsForm /\ PacketsTied /\ ReportsTied /\ Counts /\ LastSeen /\ BlocksAnswer
      /\ JitterIsChangeOfWay
  BY DEF ReportsInv
<1>4. packetsOut \in Seq(PacketForm)
  BY <1>3 DEF ReportsForm
<1>5. Len(packetsOut) \in 1 .. Len(packetsOut)
  BY <1>2, <1>4
<1>6. p \in PacketForm
  BY <1>1, <1>4, <1>5
<1>7. packetsOut' \in Seq(PacketForm)
  BY <1>2, <1>4, <1>6
<1>8. ReportsForm'
  BY <1>2, <1>3, <1>7 DEF ReportsForm
<1>9. PacketsTied'
  <2>1. \A t : InTime(t)' = InTime(t)
    BY <1>2 DEF InTime
  <2>2. ASSUME NEW k \in 1 .. Len(packetsOut')
        PROVE  /\ InTime(packetsOut'[k].sampled + TransmissionDelay)
               /\ packetsOut'[k].timestamp = MediaTime(packetsOut'[k].sampled)
    <3>1. PICK j \in 1 .. Len(packetsOut) : packetsOut'[k] = packetsOut[j]
      <4>1. CASE k \in 1 .. Len(packetsOut)
        BY <1>2, <1>4, <1>6, <4>1
      <4>2. CASE k = Len(packetsOut) + 1
        BY <1>1, <1>2, <1>4, <1>5, <1>6, <4>2
      <4>3. QED
        BY <1>2, <1>4, <1>6, <4>1, <4>2
    <3>2. QED
      BY <1>3, <3>1 DEF PacketsTied
  <2>3. QED
    BY <1>2, <1>3, <2>1, <2>2 DEF PacketsTied, InTime
<1>10. QED
  BY <1>2, <1>3, <1>8, <1>9, ReportsLeft, CountsLeft, SeenLeft, BlocksLeft, JitterLeft
     DEF ReportsInv

(* A sender report ties its NTP time to the timestamp of that instant.     *)
LEMMA ReportSent == ReportsInv /\ SenderReport => ReportsInv'
<1> SUFFICES ASSUME ReportsInv, SenderReport PROVE ReportsInv'
  OBVIOUS
<1>1. /\ packetsOut # <<>>
      /\ reportsOut' = reportsOut \cup {[ntp |-> moment, rtp |-> ReportTimestamp]}
      /\ UNCHANGED <<moment, packetsOut, frame, stats, deviation, unitKnown, heardOf,
                     SRinf, SRprevinf, build, blocksOut, RRinf>>
  BY DEF SenderReport, statvars, srvars, rrvars
<1>2. /\ ReportsForm /\ PacketsTied /\ ReportsTied /\ Counts /\ LastSeen /\ BlocksAnswer
      /\ JitterIsChangeOfWay
  BY DEF ReportsInv
<1>3. /\ StartTime \in Nat /\ TransmissionDelay \in Nat /\ MaxTicks \in Nat
      /\ moment \in StartTime .. StartTime + MaxTicks /\ moment \in Int
      /\ ClockRate \in Nat /\ frame.time \in Int
  BY <1>2, ShortTimes DEF ReportsForm
<1>4. ReportTimestamp = MediaTime(moment)
  <2>1. PICK a \in Int : a = frame.time - TransmissionDelay
    BY <1>3
  <2>2. PICK b \in Int : b = moment - a
    BY <1>3
  <2>3. moment - frame.time + TransmissionDelay = b
    BY <1>3, <2>1, <2>2
  <2>4. frame.timestamp = Turn(ClockRate * a)
    BY <1>1, <1>2, <2>1 DEF PacketsTied, MediaTime
  <2>5. ClockRate * a \in Int /\ ClockRate * b \in Int
    BY <1>3
  <2>6. Turn(Turn(ClockRate * a) + ClockRate * b) = Turn(ClockRate * a + ClockRate * b)
    BY <2>5, Turning
  <2>7. ClockRate * a + ClockRate * b = ClockRate * moment
    <3>1. moment = a + b
      BY <1>3, <2>2
    <3>2. ClockRate * (a + b) = ClockRate * a + ClockRate * b
      BY <1>3
    <3>3. QED
      BY <3>1, <3>2
  <2>8. QED
    BY <2>3, <2>4, <2>6, <2>7 DEF ReportTimestamp, MediaTime
<1>5. ReportsTied'
  <2>1. Tied([ntp |-> moment, rtp |-> ReportTimestamp])
    BY <1>3, <1>4 DEF Tied, InTime
  <2>2. \A r : Tied(r)' = Tied(r)
    BY <1>1 DEF Tied, InTime
  <2>3. Known(SRinf)' /\ Known(SRprevinf)'
    BY <1>1, <1>2 DEF ReportsTied, Known, Tied, InTime, There
  <2>4. QED
    BY <1>1, <1>2, <2>1, <2>2, <2>3 DEF ReportsTied
<1>6. ReportsForm'
  BY <1>1, <1>2 DEF ReportsForm
<1>7. QED
  BY <1>1, <1>2, <1>5, <1>6, PacketsLeft, CountsLeft, SeenLeft, BlocksLeft, JitterLeft
     DEF ReportsInv

(* The report that was heard left no later than it came.                   *)
LEMMA ReportHeard ==
  ASSUME NEW r \in reportsOut, ReportsInv, HearSenderReport(r)
  PROVE  ReportsInv'
<1>1. /\ SRinf' = ReportArrived(r) /\ SRprevinf' = SRinf
      /\ UNCHANGED <<moment, packetsOut, frame, reportsOut, stats, deviation, unitKnown,
                     heardOf, build, blocksOut, RRinf>>
  BY DEF HearSenderReport, sentvars, statvars, rrvars
<1>2. /\ ReportsForm /\ PacketsTied /\ ReportsTied /\ Counts /\ LastSeen /\ BlocksAnswer
      /\ JitterIsChangeOfWay
  BY DEF ReportsInv
<1>3. /\ StartTime \in Nat /\ Skew \in Nat /\ moment \in Int
  BY <1>2, ShortTimes DEF ReportsForm
<1>4. Tied(r)
  BY <1>2 DEF ReportsTied
<1>5. \A x : Tied(x)' = Tied(x) /\ Known(x)' = Known(x)
  BY <1>1 DEF Known, Tied, InTime, There
<1>6. Known(ReportArrived(r))
  BY <1>3, <1>4 DEF Known, Tied, InTime, ReportArrived, There
<1>10. ReportArrived(r) # NoInfo
  BY DEF ReportArrived, NoInfo
<1>7. ReportsTied'
  BY <1>1, <1>2, <1>5, <1>6, <1>10 DEF ReportsTied, Known, Tied, InTime, There
<1>8. ReportsForm'
  BY <1>1, <1>2 DEF ReportsForm
<1>9. QED
  BY <1>1, <1>2, <1>7, <1>8, PacketsLeft, CountsLeft, SeenLeft, BlocksLeft, JitterLeft
     DEF ReportsInv

(* The timestamps of two packets say how much later one was sampled, and   *)
(* two sender reports in their order say how fast the media clock goes.    *)
LEMMA RateEstimated ==
  ASSUME ReportsInv, Estimates
  PROVE  EstimatedRate = ClockRate
<1>1. /\ ClockRate \in Nat \ {0} /\ StartTime \in Nat /\ MaxTicks \in Nat
      /\ moment \in StartTime .. StartTime + MaxTicks
  BY ShortTimes DEF ReportsInv, ReportsForm
<1>2. /\ SRinf # NoInfo /\ SRprevinf # NoInfo /\ SRprevinf.ntp < SRinf.ntp
      /\ Tied(SRinf) /\ Tied(SRprevinf)
  <2>1. SRprevinf # NoInfo /\ SRprevinf.ntp < SRinf.ntp
    BY DEF Estimates
  <2>2. SRinf # NoInfo
    BY <2>1 DEF ReportsInv, ReportsTied
  <2>3. QED
    BY <2>1, <2>2 DEF ReportsInv, ReportsTied, Known
<1>3. PICK x \in Int : x = SRprevinf.ntp
  BY <1>2 DEF Tied
<1>4. PICK y \in Int : y = SRinf.ntp
  BY <1>2 DEF Tied
<1>5. y - x \in 0 .. MaxTicks /\ y - x # 0 /\ y >= x
  BY <1>1, <1>2, <1>3, <1>4 DEF Tied, InTime
<1>6. Turn(MediaTime(y) - MediaTime(x)) = ClockRate * (y - x)
  BY <1>5, StepsTold
<1>7. PICK d \in Nat \ {0} : d = y - x
  BY <1>5
<1>8. (ClockRate * d) \div d = ClockRate
  BY <1>1, Divided
<1>9. EstimatedRate = Turn(MediaTime(y) - MediaTime(x)) \div (y - x)
  BY <1>2, <1>3, <1>4 DEF EstimatedRate, Tied
<1>10. QED
  BY <1>6, <1>7, <1>8, <1>9

LEMMA WaysCompared ==
  ASSUME ReportsInv, NEW k \in DOMAIN packetsOut, stats.received > 0
  PROVE  Deviation(packetsOut[k], ClockRate) =
           Absolute(ClockRate * (There - packetsOut[k].sampled) - heardOf.way)
<1>1. PICK p : p = packetsOut[k]
  OBVIOUS
<1>2. /\ ClockRate \in Nat \ {0} /\ StartTime \in Nat /\ MaxTicks \in Nat
      /\ TransmissionDelay \in Nat /\ moment \in StartTime .. StartTime + MaxTicks
      /\ Skew \in Nat
  BY ShortTimes DEF ReportsInv, ReportsForm
<1>3. PICK y \in Int : y = p.sampled
  <2>1. packetsOut \in Seq(PacketForm)
    BY DEF ReportsInv, ReportsForm
  <2>2. p \in PacketForm
    BY <1>1, <2>1
  <2>3. QED
    BY <2>2 DEF PacketForm
<1>4. InTime(y + TransmissionDelay) /\ p.timestamp = MediaTime(y)
  <2>1. k \in 1 .. Len(packetsOut)
    BY DEF ReportsInv, ReportsForm
  <2>2. QED
    BY <1>1, <1>3, <2>1 DEF ReportsInv, PacketsTied
<1>5. PICK x \in Int : /\ InTime(x + TransmissionDelay) /\ stats.timestamp = MediaTime(x)
                       /\ heardOf.way = ClockRate * (stats.time - x)
  BY DEF ReportsInv, LastSeen
<1>6. x - y \in 0 .. MaxTicks \/ y - x \in 0 .. MaxTicks
  BY <1>2, <1>4, <1>5 DEF InTime
<1>7. StepsBetween(stats.timestamp, p.timestamp) = ClockRate * (y - x)
  BY <1>4, <1>5, <1>6, StepsTold
<1>8. PICK t \in Int : t = stats.time
  BY DEF ReportsInv, ReportsForm, StatsForm
<1>9. PICK u \in Int : u = There
  BY <1>2 DEF There
<1>10. ClockRate * (u - t) - ClockRate * (y - x) = ClockRate * (u - y) - ClockRate * (t - x)
  BY <1>2
<1>11. QED
  BY <1>1, <1>3, <1>5, <1>7, <1>8, <1>9, <1>10 DEF Deviation

(* A packet that comes is counted, late or repeated as it may be.          *)
LEMMA PacketProcessed ==
  ASSUME NEW k \in DOMAIN packetsOut, ReportsInv, ProcessPacket(k)
  PROVE  ReportsInv'
<1>1. PICK p : p = packetsOut[k]
  OBVIOUS
<1>2. /\ stats' = Counted(k, p)
      /\ deviation' = IF stats.received = 0 THEN 0
                      ELSE IF unitKnown THEN Deviation(p, ClockRate)
                      ELSE IF Estimates THEN Deviation(p, EstimatedRate)
                      ELSE 0
      /\ heardOf' = [numbers |-> Append(heardOf.numbers, k),
                     way |-> ClockRate * (There - p.sampled), before |-> heardOf.way,
                     rated |-> unitKnown \/ Estimates]
      /\ UNCHANGED <<moment, packetsOut, frame, reportsOut, unitKnown, SRinf, SRprevinf,
                     build, blocksOut, RRinf>>
  BY <1>1 DEF ProcessPacket, sentvars, srvars, rrvars
<1>3. /\ ReportsForm /\ PacketsTied /\ ReportsTied /\ Counts /\ LastSeen /\ BlocksAnswer
      /\ JitterIsChangeOfWay
  BY DEF ReportsInv
<1>4. /\ ClockRate \in Nat \ {0} /\ StartTime \in Nat /\ MaxTicks \in Nat
      /\ TransmissionDelay \in Nat /\ moment \in StartTime .. StartTime + MaxTicks
      /\ Skew \in Nat /\ moment \in Int
  BY <1>3, ShortTimes DEF ReportsForm
<1>5. packetsOut \in Seq(PacketForm) /\ k \in 1 .. Len(packetsOut) /\ k \in Nat \ {0}
  BY <1>3 DEF ReportsForm
<1>6. p \in PacketForm /\ p.sampled \in Int /\ p.timestamp \in Int
  <2>1. p \in PacketForm
    BY <1>1, <1>5
  <2>2. QED
    BY <2>1 DEF PacketForm
<1>7. /\ InTime(p.sampled + TransmissionDelay) /\ p.timestamp = MediaTime(p.sampled)
  BY <1>1, <1>3, <1>5 DEF PacketsTied
<1>8. There \in Int /\ There' = There
  BY <1>2, <1>4 DEF There
<1>9. stats \in StatsForm /\ heardOf \in HeardForm
  BY <1>3 DEF ReportsForm
<1>10. /\ stats'.received = stats.received + 1 /\ stats'.new = stats.new + 1
       /\ stats'.timestamp = p.timestamp /\ stats'.time = There
       /\ stats.received = 0 => stats'.base = k - 1 /\ stats'.high = k /\ stats'.saved = k - 1
       /\ stats.received # 0 =>
            /\ stats'.base = stats.base /\ stats'.saved = stats.saved
            /\ stats'.high = IF k > stats.high THEN k ELSE stats.high
       /\ stats' \in StatsForm
  <2>1. PICK known : known = [stats EXCEPT !.received = @ + 1, !.new = @ + 1,
                                !.timestamp = p.timestamp, !.time = There]
    OBVIOUS
  <2>2. /\ known \in StatsForm
        /\ known.received = stats.received + 1 /\ known.new = stats.new + 1
        /\ known.timestamp = p.timestamp /\ known.time = There
        /\ known.base = stats.base /\ known.saved = stats.saved /\ known.high = stats.high
    <3>1. PICK n \in Nat : n = stats.received + 1
      BY <1>9 DEF StatsForm
    <3>2. PICK m \in Nat : m = stats.new + 1
      BY <1>9 DEF StatsForm
    <3>3. PICK s \in Int : s = p.timestamp
      BY <1>6
    <3>4. PICK u \in Int : u = There
      BY <1>8
    <3>5. known = [stats EXCEPT !.received = n, !.new = m, !.timestamp = s, !.time = u]
      BY <2>1, <3>1, <3>2, <3>3, <3>4
    <3>6. PICK w \in StatsForm : w = stats
      BY <1>9
    <3>7. known = [w EXCEPT !.received = n, !.new = m, !.timestamp = s, !.time = u]
      BY <3>5, <3>6
    <3>8. /\ known \in StatsForm /\ known.received = n /\ known.new = m
          /\ known.timestamp = s /\ known.time = u
          /\ known.base = w.base /\ known.saved = w.saved /\ known.high = w.high
      BY <3>7 DEF StatsForm
    <3>9. QED
      BY <3>1, <3>2, <3>3, <3>4, <3>6, <3>8
  <2>3. /\ stats.received = 0 =>
             stats' = [known EXCEPT !.base = k - 1, !.high = k, !.saved = k - 1]
        /\ stats.received # 0 =>
             stats' = [known EXCEPT !.high = IF k > @ THEN k ELSE @]
    BY <1>2, <2>1 DEF Counted
  <2>4. CASE stats.received = 0
    <3>1. k - 1 \in Nat /\ k \in Nat
      BY <1>5
    <3>2. QED
      BY <2>2, <2>3, <2>4, <3>1 DEF StatsForm
  <2>5. CASE stats.received # 0
    <3>1. PICK h \in Nat : h = IF k > stats.high THEN k ELSE stats.high
      BY <1>5, <1>9 DEF StatsForm
    <3>2. stats' = [known EXCEPT !.high = h]
      BY <2>2, <2>3, <2>5, <3>1
    <3>3. QED
      BY <2>2, <2>5, <3>1, <3>2 DEF StatsForm
  <2>6. QED
    BY <2>4, <2>5
<1>11. /\ heardOf.numbers \in Seq(Nat) /\ heardOf.way \in Int
       /\ stats.received \in Nat /\ stats.new \in Nat /\ stats.base \in Nat
       /\ stats.high \in Nat /\ stats.saved \in Nat
  BY <1>9 DEF HeardForm, StatsForm
<1>12. /\ heardOf'.numbers = Append(heardOf.numbers, k)
       /\ heardOf'.way = ClockRate * (There - p.sampled) /\ heardOf'.before = heardOf.way
       /\ heardOf'.rated = (unitKnown \/ Estimates)
  BY <1>2
<1>13. heardOf' \in HeardForm
  <2>1. Append(heardOf.numbers, k) \in Seq(Nat)
    BY <1>5, <1>11
  <2>2. ClockRate * (There - p.sampled) \in Int
    BY <1>4, <1>6, <1>8
  <2>3. (unitKnown \/ Estimates) \in BOOLEAN
    OBVIOUS
  <2>4. QED
    BY <1>2, <1>11, <2>1, <2>2, <2>3 DEF HeardForm
<1>14. stats.received # 0 =>
         /\ unitKnown \/ Estimates =>
              deviation' = Absolute(ClockRate * (There - p.sampled) - heardOf.way)
         /\ ~(unitKnown \/ Estimates) => deviation' = 0
  <2>1. stats.received # 0 =>
          Deviation(p, ClockRate) = Absolute(ClockRate * (There - p.sampled) - heardOf.way)
    BY <1>1, <1>11, WaysCompared
  <2>2. Estimates => EstimatedRate = ClockRate
    BY RateEstimated
  <2>3. QED
    BY <1>2, <2>1, <2>2
<1>15. deviation' \in Int
  <2>1. CASE stats.received = 0
    BY <1>2, <2>1
  <2>2. CASE stats.received # 0
    <3>1. PICK a \in Int : a = ClockRate * (There - p.sampled)
      BY <1>4, <1>6, <1>8
    <3>2. Absolute(a - heardOf.way) \in Int
      BY <1>11 DEF Absolute
    <3>3. QED
      BY <1>14, <2>2, <3>1, <3>2
  <2>3. QED
    BY <2>1, <2>2
<1>16. ReportsForm'
  BY <1>2, <1>3, <1>10, <1>13, <1>15 DEF ReportsForm
<1>17. Counts'
  <2>1. Len(heardOf'.numbers) = Len(heardOf.numbers) + 1
    BY <1>11, <1>12, <1>5
  <2>2. stats.new <= stats.received /\ stats.received = Len(heardOf.numbers)
        /\ stats.base <= stats.saved /\ stats.saved <= stats.high
    BY <1>3 DEF Counts
  <2>3. stats'.base <= stats'.saved /\ stats'.saved <= stats'.high
    BY <1>5, <1>10, <1>11, <2>2
  <2>4. QED
    BY <1>10, <1>11, <2>1, <2>2, <2>3 DEF Counts
<1>18. LastSeen'
  BY <1>2, <1>6, <1>7, <1>8, <1>10, <1>12 DEF LastSeen, InTime
<1>19. BlocksAnswer'
  <2>1. Chain(blocksOut, LostSoFar)
    BY <1>3 DEF BlocksAnswer
  <2>2. LostUpTo(blocksOut, Len(blocksOut)) = LostSoFar
    BY <2>1 DEF Chain
  <2>3. LostSoFar' = LostSoFar
    <3>1. CASE stats.received # 0
      <4>1. /\ stats'.received = stats.received + 1 /\ stats'.new = stats.new + 1
            /\ stats'.base = stats.base /\ stats'.saved = stats.saved
        BY <1>10, <3>1
      <4>2. PICK r \in Int, n \in Int : r = stats.received /\ n = stats.new
        BY <1>11
      <4>3. (r + 1) - (n + 1) = r - n
        OBVIOUS
      <4>4. stats'.received = r + 1 /\ stats'.new = n + 1
        BY <4>1, <4>2
      <4>5. QED
        BY <4>1, <4>2, <4>3, <4>4 DEF LostSoFar
    <3>2. CASE stats.received = 0
      <4>1. stats.new = 0 /\ blocksOut = <<>>
        BY <1>3, <1>11, <3>2 DEF Counts
      <4>2. LostSoFar = 0
        BY <2>2, <4>1 DEF LostUpTo
      <4>3. LostSoFar' = 0
        BY <1>5, <1>10, <3>2, <4>1 DEF LostSoFar
      <4>4. QED
        BY <4>2, <4>3
    <3>3. QED
      BY <3>1, <3>2
  <2>4. Chain(blocksOut, LostSoFar)'
    BY <1>2, <2>1, <2>3 DEF Chain, LostUpTo, Answers, InTime
  <2>5. (RRinf # NoInfo =>
           Answers(RRinf.block) /\ RRinf.at \in RRinf.block.sent .. moment)'
    BY <1>2, <1>3 DEF BlocksAnswer, Answers, InTime
  <2>6. QED
    BY <2>4, <2>5 DEF BlocksAnswer
<1>20. JitterIsChangeOfWay'
  <2>1. SUFFICES ASSUME Len(heardOf'.numbers) > 1
                 PROVE  deviation' = IF heardOf'.rated
                                     THEN Absolute(heardOf'.way - heardOf'.before) ELSE 0
    BY DEF JitterIsChangeOfWay
  <2>2. stats.received # 0
    BY <1>3, <1>5, <1>11, <1>12, <2>1 DEF Counts
  <2>3. QED
    BY <1>12, <1>14, <2>2
<1>21. QED
  BY <1>2, <1>3, <1>16, <1>17, <1>18, <1>19, <1>20, PacketsLeft, ReportsLeft DEF ReportsInv

(* A block tells of the last report that was heard.                        *)
LEMMA BlockAnswers ==
  ASSUME NEW s \in StatsForm, ReportsInv
  PROVE  Answers(ReportBlock(s)) /\ ReportBlock(s) \in BlockForm
<1>1. /\ StartTime \in Nat /\ MaxTicks \in Nat /\ Skew \in Nat
      /\ moment \in StartTime .. StartTime + MaxTicks /\ moment \in Int
      /\ Known(SRinf)
  BY ShortTimes DEF ReportsInv, ReportsForm, ReportsTied
<1>2. PICK b : b = ReportBlock(s)
  OBVIOUS
<1>3. b.sent = moment /\ b.heard = (SRinf # NoInfo)
  BY <1>2 DEF ReportBlock
<1>4. CASE SRinf # NoInfo
  <2>1. /\ SRinf.ntp \in Int /\ InTime(SRinf.ntp) /\ SRinf.at \in Int
        /\ SRinf.ntp <= SRinf.at - Skew /\ SRinf.at <= There
        /\ SRinf.took = SRinf.at - Skew - SRinf.ntp
    BY <1>1, <1>4 DEF Known, Tied
  <2>2. PICK ntp \in Int : ntp = SRinf.ntp
    BY <2>1
  <2>3. PICK came \in Int : came = SRinf.at - Skew
    BY <1>1, <2>1
  <2>4. b.lsr = Turn(ntp) /\ b.dlsr = Turn(There - SRinf.at) /\ b.way = SRinf.took
    BY <1>2, <1>4, <2>2 DEF ReportBlock
  <2>5. There - SRinf.at = moment - came
    BY <1>1, <2>1, <2>3 DEF There
  <2>6. StartTime <= ntp /\ ntp <= came /\ came <= moment /\ SRinf.took = came - ntp
    BY <1>1, <2>1, <2>2, <2>3 DEF There, InTime
  <2>7. Answers(b)
    BY <1>1, <1>3, <2>4, <2>5, <2>6 DEF Answers, InTime
  <2>8. Turn(ntp) \in Int /\ Turn(moment - came) \in Int
    <3>1. moment - came \in Int
      BY <1>1
    <3>2. ReportModulus \in Nat
      BY ShortTimes
    <3>3. Turn(ntp) \in 0 .. ReportModulus - 1
      BY Turning
    <3>4. Turn(moment - came) \in 0 .. ReportModulus - 1
      BY <3>1, Turning
    <3>5. QED
      BY <3>2, <3>3, <3>4
  <2>9. b.lsr \in Int /\ b.dlsr \in Int /\ b.way \in Int
    BY <2>4, <2>5, <2>6, <2>8
  <2>10. b \in BlockForm
    <3>1. PICK l \in Int : l = Turn(ntp)
      BY <2>8
    <3>2. PICK d \in Int : d = Turn(moment - came)
      BY <2>8
    <3>3. b = [expected |-> s.high - s.saved, new |-> s.new,
               lost |-> s.high - s.base - s.received,
               lsr |-> l, dlsr |-> d, heard |-> SRinf # NoInfo, way |-> came - ntp,
               sent |-> moment]
      BY <1>2, <1>4, <2>2, <2>5, <2>6, <3>1, <3>2 DEF ReportBlock
    <3>4. QED
      BY <1>1, <3>3 DEF BlockForm, StatsForm
  <2>11. QED
    BY <1>2, <2>7, <2>10
<1>5. CASE SRinf = NoInfo
  <2>1. b = [expected |-> s.high - s.saved, new |-> s.new,
             lost |-> s.high - s.base - s.received,
             lsr |-> 0, dlsr |-> 0, heard |-> SRinf # NoInfo, way |-> 0, sent |-> moment]
    BY <1>2, <1>5 DEF ReportBlock
  <2>2. b \in BlockForm
    <3>1. PICK l \in Int : l = 0
      OBVIOUS
    <3>2. b = [expected |-> s.high - s.saved, new |-> s.new,
               lost |-> s.high - s.base - s.received,
               lsr |-> l, dlsr |-> l, heard |-> SRinf # NoInfo, way |-> l, sent |-> moment]
      BY <2>1, <3>1
    <3>3. QED
      BY <1>1, <3>2 DEF BlockForm, StatsForm
  <2>3. Answers(b)
    <3>1. ~b.heard
      BY <1>5, <2>1
    <3>2. b.sent \in Int /\ InTime(b.sent)
      BY <1>1, <1>3 DEF InTime
    <3>3. QED
      BY <3>1, <3>2 DEF Answers
  <2>4. QED
    BY <1>2, <2>2, <2>3
<1>6. QED
  BY <1>4, <1>5

(* One more block in the chain of blocks.                                  *)
LEMMA ChainGrows ==
  ASSUME NEW bs \in Seq(BlockForm), NEW lost \in Int, Chain(bs, lost),
         NEW b \in BlockForm, Answers(b),
         b.new > 0 \/ (Len(bs) > 0 /\ SaysAgain(b, bs[Len(bs)])),
         b.expected - b.new = b.lost - lost
  PROVE  /\ Append(bs, b) \in Seq(BlockForm) /\ Chain(Append(bs, b), b.lost)
         /\ Len(Append(bs, b)) = Len(bs) + 1 /\ Append(bs, b)[Len(bs) + 1] = b
<1>1. PICK cs : cs = Append(bs, b)
  OBVIOUS
<1>2. /\ cs \in Seq(BlockForm) /\ Len(cs) = Len(bs) + 1 /\ Len(bs) \in Nat
      /\ cs[Len(bs) + 1] = b /\ \A i \in 1 .. Len(bs) : cs[i] = bs[i]
  BY <1>1
<1>3. \A i \in 0 .. Len(bs) : LostUpTo(cs, i) = LostUpTo(bs, i)
  BY <1>2 DEF LostUpTo
<1>4. ASSUME NEW i \in 1 .. Len(cs)
      PROVE  /\ Answers(cs[i])
             /\ cs[i].new > 0 \/ (i > 1 /\ SaysAgain(cs[i], cs[i - 1]))
             /\ cs[i].expected - cs[i].new = cs[i].lost - LostUpTo(cs, i - 1)
  <2>1. LostUpTo(cs, i - 1) = LostUpTo(bs, i - 1)
    BY <1>2, <1>3
  <2>2. CASE i \in 1 .. Len(bs)
    <3>1. cs[i] = bs[i] /\ (i > 1 => cs[i - 1] = bs[i - 1])
      BY <1>2, <2>2
    <3>2. /\ Answers(bs[i])
          /\ bs[i].new > 0 \/ (i > 1 /\ SaysAgain(bs[i], bs[i - 1]))
          /\ bs[i].expected - bs[i].new = bs[i].lost - LostUpTo(bs, i - 1)
      BY <2>2 DEF Chain
    <3>3. QED
      BY <2>1, <3>1, <3>2
  <2>3. CASE i = Len(bs) + 1
    <3>1. cs[i] = b /\ i - 1 = Len(bs) /\ (Len(bs) > 0 => cs[i - 1] = bs[Len(bs)])
      BY <1>2, <2>3
    <3>2. LostUpTo(bs, i - 1) = lost
      BY <3>1 DEF Chain
    <3>3. Len(bs) > 0 => i > 1
      BY <1>2, <2>3
    <3>4. QED
      BY <2>1, <3>1, <3>2, <3>3
  <2>4. QED
    BY <1>2, <2>2, <2>3
<1>5. LostUpTo(cs, Len(cs)) = b.lost
  BY <1>2 DEF LostUpTo
<1>6. QED
  BY <1>1, <1>2, <1>4, <1>5 DEF Chain

(* A report is built; the interval ends if its block is sent.              *)
LEMMA ReportBuilt ==
  ASSUME NEW n \in 0 .. 2, ReportsInv, BuildReport(n)
  PROVE  ReportsInv'
<1>1. /\ build' = [first |-> FALSE, time |-> There]
      /\ blocksOut' = IF ReportDue THEN BlocksFor(n) ELSE blocksOut
      /\ stats' = IF ReportDue /\ n > 0 THEN StartNewInterval(stats) ELSE stats
      /\ UNCHANGED <<moment, packetsOut, frame, reportsOut, deviation, unitKnown, heardOf,
                     SRinf, SRprevinf, RRinf>>
  BY DEF BuildReport, sentvars, srvars
<1>2. /\ ReportsForm /\ PacketsTied /\ ReportsTied /\ Counts /\ LastSeen /\ BlocksAnswer
      /\ JitterIsChangeOfWay
  BY DEF ReportsInv
<1>3. /\ StartTime \in Nat /\ Skew \in Nat /\ moment \in Int /\ There \in Int
      /\ There' = There
  BY <1>1, <1>2, ShortTimes DEF ReportsForm, There
<1>4. stats \in StatsForm /\ blocksOut \in Seq(BlockForm)
  BY <1>2 DEF ReportsForm
<1>5. /\ stats.received \in Nat /\ stats.new \in Nat /\ stats.base \in Nat
      /\ stats.high \in Nat /\ stats.saved \in Nat /\ stats.time \in Int
  BY <1>4 DEF StatsForm
<1>6. build'.time = There /\ ~build'.first
  BY <1>1
<1>7. build' \in [first : BOOLEAN, time : Int]
  BY <1>1, <1>3
<1>8. stats.received > 0 => stats.time <= There
  BY <1>2 DEF LastSeen
<1>9. /\ stats.new <= stats.received /\ stats.received = Len(heardOf.numbers)
      /\ stats.base <= stats.saved /\ stats.saved <= stats.high
      /\ stats.received = 0 => blocksOut = <<>>
      /\ stats.received > 0 /\ stats.new = 0 => ~build.first /\ stats.time <= build.time
  BY <1>2 DEF Counts
<1>10. CASE ~ReportDue \/ n = 0
  <2>1. blocksOut' = blocksOut /\ stats' = stats
    BY <1>1, <1>10 DEF BlocksFor
  <2>2. Counts'
    BY <1>1, <1>6, <1>8, <1>9, <2>1 DEF Counts
  <2>3. ReportsForm'
    BY <1>1, <1>2, <1>7, <2>1 DEF ReportsForm
  <2>4. QED
    BY <1>1, <1>2, <2>1, <2>2, <2>3, PacketsLeft, ReportsLeft, SeenLeft, BlocksLeft,
       JitterLeft DEF ReportsInv
<1>11. CASE ReportDue /\ n \in 1 .. 2
  <2>1. PICK s : s = StartNewInterval(stats)
    OBVIOUS
  <2>2. /\ s.received = stats.received /\ s.new = 0 /\ s.base = stats.base
        /\ s.high = stats.high /\ s.saved = stats.high
        /\ s.time = stats.time /\ s.timestamp = stats.timestamp
        /\ s \in StatsForm
    <3>1. s = [stats EXCEPT !.new = 0, !.saved = stats.high]
      BY <2>1 DEF StartNewInterval
    <3>2. QED
      BY <1>4, <1>5, <3>1 DEF StatsForm
  <2>3. stats' = s
    BY <1>1, <1>11, <2>1
  <2>4. stats.received > 0 /\ stats.new > 0
    <3>1. stats.received > 0 /\ (build.first \/ stats.time > build.time)
      BY <1>11 DEF ReportDue
    <3>2. build.time \in Int
      BY <1>2 DEF ReportsForm
    <3>3. QED
      BY <1>5, <1>9, <3>1, <3>2
  <2>5. PICK b : b = ReportBlock(stats)
    OBVIOUS
  <2>6. /\ b.expected = stats.high - stats.saved /\ b.new = stats.new
        /\ b.lost = stats.high - stats.base - stats.received /\ b.sent = moment
        /\ b \in BlockForm /\ Answers(b)
    BY <1>4, <2>5, BlockAnswers DEF ReportBlock
  <2>7. PICK c : c = ReportBlock(s)
    OBVIOUS
  <2>8. /\ c.expected = 0 /\ c.new = 0 /\ c.lost = b.lost /\ c.sent = moment
        /\ c \in BlockForm /\ Answers(c)
    <3>1. /\ c.expected = s.high - s.saved /\ c.new = s.new
          /\ c.lost = s.high - s.base - s.received /\ c.sent = moment
      BY <2>7 DEF ReportBlock
    <3>2. c \in BlockForm /\ Answers(c)
      BY <2>2, <2>7, BlockAnswers
    <3>3. QED
      BY <1>5, <2>2, <2>6, <3>1, <3>2
  <2>9. PICK bs : bs = Append(blocksOut, b)
    OBVIOUS
  <2>10. /\ bs \in Seq(BlockForm) /\ Chain(bs, b.lost)
         /\ Len(bs) = Len(blocksOut) + 1 /\ bs[Len(bs)] = b /\ Len(blocksOut) \in Nat
    <3>1. Chain(blocksOut, LostSoFar) /\ LostSoFar \in Int
      BY <1>2, <1>5 DEF BlocksAnswer, LostSoFar
    <3>2. b.expected - b.new = b.lost - LostSoFar
      BY <1>5, <2>6 DEF LostSoFar
    <3>3. b.new > 0
      BY <2>4, <2>6
    <3>4. /\ Append(blocksOut, b) \in Seq(BlockForm) /\ Chain(Append(blocksOut, b), b.lost)
          /\ Len(Append(blocksOut, b)) = Len(blocksOut) + 1
          /\ Append(blocksOut, b)[Len(blocksOut) + 1] = b
      BY ONLY <1>4, <2>6, <3>1, <3>2, <3>3, ChainGrows
    <3>5. QED
      BY <1>4, <2>9, <3>4
  <2>11. Append(bs, c) \in Seq(BlockForm) /\ Chain(Append(bs, c), b.lost)
    <3>1. b.lost \in Int
      BY <2>6 DEF BlockForm
    <3>2. c.expected - c.new = c.lost - b.lost
      BY <2>8, <3>1
    <3>3. Len(bs) > 0 /\ SaysAgain(c, bs[Len(bs)])
      BY <1>5, <2>4, <2>6, <2>8, <2>10 DEF SaysAgain
    <3>4. Append(bs, c) \in Seq(BlockForm) /\ Chain(Append(bs, c), c.lost)
      BY ONLY <2>8, <2>10, <3>1, <3>2, <3>3, ChainGrows
    <3>5. QED
      BY <2>8, <3>4
  <2>12. blocksOut' = bs \/ blocksOut' = Append(bs, c)
    <3>1. blocksOut' = BlocksFor(n)
      BY <1>1, <1>11
    <3>2. CASE n = 1
      BY <2>5, <2>9, <3>1, <3>2 DEF BlocksFor
    <3>3. CASE n = 2
      BY <2>1, <2>5, <2>7, <2>9, <3>1, <3>3 DEF BlocksFor
    <3>4. QED
      BY <1>11, <3>2, <3>3
  <2>13. blocksOut' \in Seq(BlockForm) /\ Chain(blocksOut', b.lost)
    BY <2>10, <2>11, <2>12
  <2>14. ReportsForm'
    BY <1>1, <1>2, <1>7, <2>2, <2>3, <2>13 DEF ReportsForm
  <2>15. Counts'
    <3>1. heardOf' = heardOf
      BY <1>1
    <3>2. QED
      BY <1>5, <1>6, <1>8, <1>9, <2>2, <2>3, <2>4, <3>1 DEF Counts
  <2>16. LastSeen'
    BY <1>1, <1>2, <1>3, <2>2, <2>3 DEF LastSeen, InTime
  <2>17. BlocksAnswer'
    <3>1. LostSoFar' = b.lost
      BY <1>5, <2>2, <2>3, <2>6 DEF LostSoFar
    <3>2. Chain(blocksOut, LostSoFar)'
      BY <1>1, <2>13, <3>1 DEF Chain, LostUpTo, Answers, InTime
    <3>3. (RRinf # NoInfo =>
             Answers(RRinf.block) /\ RRinf.at \in RRinf.block.sent .. moment)'
      BY <1>1, <1>2 DEF BlocksAnswer, Answers, InTime
    <3>4. QED
      BY <3>2, <3>3 DEF BlocksAnswer
  <2>18. QED
    BY <1>1, <1>2, <2>14, <2>15, <2>16, <2>17, PacketsLeft, ReportsLeft, JitterLeft
       DEF ReportsInv
<1>12. QED
  <2>1. n = 0 \/ n \in 1 .. 2
    OBVIOUS
  <2>2. QED
    BY <1>10, <1>11, <2>1

LEMMA BlockHeard ==
  ASSUME NEW i \in DOMAIN blocksOut, ReportsInv, HearReportBlock(blocksOut[i])
  PROVE  ReportsInv'
<1>1. PICK b : b = blocksOut[i]
  OBVIOUS
<1>2. /\ RRinf' = [block |-> b, at |-> moment]
      /\ UNCHANGED <<moment, packetsOut, frame, reportsOut, stats, deviation, unitKnown,
                     heardOf, SRinf, SRprevinf, build, blocksOut>>
  BY <1>1 DEF HearReportBlock, sentvars, statvars, srvars
<1>3. /\ ReportsForm /\ PacketsTied /\ ReportsTied /\ Counts /\ LastSeen /\ BlocksAnswer
      /\ JitterIsChangeOfWay
  BY DEF ReportsInv
<1>4. Answers(b)
  <2>1. i \in 1 .. Len(blocksOut)
    BY <1>3 DEF ReportsForm
  <2>2. QED
    BY <1>1, <1>3, <2>1 DEF BlocksAnswer, Chain
<1>5. RRinf'.at \in RRinf'.block.sent .. moment
  <2>1. StartTime \in Nat /\ MaxTicks \in Nat /\ moment \in StartTime .. StartTime + MaxTicks
    BY <1>3, ShortTimes DEF ReportsForm
  <2>2. b.sent \in Int /\ b.sent <= moment
    BY <1>4, <2>1 DEF Answers, InTime
  <2>3. QED
    BY <1>2, <2>1, <2>2
<1>6. BlocksAnswer'
  <2>1. LostSoFar' = LostSoFar
    BY <1>2 DEF LostSoFar
  <2>2. Chain(blocksOut, LostSoFar)
    BY <1>3 DEF BlocksAnswer
  <2>3. Chain(blocksOut, LostSoFar)'
    BY <1>2, <2>1, <2>2 DEF Chain, LostUpTo, Answers, InTime
  <2>4. RRinf'.block = b
    BY <1>2
  <2>5. Answers(RRinf.block)'
    BY <1>2, <1>4, <2>4 DEF Answers, InTime
  <2>6. QED
    BY <1>2, <1>5, <2>3, <2>5 DEF BlocksAnswer
<1>7. ReportsForm'
  BY <1>2, <1>3 DEF ReportsForm
<1>8. QED
  BY <1>2, <1>3, <1>6, <1>7, PacketsLeft, ReportsLeft, CountsLeft, SeenLeft, JitterLeft
     DEF ReportsInv

LEMMA ReportsStep == ReportsInv /\ [ReportsNext]_reportvars => ReportsInv'
<1> SUFFICES ASSUME ReportsInv, [ReportsNext]_reportvars PROVE ReportsInv'
  OBVIOUS
<1>1. CASE UNCHANGED reportvars
  <2>1. UNCHANGED <<moment, packetsOut, frame, reportsOut, stats, deviation, unitKnown,
                    heardOf, SRinf, SRprevinf, build, blocksOut, RRinf>>
    BY <1>1 DEF reportvars, sentvars, statvars, srvars, rrvars
  <2>2. ReportsForm'
    BY <2>1 DEF ReportsInv, ReportsForm
  <2>3. QED
    BY <2>1, <2>2, PacketsLeft, ReportsLeft, CountsLeft, SeenLeft, BlocksLeft, JitterLeft
       DEF ReportsInv
<1>2. CASE ReportsNext
  BY <1>2, ClockGoesOn, FrameSent, RestSent, ReportSent, ReportHeard, PacketProcessed,
     ReportBuilt, BlockHeard DEF ReportsNext
<1>3. QED
  BY <1>1, <1>2

-----------------------------------------------------------------------------
(* What follows of what the two ends know.                                 *)
LEMMA BothWays == ReportsInv => RoundTripIsBothWays
<1> SUFFICES ASSUME ReportsInv, RRinf # NoInfo, RRinf.block.heard,
                    ~(RRinf.block.lsr = 0 /\ RRinf.block.dlsr = 0)
             PROVE  RoundtripTime = RRinf.block.way + (RRinf.at - RRinf.block.sent)
  BY DEF RoundTripIsBothWays
<1>1. PICK b : b = RRinf.block
  OBVIOUS
<1>2. /\ StartTime \in Nat /\ MaxTicks \in Nat
      /\ moment \in StartTime .. StartTime + MaxTicks
  BY ShortTimes DEF ReportsInv, ReportsForm
<1>3. Answers(b) /\ RRinf.at \in b.sent .. moment
  BY <1>1 DEF ReportsInv, BlocksAnswer
<1>4. PICK made \in Int : made = b.sent
  BY <1>3 DEF Answers
<1>5. PICK ntp \in Int, came \in Int :
        /\ StartTime <= ntp /\ ntp <= came /\ came <= made
        /\ b.lsr = Turn(ntp) /\ b.dlsr = Turn(made - came) /\ b.way = came - ntp
  BY <1>1, <1>3, <1>4 DEF Answers
<1>6. PICK back \in Int : back = RRinf.at /\ made <= back /\ back <= moment
  BY <1>2, <1>3, <1>4
<1>7. RoundtripTime = Turn(back - Turn(ntp) - Turn(made - came))
  BY <1>1, <1>5, <1>6 DEF RoundtripTime
<1>8. PICK l \in Int : l = Turn(ntp) /\ Turn(back - l) = Turn(back - ntp)
  <2>1. Turn(ntp) \in 0 .. ReportModulus - 1 /\ Turn(back - Turn(ntp)) = Turn(back - ntp)
    BY Turning
  <2>2. ReportModulus \in Nat
    BY ShortTimes
  <2>3. QED
    BY <2>1, <2>2
<1>9. PICK d \in Int : d = made - came
  OBVIOUS
<1>10. Turn((back - l) - Turn(d)) = Turn((back - l) - d)
  <2>1. back - l \in Int
    OBVIOUS
  <2>2. QED
    BY <2>1, Turning
<1>11. Turn((back - l) + (-d)) = Turn((back - ntp) + (-d))
  <2>1. back - l \in Int /\ back - ntp \in Int /\ -d \in Int
    OBVIOUS
  <2>2. Turn(Turn(back - l) + (-d)) = Turn((back - l) + (-d))
    BY <2>1, Turning
  <2>3. Turn(Turn(back - ntp) + (-d)) = Turn((back - ntp) + (-d))
    BY <2>1, Turning
  <2>4. QED
    BY <1>8, <2>2, <2>3
<1>12. PICK e \in Int : e = (back - ntp) - d
  OBVIOUS
<1>13. (back - l) - d = (back - l) + (-d) /\ (back - ntp) - d = (back - ntp) + (-d)
  OBVIOUS
<1>14. e \in 0 .. MaxTicks /\ e = (came - ntp) + (back - made)
  BY <1>2, <1>5, <1>6, <1>9, <1>12
<1>15. Turn(e) = e
  <2>1. e \in 0 .. ReportModulus - 1
    BY <1>14, ShortTimes
  <2>2. QED
    BY <2>1, Turning
<1>16. RoundtripTime = e
  BY <1>7, <1>8, <1>9, <1>10, <1>11, <1>12, <1>13, <1>15
<1>17. QED
  BY <1>1, <1>4, <1>5, <1>6, <1>14, <1>16

LEMMA Missing == ReportsInv => LossIsMissing
<1> SUFFICES ASSUME ReportsInv, stats.received > 0
             PROVE  stats.high - stats.base - stats.received =
                      Cardinality((stats.base + 1 .. stats.high) \ Distinct)
                        - (Len(heardOf.numbers)
                             - Cardinality(Distinct \cap (stats.base + 1 .. stats.high)))
  BY DEF LossIsMissing
<1>1. /\ stats.received \in Nat /\ stats.base \in Nat /\ stats.high \in Nat
      /\ stats.saved \in Nat /\ stats.base <= stats.saved /\ stats.saved <= stats.high
      /\ stats.received = Len(heardOf.numbers)
  BY DEF ReportsInv, ReportsForm, StatsForm, Counts
<1>2. PICK low \in Int : low = stats.base + 1
  BY <1>1
<1>3. PICK range : range = low .. stats.high
  OBVIOUS
<1>4. IsFiniteSet(range) /\ Cardinality(range) = stats.high - stats.base
  <2>1. stats.high \in Int /\ (low > stats.high => stats.high - stats.base = 0)
        /\ stats.high - low + 1 = stats.high - stats.base
    BY <1>1, <1>2
  <2>2. IsFiniteSet(range)
        /\ Cardinality(range) = IF low > stats.high THEN 0 ELSE stats.high - low + 1
    BY <1>3, <2>1, FS_Interval
  <2>3. QED
    BY <2>1, <2>2
<1>5. /\ Cardinality(range \ Distinct)
           = Cardinality(range) - Cardinality(range \cap Distinct)
      /\ Cardinality(range \cap Distinct) \in Nat
  <2>1. IsFiniteSet(range \cap Distinct)
    BY <1>4, FS_Intersection
  <2>2. QED
    BY <1>4, <2>1, FS_Difference, FS_CardinalityType
<1>6. range \cap Distinct = Distinct \cap range
  OBVIOUS
<1>7. PICK here \in Nat : here = Cardinality(Distinct \cap range)
  BY <1>5, <1>6
<1>8. Cardinality(range \ Distinct) = (stats.high - stats.base) - here
  BY <1>4, <1>5, <1>6, <1>7
<1>9. stats.high - stats.base - stats.received
        = ((stats.high - stats.base) - here) - (stats.received - here)
  BY <1>1
<1>10. QED
  BY <1>1, <1>2, <1>3, <1>7, <1>8, <1>9

LEMMA Intervals == ReportsInv => IntervalsAddUp
<1> SUFFICES ASSUME ReportsInv, NEW i \in DOMAIN blocksOut
             PROVE  /\ \/ blocksOut[i].new > 0 /\ FractionLost(blocksOut[i]) < 256
                       \/ i > 1 /\ SaysAgain(blocksOut[i], blocksOut[i - 1])
                    /\ blocksOut[i].expected - blocksOut[i].new =
                         blocksOut[i].lost - (IF i = 1 THEN 0 ELSE blocksOut[i - 1].lost)
  BY DEF IntervalsAddUp
<1>1. blocksOut \in Seq(BlockForm) /\ i \in 1 .. Len(blocksOut)
  BY DEF ReportsInv, ReportsForm
<1>2. PICK b \in BlockForm : b = blocksOut[i]
  BY <1>1
<1>3. /\ b.new > 0 \/ (i > 1 /\ SaysAgain(b, blocksOut[i - 1]))
      /\ b.expected - b.new = b.lost - LostUpTo(blocksOut, i - 1)
  BY <1>1, <1>2 DEF ReportsInv, BlocksAnswer, Chain
<1>4. LostUpTo(blocksOut, i - 1) = IF i = 1 THEN 0 ELSE blocksOut[i - 1].lost
  BY <1>1 DEF LostUpTo
<1>5. b.new > 0 => FractionLost(b) < 256
  <2>1. SUFFICES ASSUME b.new > 0 PROVE FractionLost(b) < 256
    OBVIOUS
  <2>2. b.expected \in Int /\ b.new \in Int
    BY DEF BlockForm
  <2>3. CASE b.expected < b.new
    BY <2>3 DEF FractionLost
  <2>4. CASE ~(b.expected < b.new)
    <3>1. PICK e \in Nat \ {0} : e = b.expected
      BY <2>1, <2>2, <2>4
    <3>2. PICK x \in Nat : x = b.expected - b.new /\ x < e
      BY <2>1, <2>2, <2>4, <3>1
    <3>3. (x * 256) \div e < 256
      BY <3>2, Fraction
    <3>4. QED
      BY <2>4, <3>1, <3>2, <3>3 DEF FractionLost
  <2>5. QED
    BY <2>3, <2>4
<1>6. QED
  BY <1>2, <1>3, <1>4, <1>5

LEMMA WhatHappened == ReportsInv => ReportsSound
<1> SUFFICES ASSUME ReportsInv PROVE ReportsSound
  OBVIOUS
<1>1. ReportsTieTheClocks
  BY RateEstimated DEF ReportsTieTheClocks, ReportsInv, ReportsTied, Tied
<1>2. JitterIsChangeOfWay
  BY DEF ReportsInv
<1>3. QED
  BY <1>1, <1>2, BothWays, Missing, Intervals DEF ReportsSound

(* What the sender and the receiver of a stream learn of each other is     *)
(* what happened: the round trip of CalculateRoundtripTime, the lost       *)
(* packets of a report block, the jitter, the clock of a sender report.    *)
THEOREM ReportsAlwaysSound == ReportsSpec => []ReportsSound
<1>1. ReportsSpec => []ReportsInv
  BY ReportsStart, ReportsStep, PTL DEF ReportsSpec
<1>2. QED
  BY <1>1, WhatHappened, PTL

-----------------------------------------------------------------------------
(* All the times are kept: of messages, of reports, and by reports.        *)
THEOREM TimesAlwaysKept ==
  ChunksSpec /\ SchedSpec /\ ReportsSpec => []TimesKept
<1>1. TimesCarried /\ SchedulerSound /\ ReportsSound => TimesKept
  BY DEF TimesKept
<1>2. QED
  BY <1>1, TimesAlwaysCarried, ReportsAlwaysSpaced, ReportsAlwaysSound, PTL
=============================================================================
