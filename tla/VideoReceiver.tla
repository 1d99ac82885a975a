--------------------------- MODULE VideoReceiver ---------------------------
(***************************************************************************)
(* CRTPReceiver::processRtpPacket: packets of one source, in the order in  *)
(* which the session's queue gives them out, are put together again into   *)
(* frames of a program stream, and the video of a frame goes to the        *)
(* application when the next frame begins.  Bytes are gathered into units: *)
(* a head (00 00 01 BA), a part without video (BB, BC), the head of a PES  *)
(* packet that announces n units of video (E0), audio (C0, BD) and data.   *)
(* The sender is outside; each frame begins a packet, as its marker says.  *)
(***************************************************************************)
EXTENDS Naturals, Sequences, SequencesExt, FiniteSets

CONSTANTS
  Shape,        \* frames: what follows the head, [kind, n] each
  PsBufSize,    \* PS_BUF_SIZE
  MaxPiece,     \* bound: units in a packet
  MaxFrames     \* bound: frames

VARIABLES
  psBuf, psLen,
  frames,       \* the frames begun, in their units
  rest,         \* what is still to be sent of the last one
  handed,       \* what the application was given
  whole,        \* history: all that was sent of the last frame is in psBuf
  intact        \* history: frames that were whole when the next head came

videovars == <<psBuf, psLen, frames, rest, handed, whole, intact>>

Stale == [kind |-> "data", n |-> 0]

VideoInit ==
  /\ psBuf = [i \in 1 .. PsBufSize |-> Stale] /\ psLen = 0
  /\ frames = <<>> /\ rest = <<>> /\ handed = <<>>
  /\ whole = FALSE /\ intact = {}

(* The units of a frame: data is numbered, to be told from other data.     *)
Units(f, shape) ==
  LET unit(i) == IF shape[i].kind = "data"
                 THEN [kind |-> "data", n |-> 10 * f + i] ELSE shape[i]
  IN  <<[kind |-> "head", n |-> 0]>> \o [i \in DOMAIN shape |-> unit(i)]

-----------------------------------------------------------------------------
(* GetH246FromPs.  What a length announces is copied, whether the buffer   *)
(* holds it or not.                                                        *)

Announced(buf, at) ==
  [i \in 1 .. buf[at].n |->
     IF at + i \in DOMAIN buf THEN buf[at + i] ELSE Stale]

(* The payloads from a place on, with so many units left.                  *)
Payloads(buf, len) ==
  LET from[at \in Nat] ==
        IF at > len THEN <<>>
        ELSE CASE buf[at].kind = "pes" ->
                    Announced(buf, at) \o from[at + 1 + buf[at].n]
               [] buf[at].kind = "part" -> from[at + 1]
               [] OTHER -> <<>>
  IN  from

(* The size of a pack head is in its bytes; what is no head may be taken   *)
(* for one of any size.                                                    *)
GetH264FromPs(buf, len) ==
  LET sizes == IF buf[1].kind = "head" THEN {1} ELSE 1 .. len
  IN  {Payloads(buf, len)[1 + k] : k \in sizes}

Written(units) ==
  [i \in DOMAIN psBuf |->
     IF i - psLen \in DOMAIN units THEN units[i - psLen] ELSE psBuf[i]]

Overflows(units) == psLen + Len(units) >= PsBufSize

processRtpPacketAppending(units) ==
  IF Overflows(units) THEN psLen' = 0 /\ UNCHANGED <<psBuf, handed>>
  ELSE IF Head(units).kind = "head" /\ psLen > 0
  THEN /\ \E video \in GetH264FromPs(Written(units), psLen) :
            handed' = IF video = <<>> THEN handed ELSE Append(handed, video)
       /\ psBuf' = Written(units)
       /\ psLen' = psLen + Len(units)
  ELSE /\ psBuf' = Written(units) /\ psLen' = psLen + Len(units)
       /\ UNCHANGED handed

(* A packet goes behind the ones before; if it is a head, what was before  *)
(* it is a frame, and the head moves to the start.                         *)
processRtpPacket(units) ==
  IF Overflows(units) THEN psLen' = 0 /\ UNCHANGED <<psBuf, handed>>
  ELSE IF Head(units).kind = "head" /\ psLen > 0
  THEN /\ \E video \in GetH264FromPs(Written(units), psLen) :
            handed' = IF video = <<>> THEN handed ELSE Append(handed, video)
       /\ psBuf' = [i \in DOMAIN psBuf |->
                      IF i \in DOMAIN units THEN units[i] ELSE Written(units)[i]]
       /\ psLen' = Len(units)
  ELSE /\ psBuf' = Written(units) /\ psLen' = psLen + Len(units)
       /\ UNCHANGED handed

-----------------------------------------------------------------------------
(* The stream: a packet holds the next units of a frame and comes or is    *)
(* lost.                                                                   *)

Comes(units) ==
  /\ processRtpPacket(units)
  /\ whole' = ~Overflows(units) /\ (whole \/ Head(units).kind = "head")
  /\ intact' = IF Head(units).kind = "head" /\ whole /\ ~Overflows(units)
               THEN intact \cup {Len(frames)} ELSE intact

IsLost == whole' = FALSE /\ UNCHANGED <<psBuf, psLen, handed, intact>>

Piece(of) ==
  \E n \in 1 .. MaxPiece :
    /\ n <= Len(of)
    /\ Comes(SubSeq(of, 1, n)) \/ IsLost
    /\ rest' = SubSeq(of, n + 1, Len(of))

NewFrame ==
  /\ rest = <<>> /\ Len(frames) < MaxFrames
  /\ \E shape \in Shape :
       LET frame == Units(Len(frames) + 1, shape)
       IN  Piece(frame) /\ frames' = Append(frames, frame)

MoreOfFrame == rest # <<>> /\ Piece(rest) /\ UNCHANGED frames

VideoNext == NewFrame \/ MoreOfFrame

VideoSpec == VideoInit /\ [][VideoNext]_videovars

-----------------------------------------------------------------------------

VideoTypeOK ==
  /\ psLen \in 0 .. PsBufSize - 1 /\ DOMAIN psBuf = 1 .. PsBufSize
  /\ \A i \in DOMAIN psBuf : psBuf[i].kind \in {"head", "part", "pes", "audio", "data"}
  /\ whole \in BOOLEAN /\ intact \subseteq 1 .. Len(frames)

Video(f) == SelectSeq(frames[f], LAMBDA u : u.kind = "data")

(* A loss costs the frame it hits and no other: a frame that came whole    *)
(* and was ended by the next head is handed over once, exactly; without a  *)
(* loss the application gets the video of all frames in order.             *)
VideoSound ==
  /\ \A f \in intact :
       Video(f) # <<>> => Cardinality({i \in DOMAIN handed : handed[i] = Video(f)}) = 1
  /\ intact = 1 .. Len(frames) - 1 =>
       handed = SelectSeq([f \in intact |-> Video(f)], LAMBDA v : v # <<>>)
=============================================================================
