---------------------------- MODULE MediaProofs ----------------------------
(***************************************************************************)
(* What the RTMP side and the RTSP client do for any stream, any number of *)
(* threads and any number of calls: no frame is missed over a pause, no    *)
(* message is mixed up with another, and the requests of a session go out  *)
(* in their order.                                                         *)
(***************************************************************************)
EXTENDS Endpoints, SequenceTheorems, FiniteSetTheorems, TLAPS

-----------------------------------------------------------------------------
(* A stream over pause and resume.  The mail between the player and its    *)
(* server, and what the player keeps.                                      *)
Frame(n) == [kind |-> "frame", frame |-> n]
Word(kind) == [kind |-> kind]
Mail == {Frame(n) : n \in Nat \ {0}} \cup {Word(k) : k \in {"empty", "eof", "paused"}}
PauseRequest == [pause : BOOLEAN, stamp : Nat]

PauseTypes ==
  /\ pausing \in 0 .. 3 /\ {mediaStamp, pauseStamp, channelStamp} \subseteq Nat
  /\ toPlayer \in Seq(Mail) /\ fromPlayer \in Seq(PauseRequest)
  /\ nextFrame \in Nat \ {0} /\ budget \in 0 .. BufferFrames
  /\ idle \in BOOLEAN /\ (~idle => budget > 0) /\ unasked \in BOOLEAN /\ played \in Seq(Nat)

Played == {played[i] : i \in DOMAIN played}

(* Frame n is the first one, or the frame before it was played or is on    *)
(* its way before place i.                                                 *)
Follows(n, i) ==
  n \in {0, 1} \/ n - 1 \in Played
  \/ \E j \in 1 .. i - 1 : toPlayer[j] = Frame(n - 1)

Held(n) == n = 0 \/ n \in Played

(* No frame is shown before the ones ahead of it were, every stamp that    *)
(* may be sent in a resume is of a frame shown, and the mail goes on from  *)
(* there.                                                                  *)
NoneMissed ==
  \A i \in DOMAIN played : \A n \in 1 .. played[i] : \E j \in 1 .. i : played[j] = n
StampsHeld ==
  /\ Held(mediaStamp) /\ Held(pauseStamp) /\ Held(channelStamp)
  /\ \A i \in DOMAIN fromPlayer : Held(fromPlayer[i].stamp)
MailFollows ==
  /\ \A i \in DOMAIN toPlayer : toPlayer[i].kind = "frame" => Follows(toPlayer[i].frame, i)
  /\ Follows(nextFrame, Len(toPlayer) + 1)
NoGap == NoneMissed /\ StampsHeld /\ MailFollows

LastFrame == Len(played)
Once == \A i \in DOMAIN played : played[i] = i

(* The server sends a buffer, of which some frames are on their way.       *)
StreamAt(m, next, first) ==
  /\ Len(toPlayer) = m + (IF idle THEN 1 ELSE 0)
  /\ nextFrame = next + m /\ nextFrame + budget = first + BufferFrames
  /\ fromPlayer = <<>> /\ (idle <=> budget = 0)
  /\ \A i \in 1 .. m : toPlayer[i] = Frame(next + i - 1)
  /\ idle => toPlayer[m + 1] = Word("empty")
  /\ channelStamp = LastFrame
  /\ \/ pausing = 0 /\ next = LastFrame + 1 /\ next >= first
        /\ (mediaStamp = LastFrame \/ next = first + 2)
     \/ pausing = 3 /\ mediaStamp = LastFrame /\ first = LastFrame
        /\ next \in {first, first + 1}
Streaming == \E m \in Nat, next \in Nat, first \in Nat \ {0} : StreamAt(m, next, first)
AtRest == idle /\ LastFrame > 0 /\ pauseStamp = LastFrame /\ mediaStamp = LastFrame /\ channelStamp = LastFrame
Pausing == pausing = 1 /\ toPlayer = <<>>
           /\ fromPlayer = <<[pause |-> TRUE, stamp |-> LastFrame]>>
Paused == /\ fromPlayer = <<>>
          /\ \/ pausing = 1 /\ toPlayer = <<Word("eof"), Word("paused")>>
             \/ pausing \in {1, 2} /\ toPlayer = <<Word("paused")>>
Resuming == pausing = 3 /\ toPlayer = <<>>
            /\ fromPlayer = <<[pause |-> FALSE, stamp |-> LastFrame]>>

(* While the server sends what it was asked for and no more, every frame   *)
(* is shown once, and the two are in the same phase of the conversation.   *)
InTurn ==
  ~unasked => Once /\ (Streaming \/ (AtRest /\ (Pausing \/ Paused \/ Resuming)))

(* The inductive invariant.                                                *)
PauseInv == PauseTypes /\ NoGap /\ InTurn
(* What a letter is, by its kind; and the letters there are.               *)
LEMMA PostForm ==
  ASSUME NEW x \in Mail
  PROVE  /\ x.kind \in {"frame", "empty", "eof", "paused"}
         /\ x.kind = "frame" => x = Frame(x.frame) /\ x.frame \in Nat \ {0}
         /\ x.kind # "frame" => x = Word(x.kind)
BY DEF Mail, Frame, Word

LEMMA MailMade ==
  /\ \A n \in Nat \ {0} : Frame(n) \in Mail /\ Frame(n).kind = "frame" /\ Frame(n).frame = n
  /\ \A k \in {"empty", "eof", "paused"} : Word(k) \in Mail /\ Word(k).kind = k
BY DEF Mail, Frame, Word

(* It holds when a stream begins to play.                                  *)
LEMMA PauseInitInv == PauseInit => PauseInv
<1> SUFFICES ASSUME PauseInit PROVE PauseInv
  OBVIOUS
<1> USE DEF PauseInit
<1>1. PauseTypes
  <2>1. toPlayer \in Seq(Mail) /\ fromPlayer \in Seq(PauseRequest) /\ played \in Seq(Nat)
    OBVIOUS
  <2>2. budget \in 0 .. BufferFrames /\ budget > 0 /\ nextFrame \in Nat \ {0}
    BY BufferAssumption
  <2>3. pausing \in 0 .. 3 /\ {mediaStamp, pauseStamp, channelStamp} \subseteq Nat
    OBVIOUS
  <2>4. idle \in BOOLEAN /\ unasked \in BOOLEAN
    OBVIOUS
  <2>5. QED
    BY <2>1, <2>2, <2>3, <2>4 DEF PauseTypes
<1>2. NoGap
  BY DEF NoGap, NoneMissed, StampsHeld, MailFollows, Held, Follows
<1>3. InTurn
  <2>1. LastFrame = 0 /\ BufferFrames \in Nat \ {0}
    BY BufferAssumption DEF LastFrame
  <2>2. StreamAt(0, 1, 1)
    BY <2>1 DEF StreamAt
  <2>3. QED
    BY <2>2 DEF InTurn, Once, Streaming
<1>4. QED
  BY <1>1, <1>2, <1>3 DEF PauseInv

-----------------------------------------------------------------------------

(* What was shown stays shown.                                             *)
LEMMA PlayedGrows ==
  ASSUME PauseTypes, NEW n, played' = Append(played, n)
  PROVE  Played \subseteq Played' /\ n \in Played'
<1>1. played \in Seq(Nat)
  BY DEF PauseTypes
<1>2. Len(played') = Len(played) + 1 /\ played'[Len(played')] = n
      /\ \A i \in 1 .. Len(played) : played'[i] = played[i]
  BY <1>1
<1>3. DOMAIN played = 1 .. Len(played) /\ DOMAIN played' = 1 .. Len(played')
  BY <1>1
<1>4. QED
  BY <1>1, <1>2, <1>3 DEF Played

(* What is read moves from the mail to the player, or was there before.    *)
LEMMA ReadFollows ==
  ASSUME PauseTypes, MailFollows, toPlayer # <<>>, toPlayer' = Tail(toPlayer),
         nextFrame' = nextFrame, Played \subseteq Played',
         Head(toPlayer).kind = "frame" => Head(toPlayer).frame \in Played'
  PROVE  MailFollows'
<1>1. /\ toPlayer \in Seq(Mail) /\ Len(toPlayer) \in Nat \ {0}
      /\ nextFrame \in Nat \ {0}
  BY DEF PauseTypes
<1>2. Len(toPlayer') = Len(toPlayer) - 1 /\ DOMAIN toPlayer' = 1 .. Len(toPlayer')
      /\ \A i \in 1 .. Len(toPlayer') : toPlayer'[i] = toPlayer[i + 1]
  BY <1>1
<1>3. ASSUME NEW n \in Nat, NEW i \in 1 .. Len(toPlayer), Follows(n, i + 1)
      PROVE  Follows(n, i)'
  <2>1. CASE n \in {0, 1} \/ n - 1 \in Played
    BY <2>1 DEF Follows
  <2>2. CASE n \notin {0, 1} /\ \E j \in 1 .. i : toPlayer[j] = Frame(n - 1)
    <3>1. PICK j \in 1 .. i : toPlayer[j] = Frame(n - 1)
      BY <2>2
    <3>2. CASE j = 1
      <4>1. Head(toPlayer) = Frame(n - 1)
        BY <3>1, <3>2, <1>1
      <4>2. n - 1 \in Played'
        BY <4>1, <2>2, MailMade
      <4>3. QED
        BY <4>2 DEF Follows
    <3>3. CASE j # 1
      <4>1. j - 1 \in 1 .. i - 1 /\ j - 1 \in 1 .. Len(toPlayer')
        BY <3>3, <1>2, <1>1
      <4>2. toPlayer'[j - 1] = Frame(n - 1)
        BY <4>1, <1>2, <3>1
      <4>3. QED
        BY <4>1, <4>2 DEF Follows
    <3>4. QED
      BY <3>2, <3>3
  <2>3. QED
    BY <2>1, <2>2, <1>3 DEF Follows
<1>4. ASSUME NEW i \in DOMAIN toPlayer', toPlayer'[i].kind = "frame",
             NEW n, n = toPlayer'[i].frame
      PROVE  Follows(n, i)'
  <2>1. i \in 1 .. Len(toPlayer) /\ i + 1 \in DOMAIN toPlayer /\ toPlayer'[i] = toPlayer[i + 1]
    BY <1>1, <1>2
  <2>2. Follows(toPlayer[i + 1].frame, i + 1)
    BY <2>1, <1>4 DEF MailFollows
  <2>3. toPlayer[i + 1].frame \in Nat
    BY <2>1, <1>1, <1>4, PostForm
  <2>4. n \in Nat
    BY <2>1, <2>3, <1>4
  <2>5. Follows(n, i + 1)
    BY <2>2, <2>1, <1>4
  <2>6. QED
    BY <2>5, <2>4, <2>1, <1>3
<1>5. Follows(nextFrame, Len(toPlayer) + 1)'
  <2>1. Follows(nextFrame, Len(toPlayer) + 1)
    BY DEF MailFollows
  <2>2. PICK n \in Nat, l \in Nat : n = nextFrame /\ l = Len(toPlayer) /\ l > 0
    BY <1>1
  <2>3. Follows(n, l)'
    BY <2>1, <2>2, <1>3
  <2>4. QED
    BY <2>2, <2>3, <1>2
<1>6. \A i \in DOMAIN toPlayer' :
        toPlayer'[i].kind = "frame" => Follows(toPlayer[i].frame, i)'
  BY <1>4
<1>7. QED
  BY <1>5, <1>6 DEF MailFollows
(* What is sent comes behind what is under way.                            *)
LEMMA SentFollows ==
  ASSUME PauseTypes, MailFollows, NEW more \in Seq(Mail), toPlayer' = toPlayer \o more,
         played' = played, nextFrame' \in Nat,
         \A i \in 1 .. Len(more) : more[i].kind = "frame" => i = 1 /\ more[i].frame = nextFrame,
         nextFrame' # nextFrame =>
           \/ nextFrame' \in {0, 1} \/ nextFrame' - 1 \in Played
           \/ more # <<>> /\ more[1] = Frame(nextFrame) /\ nextFrame' = nextFrame + 1
  PROVE  MailFollows'
<1>1. /\ toPlayer \in Seq(Mail) /\ nextFrame \in Nat \ {0}
  BY DEF PauseTypes
<1>2. /\ Len(toPlayer') = Len(toPlayer) + Len(more) /\ DOMAIN toPlayer' = 1 .. Len(toPlayer')
      /\ Len(toPlayer) \in Nat /\ Len(more) \in Nat
      /\ \A i \in 1 .. Len(toPlayer) : toPlayer'[i] = toPlayer[i]
      /\ \A i \in 1 .. Len(more) : toPlayer'[Len(toPlayer) + i] = more[i]
  BY <1>1
<1>3. ASSUME NEW n \in Nat, NEW i \in 1 .. Len(toPlayer) + 1, NEW k \in Nat, i <= k, Follows(n, i)
      PROVE  Follows(n, k)'
  <2>1. Played' = Played
    BY DEF Played
  <2>2. QED
    BY <1>2, <1>3, <2>1 DEF Follows
<1>4. ASSUME NEW i \in DOMAIN toPlayer', toPlayer'[i].kind = "frame",
             NEW n, n = toPlayer'[i].frame
      PROVE  Follows(n, i)'
  <2>1. CASE i <= Len(toPlayer)
    <3>1. i \in DOMAIN toPlayer /\ toPlayer'[i] = toPlayer[i] /\ i \in Nat
      BY <2>1, <1>2, <1>1
    <3>2. toPlayer[i].frame \in Nat
      BY <3>1, <1>1, <1>4, PostForm
    <3>3. Follows(n, i)
      BY <3>1, <1>4 DEF MailFollows
    <3>4. QED
      BY <3>1, <3>2, <3>3, <1>3, <1>4, <2>1, <1>2
  <2>2. CASE i > Len(toPlayer)
    <3>1. i - Len(toPlayer) \in 1 .. Len(more) /\ toPlayer'[i] = more[i - Len(toPlayer)]
      BY <2>2, <1>2
    <3>2. n = nextFrame /\ i = Len(toPlayer) + 1
      BY <3>1, <1>4, <1>2
    <3>3. Follows(n, i)
      BY <3>2 DEF MailFollows
    <3>4. i \in 1 .. Len(toPlayer) + 1 /\ i \in Nat /\ n \in Nat
      BY <3>2, <1>1, <1>2
    <3>5. QED
      BY <3>3, <3>4, <1>3
  <2>3. QED
    BY <2>1, <2>2, <1>2
<1>5. Follows(nextFrame, Len(toPlayer) + 1)'
  <2>1. CASE nextFrame' = nextFrame
    <3>1. PICK n \in Nat : n = nextFrame
      BY <1>1
    <3>2. PICK l \in Nat : l = Len(toPlayer) + 1
      BY <1>2
    <3>3. PICK k \in Nat : k = Len(toPlayer') + 1
      BY <1>2
    <3>4. Follows(n, l)
      BY <3>1, <3>2 DEF MailFollows
    <3>5. l \in 1 .. Len(toPlayer) + 1 /\ l <= k
      BY <3>2, <3>3, <1>2
    <3>6. Follows(n, k)'
      BY <3>4, <3>5, <1>3
    <3>7. QED
      BY <3>1, <3>3, <3>6, <2>1
  <2>2. CASE nextFrame' \in {0, 1} \/ nextFrame' - 1 \in Played
    <3>1. Played' = Played
      BY DEF Played
    <3>2. QED
      BY <2>2, <3>1 DEF Follows
  <2>3. CASE more # <<>> /\ more[1] = Frame(nextFrame) /\ nextFrame' = nextFrame + 1
    <3>1. Len(more) > 0 /\ toPlayer'[Len(toPlayer) + 1] = Frame(nextFrame)
          /\ Len(toPlayer) + 1 \in 1 .. Len(toPlayer')
      BY <2>3, <1>2
    <3>2. nextFrame' - 1 = nextFrame
      BY <2>3, <1>1
    <3>3. QED
      BY <3>1, <3>2, <1>2 DEF Follows
  <2>4. QED
    BY <2>1, <2>2, <2>3
<1>6. \A i \in DOMAIN toPlayer' :
        toPlayer'[i].kind = "frame" => Follows(toPlayer[i].frame, i)'
  BY <1>4
<1>7. QED
  BY <1>5, <1>6 DEF MailFollows

(* Whatever comes before a frame that was shown was shown.                 *)
LEMMA NoneMissedOf ==
  ASSUME PauseTypes, NoneMissed, NEW n \in Played, NEW m \in Nat \ {0}, m <= n
  PROVE  m \in Played
<1>1. PICK i \in DOMAIN played : played[i] = n
  BY DEF Played
<1>2. n \in Nat /\ DOMAIN played = 1 .. Len(played) /\ Len(played) \in Nat
  BY <1>1 DEF PauseTypes
<1>3. m \in 1 .. played[i]
  BY <1>1, <1>2
<1>4. PICK j \in 1 .. i : played[j] = m
  BY <1>3 DEF NoneMissed
<1>5. j \in DOMAIN played
  BY <1>2, <1>4, <1>1
<1>6. QED
  BY <1>4, <1>5 DEF Played

(* To show the next frame misses none.                                     *)
LEMMA PlayKeeps ==
  ASSUME PauseTypes, NoneMissed, NEW n \in Nat \ {0}, n = 1 \/ n - 1 \in Played,
         played' = Append(played, n)
  PROVE  NoneMissed'
<1>1. played \in Seq(Nat)
  BY DEF PauseTypes
<1>2. Len(played') = Len(played) + 1 /\ played'[Len(played')] = n
      /\ Len(played) \in Nat
      /\ \A i \in 1 .. Len(played) : played'[i] = played[i]
      /\ DOMAIN played = 1 .. Len(played) /\ DOMAIN played' = 1 .. Len(played')
  BY <1>1
<1>3. ASSUME NEW i \in 1 .. Len(played'), NEW m \in 1 .. played'[i]
      PROVE  \E j \in 1 .. i : played'[j] = m
  <2>1. CASE i <= Len(played)
    <3>1. i \in DOMAIN played /\ m \in 1 .. played[i]
      BY <2>1, <1>2, <1>3
    <3>2. PICK j \in 1 .. i : played[j] = m
      BY <3>1 DEF NoneMissed
    <3>3. QED
      BY <3>2, <1>2, <2>1
  <2>2. CASE i > Len(played) /\ m = n
    BY <2>2, <1>2
  <2>3. CASE i > Len(played) /\ m # n
    <3>1. i = Len(played) + 1 /\ m \in Nat \ {0} /\ m <= n - 1 /\ n # 1
      BY <2>3, <1>2, <1>3
    <3>2. m \in Played
      BY <3>1, NoneMissedOf
    <3>3. PICK j \in DOMAIN played : played[j] = m
      BY <3>2 DEF Played
    <3>4. QED
      BY <3>1, <3>3, <1>2
  <2>4. QED
    BY <2>1, <2>2, <2>3, <1>2
<1>4. \A i \in DOMAIN played' : \A m \in 1 .. played'[i] : \E j \in 1 .. i : played'[j] = m
  BY <1>2, <1>3
<1>5. QED
  BY <1>4 DEF NoneMissed

-----------------------------------------------------------------------------
(* The types and the first half, step by step.                             *)

PauseSafe == PauseTypes /\ NoGap

(* The letter that is read.                                                *)
LEMMA ArrivedMail ==
  ASSUME PauseTypes, NEW k, Arrived(k)
  PROVE  /\ Head(toPlayer) \in Mail /\ Head(toPlayer) = toPlayer[1] /\ toPlayer # <<>>
         /\ Head(toPlayer).kind = k /\ 1 \in DOMAIN toPlayer /\ Tail(toPlayer) \in Seq(Mail)
BY DEF Arrived, PauseTypes

(* A frame read is the next to show, or one shown before.                  *)
LEMMA NextMediaPacketSafe == PauseSafe /\ NextMediaPacket => PauseSafe'
<1> SUFFICES ASSUME PauseTypes, NoGap, NextMediaPacket PROVE PauseSafe'
  BY DEF PauseSafe
<1>1. PICK n \in Nat \ {0} : n = Head(toPlayer).frame /\ Head(toPlayer) = Frame(n)
  BY ArrivedMail, PostForm DEF NextMediaPacket
<1>2. toPlayer' = Tail(toPlayer) /\ toPlayer # <<>> /\ channelStamp' = n
      /\ mediaStamp' = (IF pausing = 0 THEN n ELSE mediaStamp)
      /\ pausing' = (IF pausing = 3 /\ ~Skipped(n) THEN 0 ELSE pausing)
      /\ played' = (IF Skipped(n) THEN played ELSE Append(played, n))
      /\ UNCHANGED <<pauseStamp, fromPlayer, nextFrame, budget, idle, unasked>>
  BY <1>1 DEF NextMediaPacket, serverPart, Arrived
<1>3. n = 1 \/ n - 1 \in Played
  <2>1. Follows(n, 1)
    BY <1>1, ArrivedMail DEF NoGap, MailFollows, NextMediaPacket
  <2>2. QED
    BY <2>1 DEF Follows
<1>4. PauseTypes'
  <2>1. Tail(toPlayer) \in Seq(Mail)
    BY ArrivedMail DEF NextMediaPacket
  <2>2. played' \in Seq(Nat)
    BY <1>2 DEF PauseTypes
  <2>3. pausing' \in 0 .. 3 /\ {mediaStamp', pauseStamp', channelStamp'} \subseteq Nat
    BY <1>2 DEF PauseTypes
  <2>4. QED
    BY <1>2, <2>1, <2>2, <2>3 DEF PauseTypes
<1>5. NoneMissed' /\ Played \subseteq Played' /\ n \in Played'
  <2>1. CASE Skipped(n)
    <3>1. mediaStamp \in Played
      <4>1. mediaStamp # 0
        BY <2>1 DEF Skipped, PauseTypes
      <4>2. QED
        BY <4>1 DEF NoGap, StampsHeld, Held
    <3>2. n \in Played
      BY <3>1, <2>1, NoneMissedOf DEF Skipped, NoGap
    <3>3. QED
      BY <3>2, <2>1, <1>2 DEF Played, NoneMissed, NoGap
  <2>2. CASE ~Skipped(n)
    <3>1. played' = Append(played, n)
      BY <2>2, <1>2
    <3>2. NoneMissed'
      BY <3>1, <1>3, PlayKeeps DEF NoGap
    <3>3. QED
      BY <3>1, <3>2, PlayedGrows
  <2>3. QED
    BY <2>1, <2>2
<1>6. StampsHeld'
  BY <1>5, <1>2 DEF StampsHeld, Held, NoGap
<1>7. MailFollows'
  BY <1>1, <1>2, <1>5, ReadFollows DEF NoGap
<1>8. QED
  BY <1>4, <1>5, <1>6, <1>7 DEF PauseSafe, NoGap

(* The other mail changes what the player asks of the server.              *)
LEMMA AskSafe ==
  ASSUME PauseSafe, NEW k \in {"empty", "eof", "paused"}, Arrived(k),
         toPlayer' = Tail(toPlayer), pausing' \in 0 .. 3,
         pauseStamp' \in {pauseStamp, channelStamp},
         \/ fromPlayer' = fromPlayer
         \/ \E r \in PauseRequest : /\ r.stamp \in {pauseStamp, channelStamp}
                              /\ fromPlayer' = Append(fromPlayer, r),
         UNCHANGED <<mediaStamp, channelStamp, serverPart, played, unasked>>
  PROVE  PauseSafe'
<1> USE DEF PauseSafe, serverPart
<1>1. fromPlayer' \in Seq(PauseRequest)
      /\ \A i \in DOMAIN fromPlayer' : Held(fromPlayer'[i].stamp)
  <2>1. CASE fromPlayer' = fromPlayer
    BY <2>1 DEF PauseTypes, NoGap, StampsHeld
  <2>2. ASSUME NEW r \in PauseRequest, r.stamp \in {pauseStamp, channelStamp},
               fromPlayer' = Append(fromPlayer, r)
        PROVE  <1>1
    <3>2. Held(r.stamp)
      BY <2>2 DEF NoGap, StampsHeld
    <3>3. fromPlayer \in Seq(PauseRequest)
      BY DEF PauseTypes
    <3>4. fromPlayer' \in Seq(PauseRequest)
      BY <2>2, <3>3
    <3>5. ASSUME NEW i \in DOMAIN fromPlayer' PROVE Held(fromPlayer'[i].stamp)
      <4>1. (i \in DOMAIN fromPlayer /\ fromPlayer'[i] = fromPlayer[i]) \/ fromPlayer'[i] = r
        BY <2>2, <3>3
      <4>2. QED
        BY <4>1, <3>2 DEF NoGap, StampsHeld
    <3>6. QED
      BY <3>4, <3>5
  <2>3. QED
    BY <2>1, <2>2
<1>2. Played' = Played
  BY DEF Played
<1>3. PauseTypes'
  <2>1. Tail(toPlayer) \in Seq(Mail)
    BY ArrivedMail
  <2>2. QED
    BY <1>1, <2>1 DEF PauseTypes
<1>4. NoneMissed' /\ StampsHeld'
  BY <1>1, <1>2 DEF NoGap, NoneMissed, StampsHeld, Held
<1>5. MailFollows'
  BY <1>2, ReadFollows, ArrivedMail DEF NoGap
<1>6. QED
  BY <1>3, <1>4, <1>5 DEF NoGap

(* A request to pause or to resume, with a stamp that was reached.         *)
LEMMA AskMade ==
  ASSUME PauseTypes
  PROVE  \A b \in BOOLEAN : \A t \in {pauseStamp, channelStamp} :
           [pause |-> b, stamp |-> t] \in PauseRequest /\ [pause |-> b, stamp |-> t].stamp = t
BY DEF PauseTypes, PauseRequest

(* Letters that are put behind those under way.                            *)
LEMMA Pairs == \A x, y : <<x>> \o <<y>> = <<x, y>> /\ <<>> \o <<y>> = <<y>>
<1> SUFFICES ASSUME NEW x, NEW y PROVE <<x>> \o <<y>> = <<x, y>> /\ <<>> \o <<y>> = <<y>>
  OBVIOUS
<1>1. <<x>> \in Seq({x, y}) /\ <<y>> \in Seq({x, y}) /\ <<x, y>> \in Seq({x, y})
  OBVIOUS
<1> DEFINE s == <<x>> \o <<y>>
<1>2. s \in Seq({x, y}) /\ Len(s) = 2 /\ s[1] = x /\ s[2] = y
  BY <1>1, ConcatProperties
<1>3. Len(<<x, y>>) = 2 /\ <<x, y>>[1] = x /\ <<x, y>>[2] = y
  OBVIOUS
<1> HIDE DEF s
<1>4. s = <<x, y>>
  BY <1>1, <1>2, <1>3, SeqEqual
<1>5. QED
  BY <1>1, <1>4 DEF s

LEMMA JoinTwo ==
  ASSUME NEW S, NEW s \in Seq(S), NEW x \in S, NEW y \in S
  PROVE  /\ (s \o <<x>>) \o <<y>> = s \o <<x, y>>
         /\ (s \o <<x>>) \o <<>> = s \o <<x>> /\ (s \o <<>>) \o <<x>> = s \o <<x>>
<1>1. (s \o <<x>>) \o <<y>> = s \o <<x, y>>
  <2>1. (s \o <<x>>) \o <<y>> \in Seq(S) /\ s \o <<x, y>> \in Seq(S)
    OBVIOUS
  <2>2. Len((s \o <<x>>) \o <<y>>) = Len(s) + 2 /\ Len(s \o <<x, y>>) = Len(s) + 2
    OBVIOUS
  <2>3. \A i \in 1 .. Len(s) + 2 : ((s \o <<x>>) \o <<y>>)[i] = (s \o <<x, y>>)[i]
    OBVIOUS
  <2>4. QED
    BY <2>1, <2>2, <2>3, SeqEqual
<1>2. QED
  BY <1>1

LEMMA PutTwo ==
  ASSUME NEW S, NEW s \in Seq(S), NEW x \in S, NEW y \in S
  PROVE  LET t == (s \o <<x>>) \o <<y>> IN
         /\ Len(t) = Len(s) + 2 /\ t[Len(s) + 1] = x /\ t[Len(s) + 2] = y
         /\ \A i \in 1 .. Len(s) : t[i] = s[i]
<1>1. s \o <<x, y>> \in Seq(S) /\ Len(s \o <<x, y>>) = Len(s) + 2
      /\ \A i \in 1 .. Len(s) : (s \o <<x, y>>)[i] = s[i]
      /\ (s \o <<x, y>>)[Len(s) + 1] = x /\ (s \o <<x, y>>)[Len(s) + 2] = y
  OBVIOUS
<1>2. QED
  BY <1>1, JoinTwo

LEMMA BufferEmptySafe == PauseSafe /\ BufferEmpty => PauseSafe'
<1> SUFFICES ASSUME PauseSafe, BufferEmpty PROVE PauseSafe'
  OBVIOUS
<1>1. pausing \in 0 .. 3
  BY DEF PauseSafe, PauseTypes
<1>2. /\ Arrived("empty") /\ toPlayer' = Tail(toPlayer)
      /\ UNCHANGED <<mediaStamp, channelStamp, serverPart, played, unasked>>
  BY DEF BufferEmpty
<1>3. pausing' \in 0 .. 3 /\ pauseStamp' \in {pauseStamp, channelStamp}
  BY <1>1 DEF BufferEmpty, SendPause
<1>4. \/ fromPlayer' = fromPlayer
      \/ \E r \in PauseRequest : /\ r.stamp \in {pauseStamp, channelStamp}
                           /\ fromPlayer' = Append(fromPlayer, r)
  <2>1. CASE fromPlayer' = Append(fromPlayer, [pause |-> TRUE, stamp |-> channelStamp])
    BY <2>1, AskMade DEF PauseSafe
  <2>2. CASE fromPlayer' = Append(fromPlayer, [pause |-> FALSE, stamp |-> pauseStamp])
    BY <2>2, AskMade DEF PauseSafe
  <2>3. QED
    BY <2>1, <2>2, Zenon DEF BufferEmpty, SendPause
<1>5. QED
  BY <1>2, <1>3, <1>4, AskSafe

LEMMA StreamEOFSafe == PauseSafe /\ StreamEOF => PauseSafe'
BY AskSafe DEF StreamEOF, PauseSafe, PauseTypes

LEMMA PauseNotifySafe == PauseSafe /\ PauseNotify => PauseSafe'
<1> SUFFICES ASSUME PauseSafe, PauseNotify PROVE PauseSafe'
  OBVIOUS
<1>1. pausing \in 0 .. 3
  BY DEF PauseSafe, PauseTypes
<1>2. /\ Arrived("paused") /\ toPlayer' = Tail(toPlayer)
      /\ UNCHANGED <<mediaStamp, pauseStamp, channelStamp, serverPart, played, unasked>>
  BY DEF PauseNotify
<1>3. pausing' \in 0 .. 3
  BY <1>1 DEF PauseNotify, SendPause
<1>4. \/ fromPlayer' = fromPlayer
      \/ \E r \in PauseRequest : /\ r.stamp \in {pauseStamp, channelStamp}
                           /\ fromPlayer' = Append(fromPlayer, r)
  <2>1. CASE fromPlayer' = Append(fromPlayer, [pause |-> FALSE, stamp |-> pauseStamp])
    BY <2>1, AskMade DEF PauseSafe
  <2>2. QED
    BY <2>1, Zenon DEF PauseNotify, SendPause
<1>5. QED
  BY <1>2, <1>3, <1>4, AskSafe

(* The user resumes or pauses.                                             *)
LEMMA ToggleStreamSafe == PauseSafe /\ ToggleStream => PauseSafe'
<1> SUFFICES ASSUME PauseTypes, NoGap, ToggleStream PROVE PauseSafe'
  BY DEF PauseSafe
<1>1. PICK stamp \in Nat : /\ stamp = IF pausing = 0 THEN channelStamp ELSE pauseStamp
  BY DEF PauseTypes
<1>2. /\ pauseStamp' = stamp /\ Held(stamp)
      /\ fromPlayer' = (IF pausing = 0 THEN <<[pause |-> TRUE, stamp |-> stamp]>> ELSE <<>>)
                          \o <<[pause |-> FALSE, stamp |-> stamp]>>
      /\ pausing' = 3
      /\ UNCHANGED <<mediaStamp, channelStamp, toPlayer, nextFrame, budget, idle, played, unasked>>
  BY <1>1 DEF ToggleStream, NoGap, StampsHeld, serverPart
<1> DEFINE before == [pause |-> TRUE, stamp |-> stamp]
           after == [pause |-> FALSE, stamp |-> stamp]
<1>3. before \in PauseRequest /\ after \in PauseRequest /\ before.stamp = stamp /\ after.stamp = stamp
  BY DEF PauseRequest
<1>4. fromPlayer' \in Seq(PauseRequest) /\ \A i \in DOMAIN fromPlayer' : fromPlayer'[i].stamp = stamp
  <2>1. fromPlayer' = (IF pausing = 0 THEN <<before>> ELSE <<>>) \o <<after>>
    BY <1>2
  <2> HIDE DEF before, after
  <2>2. <<before>> \o <<after>> = <<before, after>> /\ <<>> \o <<after>> = <<after>>
    BY Pairs
  <2>3. fromPlayer' = <<before, after>> \/ fromPlayer' = <<after>>
    BY <2>1, <2>2
  <2>4. CASE fromPlayer' = <<after>>
    BY <2>4, <1>3
  <2>5. CASE fromPlayer' = <<before, after>>
    <3>1. DOMAIN fromPlayer' = {1, 2} /\ fromPlayer'[1] = before /\ fromPlayer'[2] = after
      BY <2>5
    <3>2. <<before, after>> \in Seq(PauseRequest)
      BY <1>3
    <3>3. QED
      BY <3>1, <3>2, <1>3, <2>5
  <2>6. QED
    BY <2>3, <2>4, <2>5
<1>5. Played' = Played
  BY <1>2 DEF Played
<1>6. PauseTypes'
  BY <1>2, <1>4 DEF PauseTypes
<1>7. NoneMissed' /\ StampsHeld' /\ MailFollows'
  BY <1>2, <1>4, <1>5 DEF NoGap, NoneMissed, StampsHeld, MailFollows, Follows, Held
<1>8. QED
  BY <1>6, <1>7 DEF PauseSafe, NoGap

(* The server adds to the mail, or takes a request.                        *)
LEMMA ServerSafe ==
  ASSUME PauseSafe, NEW more \in Seq(Mail), toPlayer' = toPlayer \o more,
         \A i \in 1 .. Len(more) : more[i].kind = "frame" => i = 1 /\ more[i].frame = nextFrame,
         \/ nextFrame' = nextFrame
         \/ nextFrame' = 1
         \/ nextFrame' \in Played \ {0}
         \/ more # <<>> /\ more[1] = Frame(nextFrame) /\ nextFrame' = nextFrame + 1,
         fromPlayer' = fromPlayer \/ (fromPlayer # <<>> /\ fromPlayer' = Tail(fromPlayer)),
         budget' \in 0 .. BufferFrames, idle' \in BOOLEAN, ~idle' => budget' > 0,
         unasked' \in BOOLEAN, UNCHANGED <<pauseState, played>>
  PROVE  PauseSafe'
<1> USE DEF PauseSafe, pauseState
<1>1. fromPlayer' \in Seq(PauseRequest)
      /\ \A i \in DOMAIN fromPlayer' : Held(fromPlayer'[i].stamp)
  <2>1. fromPlayer \in Seq(PauseRequest) /\ \A i \in DOMAIN fromPlayer : Held(fromPlayer[i].stamp)
    BY DEF PauseTypes, NoGap, StampsHeld
  <2>2. CASE fromPlayer # <<>> /\ fromPlayer' = Tail(fromPlayer)
    <3>1. \A i \in DOMAIN fromPlayer' : i + 1 \in DOMAIN fromPlayer /\ fromPlayer'[i] = fromPlayer[i + 1]
      BY <2>1, <2>2
    <3>2. fromPlayer' \in Seq(PauseRequest)
      BY <2>1, <2>2
    <3>3. QED
      BY <2>1, <3>1, <3>2
  <2>3. QED
    BY <2>1, <2>2
<1>2. Played' = Played /\ Played \subseteq Nat
  BY DEF Played, PauseTypes
<1>3. nextFrame' \in Nat \ {0}
  <2>1. nextFrame \in Nat \ {0}
    BY DEF PauseTypes
  <2>2. CASE nextFrame' = nextFrame + 1
    BY <2>1, <2>2
  <2>3. CASE nextFrame' \in Played \ {0}
    BY <1>2, <2>3
  <2>4. QED
    BY <2>1, <2>2, <2>3
<1>4. PauseTypes'
  <2>1. toPlayer' \in Seq(Mail)
    BY DEF PauseTypes
  <2>2. QED
    BY <1>1, <1>3, <2>1 DEF PauseTypes
<1>5. NoneMissed' /\ StampsHeld'
  BY <1>1, <1>2 DEF NoGap, NoneMissed, StampsHeld, Held
<1>6. MailFollows'
  <2>1. CASE nextFrame' \in Played \ {0}
    <3>1. nextFrame' = 1 \/ nextFrame' - 1 \in Played
      BY <2>1, NoneMissedOf, <1>2, <1>3 DEF NoGap
    <3>2. QED
      BY <3>1, <1>3, SentFollows DEF NoGap
  <2>2. CASE nextFrame' \notin Played \ {0}
    BY <2>2, <1>3, SentFollows DEF NoGap
  <2>3. QED
    BY <2>1, <2>2
<1>7. QED
  BY <1>4, <1>5, <1>6 DEF NoGap

(* The frame that the server sends follows what is under way.              *)
LEMMA ServerSendsFrameSafe == PauseSafe /\ ServerSendsFrame => PauseSafe'
<1> SUFFICES ASSUME PauseSafe, ServerSendsFrame PROVE PauseSafe'
  OBVIOUS
<1>1. nextFrame \in Nat \ {0} /\ budget \in 1 .. BufferFrames /\ BufferFrames \in Nat
  BY BufferAssumption DEF PauseSafe, PauseTypes, ServerSendsFrame
<1>2. PICK f \in Mail, w \in Mail :
        f = Frame(nextFrame) /\ w = Word("empty") /\ w.kind = "empty" /\ f.frame = nextFrame
  BY <1>1, MailMade
<1> DEFINE more == IF budget = 1 THEN <<f, w>> ELSE <<f>>
<1>3. toPlayer' = toPlayer \o more /\ more \in Seq(Mail)
  <2>1. toPlayer' = (toPlayer \o <<f>>) \o IF budget = 1 THEN <<w>> ELSE <<>>
    BY <1>2 DEF ServerSendsFrame, Frame, Word
  <2>2. toPlayer \in Seq(Mail)
    BY DEF PauseSafe, PauseTypes
  <2>3. CASE budget = 1
    <3>1. toPlayer' = (toPlayer \o <<f>>) \o <<w>> /\ more = <<f, w>>
      BY <2>1, <2>3
    <3>2. (toPlayer \o <<f>>) \o <<w>> = toPlayer \o <<f, w>>
      BY <2>2, JoinTwo
    <3>3. <<f, w>> \in Seq(Mail)
      OBVIOUS
    <3>4. QED
      BY <3>1, <3>2, <3>3
  <2>4. CASE budget # 1
    <3>1. toPlayer' = (toPlayer \o <<f>>) \o <<>> /\ more = <<f>>
      BY <2>1, <2>4
    <3>2. QED
      BY <3>1, <2>4, <2>2, JoinTwo
  <2>5. QED
    BY <2>3, <2>4
<1>4. more # <<>> /\ more[1] = Frame(nextFrame)
      /\ \A i \in 1 .. Len(more) : more[i].kind = "frame" => i = 1 /\ more[i].frame = nextFrame
  BY <1>2
<1>5. /\ budget' \in 0 .. BufferFrames /\ idle' \in BOOLEAN /\ nextFrame' = nextFrame + 1
      /\ ~idle' => budget' > 0
  <2>1. budget' = budget - 1 /\ nextFrame' = nextFrame + 1 /\ idle' = (budget = 1)
    BY DEF ServerSendsFrame
  <2>2. budget' \in 0 .. BufferFrames /\ (budget # 1 => budget' > 0)
    BY <2>1, <1>1
  <2>3. QED
    BY <2>1, <2>2
<1>6. unasked' \in BOOLEAN /\ UNCHANGED <<pauseState, fromPlayer, played>>
  BY DEF ServerSendsFrame, PauseSafe, PauseTypes
<1> HIDE DEF more
<1>7. QED
  BY <1>3, <1>4, <1>5, <1>6, ServerSafe

LEMMA ServerPausesSafe == PauseSafe /\ ServerPauses => PauseSafe'
<1> SUFFICES ASSUME PauseSafe, ServerPauses PROVE PauseSafe'
  OBVIOUS
<1>1. PICK e \in Mail, w \in Mail :
        e = Word("eof") /\ w = Word("paused") /\ w.kind = "paused" /\ e.kind = "eof"
  BY MailMade
<1>2. toPlayer \in Seq(Mail)
  BY DEF PauseSafe, PauseTypes
<1>3. PICK more \in {<<w>>, <<e, w>>} : toPlayer' = toPlayer \o more
  <2>1. toPlayer' = (toPlayer \o <<e>>) \o <<w>> \/ toPlayer' = (toPlayer \o <<>>) \o <<w>>
    BY <1>1 DEF ServerPauses, Word
  <2>2. QED
    BY <2>1, <1>2, JoinTwo
<1>4. more \in Seq(Mail)
      /\ \A i \in 1 .. Len(more) : more[i].kind = "frame" => i = 1 /\ more[i].frame = nextFrame
  BY <1>1, <1>3
<1>5. fromPlayer # <<>> /\ fromPlayer' = Tail(fromPlayer)
      /\ UNCHANGED <<nextFrame, budget, pauseState, played, unasked>> /\ idle' \in BOOLEAN /\ idle'
  BY DEF ServerPauses
<1>6. budget' \in 0 .. BufferFrames /\ unasked' \in BOOLEAN
  BY <1>5 DEF PauseSafe, PauseTypes
<1>7. QED
  BY <1>3, <1>4, <1>5, <1>6, ServerSafe

(* The server goes on at a frame that was shown.                           *)
LEMMA ServerGoesSafe == PauseSafe /\ (ServerResumes \/ ServerGoesOn) => PauseSafe'
<1> SUFFICES ASSUME PauseSafe, ServerResumes \/ ServerGoesOn PROVE PauseSafe'
  OBVIOUS
<1>1. PICK none \in Seq(Mail) : none = <<>> /\ Len(none) = 0 /\ toPlayer' = toPlayer \o none
  <2>1. toPlayer \in Seq(Mail) /\ toPlayer' = toPlayer
    BY DEF PauseSafe, PauseTypes, ServerResumes, ServerGoesOn
  <2>2. \A t \in Seq(Mail) : t \o <<>> = t
    BY ConcatEmptySeq
  <2>3. <<>> \in Seq(Mail) /\ Len(<<>>) = 0
    OBVIOUS
  <2>4. toPlayer' = toPlayer \o <<>>
    BY <2>1, <2>2
  <2>5. QED
    BY <2>3, <2>4
<1>2. /\ budget' = BufferFrames /\ idle' = FALSE /\ unasked' \in BOOLEAN
      /\ UNCHANGED <<pauseState, played>>
      /\ fromPlayer' = fromPlayer \/ (fromPlayer # <<>> /\ fromPlayer' = Tail(fromPlayer))
  BY DEF PauseSafe, PauseTypes, ServerResumes, ServerGoesOn
<1>3. nextFrame' = nextFrame \/ nextFrame' = 1 \/ nextFrame' \in Played \ {0}
  <2>1. CASE ServerResumes
    <3>1. 1 \in DOMAIN fromPlayer /\ Head(fromPlayer) = fromPlayer[1]
      BY <2>1 DEF ServerResumes, PauseSafe, PauseTypes
    <3>2. Held(fromPlayer[1].stamp)
      BY <3>1 DEF PauseSafe, NoGap, StampsHeld
    <3>3. QED
      BY <2>1, <3>1, <3>2 DEF ServerResumes, Held
  <2>2. QED
    BY <2>1 DEF ServerGoesOn
<1>4. \A i \in 1 .. Len(none) : none[i].kind = "frame" => i = 1 /\ none[i].frame = nextFrame
  BY <1>1
<1>5. budget' \in 0 .. BufferFrames /\ idle' \in BOOLEAN /\ budget' > 0
  <2>1. budget' = BufferFrames
    BY <1>2
  <2>2. budget' \in 0 .. BufferFrames /\ budget' > 0
    BY <2>1, BufferAssumption
  <2>3. QED
    BY <2>2, <1>2
<1>6. QED
  BY <1>1, <1>2, <1>3, <1>4, <1>5, ServerSafe

(* Every step of the stream.                                               *)
LEMMA PauseSafeStep == PauseSafe /\ [PauseNext]_pausevars => PauseSafe'
<1>1. PauseSafe /\ UNCHANGED pausevars => PauseSafe'
  BY DEF pausevars, pauseState, serverPart, PauseSafe, PauseTypes, NoGap, NoneMissed, StampsHeld,
         MailFollows, Follows, Held, Played
<1>2. QED
  BY <1>1, NextMediaPacketSafe, BufferEmptySafe, StreamEOFSafe, PauseNotifySafe, ToggleStreamSafe,
     ServerSendsFrameSafe, ServerPausesSafe, ServerGoesSafe DEF PauseNext

-----------------------------------------------------------------------------
(* And the second half, while the server begins no buffer by itself.       *)

NowRests == AtRest /\ (Pausing \/ Paused \/ Resuming)

(* The next frame is shown, and no other one.                              *)
LEMMA OnceMore ==
  ASSUME PauseTypes, Once, played' = Append(played, LastFrame + 1)
  PROVE  Once' /\ LastFrame' = LastFrame + 1
<1>1. played \in Seq(Nat)
  BY DEF PauseTypes
<1>2. LastFrame \in Nat /\ Len(played') = LastFrame + 1 /\ played'[LastFrame + 1] = LastFrame + 1
      /\ \A i \in 1 .. LastFrame : played'[i] = played[i]
  BY <1>1 DEF LastFrame
<1>3. DOMAIN played' = 1 .. LastFrame + 1 /\ DOMAIN played = 1 .. LastFrame
  BY <1>1, <1>2 DEF LastFrame
<1>4. QED
  BY <1>2, <1>3 DEF Once, LastFrame

(* What can arrive when the buffer was used up, and while it is filled.    *)
LEMMA RestingMail ==
  ASSUME NowRests
  PROVE  \/ toPlayer = <<>>
         \/ Head(toPlayer).kind = "eof" /\ pausing = 1 /\ Tail(toPlayer) = <<Word("paused")>>
         \/ Head(toPlayer).kind = "paused" /\ pausing \in {1, 2} /\ Tail(toPlayer) = <<>>
<1>1. Word("eof").kind = "eof" /\ Word("paused").kind = "paused"
  BY DEF Word
<1>2. CASE toPlayer = <<Word("eof"), Word("paused")>> /\ pausing = 1
  BY <1>1, <1>2
<1>3. CASE toPlayer = <<Word("paused")>> /\ pausing \in {1, 2}
  BY <1>1, <1>3
<1>4. QED
  BY <1>2, <1>3 DEF NowRests, Pausing, Paused, Resuming

LEMMA StreamingMail ==
  ASSUME PauseTypes, NEW m \in Nat, NEW next \in Nat, NEW first \in Nat \ {0},
         StreamAt(m, next, first), toPlayer # <<>>
  PROVE  \/ m > 0 /\ Head(toPlayer) = Frame(next)
         \/ m = 0 /\ idle /\ Head(toPlayer) = Word("empty")
<1>1. toPlayer \in Seq(Mail) /\ Len(toPlayer) > 0 /\ Head(toPlayer) = toPlayer[1]
  BY DEF PauseTypes
<1>2. CASE m > 0
  <2>1. toPlayer[1] = Frame(next + 1 - 1) /\ next + 1 - 1 = next
    BY <1>2 DEF StreamAt
  <2>2. QED
    BY <1>1, <1>2, <2>1
<1>3. CASE m = 0
  <2>1. idle
    BY <1>1, <1>3 DEF StreamAt
  <2>2. QED
    BY <1>1, <1>3, <2>1 DEF StreamAt
<1>4. QED
  BY <1>2, <1>3

(* A frame arrives only while the server streams.                          *)
LEMMA NextMediaPacketTurn ==
  ASSUME PauseTypes, Once, Streaming \/ NowRests, NextMediaPacket
  PROVE  Once' /\ Streaming'
<1>1. toPlayer # <<>> /\ Head(toPlayer).kind = "frame"
  BY DEF NextMediaPacket, Arrived
<1>2. PICK m \in Nat, next \in Nat, first \in Nat \ {0} : StreamAt(m, next, first)
  BY <1>1, RestingMail DEF Streaming
<1>3. m > 0 /\ Head(toPlayer) = Frame(next) /\ Head(toPlayer).frame = next
  BY <1>1, <1>2, StreamingMail DEF Frame, Word
<1>4. /\ toPlayer' = Tail(toPlayer) /\ channelStamp' = next
      /\ mediaStamp' = (IF pausing = 0 THEN next ELSE mediaStamp)
      /\ pausing' = (IF pausing = 3 /\ ~Skipped(next) THEN 0 ELSE pausing)
      /\ played' = (IF Skipped(next) THEN played ELSE Append(played, next))
      /\ UNCHANGED <<pauseStamp, fromPlayer, nextFrame, budget, idle, unasked>>
  BY <1>3 DEF NextMediaPacket, serverPart
<1>5. /\ toPlayer \in Seq(Mail) /\ Len(toPlayer) \in Nat /\ LastFrame \in Nat /\ budget \in Nat
      /\ nextFrame \in Nat /\ BufferFrames \in Nat /\ mediaStamp \in Nat
  BY BufferAssumption DEF PauseTypes, LastFrame
<1>6. Len(toPlayer') = Len(toPlayer) - 1
      /\ \A i \in 1 .. Len(toPlayer') : toPlayer'[i] = toPlayer[i + 1]
  BY <1>1, <1>4, <1>5
<1>7. /\ Len(toPlayer') = (m - 1) + (IF idle' THEN 1 ELSE 0)
      /\ nextFrame' = (next + 1) + (m - 1) /\ nextFrame' + budget' = first + BufferFrames
      /\ fromPlayer' = <<>> /\ (idle' <=> budget' = 0)
      /\ \A i \in 1 .. m - 1 : toPlayer'[i] = Frame((next + 1) + i - 1)
      /\ idle' => toPlayer'[(m - 1) + 1] = Word("empty")
  <2>1. Len(toPlayer) = m + (IF idle THEN 1 ELSE 0) /\ nextFrame = next + m
        /\ nextFrame + budget = first + BufferFrames
        /\ fromPlayer = <<>> /\ (idle <=> budget = 0)
    BY <1>2 DEF StreamAt
  <2>2. ASSUME NEW i \in 1 .. m - 1 PROVE toPlayer'[i] = Frame((next + 1) + i - 1)
    <3>0. m \in Int /\ next \in Int
      OBVIOUS
    <3>4. i + 1 \in 1 .. m /\ next + (i + 1) - 1 = (next + 1) + i - 1
      BY <3>0
    <3>5. Len(toPlayer') >= m - 1 /\ Len(toPlayer') \in Int
      BY <2>1, <1>5, <1>6, <3>0
    <3>1. i + 1 \in 1 .. m /\ next + (i + 1) - 1 = (next + 1) + i - 1 /\ i \in 1 .. Len(toPlayer')
      BY <3>4, <3>5
    <3>2. toPlayer[i + 1] = Frame(next + (i + 1) - 1)
      BY <3>1, <1>2 DEF StreamAt
    <3>3. QED
      BY <3>1, <3>2, <1>6
  <2>3. idle' => toPlayer'[(m - 1) + 1] = Word("empty")
    BY <2>1, <1>2, <1>3, <1>4, <1>6 DEF StreamAt
  <2>4. QED
    BY <2>1, <2>2, <2>3, <1>3, <1>4, <1>5, <1>6
<1>8. CASE pausing = 0
  <2>1. ~Skipped(next) /\ next = LastFrame + 1
    BY <1>8, <1>2 DEF Skipped, StreamAt
  <2>2. Once' /\ LastFrame' = LastFrame + 1
    BY <2>1, <1>4, OnceMore
  <2>3. next >= first
    BY <1>8, <1>2 DEF StreamAt
  <2>4. /\ pausing' = 0 /\ mediaStamp' = LastFrame' /\ channelStamp' = LastFrame'
        /\ next + 1 = LastFrame' + 1 /\ next + 1 >= first
    BY <2>1, <2>2, <2>3, <1>4, <1>5, <1>8
  <2>5. StreamAt(m - 1, next + 1, first)'
    BY <2>4, <1>7 DEF StreamAt
  <2>6. QED
    BY <2>2, <2>5, <1>3 DEF Streaming
<1>9. CASE pausing = 3 /\ next = first
  <2>1. Skipped(next) /\ mediaStamp = LastFrame /\ first = LastFrame
    BY <1>9, <1>2 DEF Skipped, StreamAt
  <2>2. played' = played /\ pausing' = 3 /\ mediaStamp' = mediaStamp /\ LastFrame' = LastFrame
    BY <2>1, <1>4, <1>9 DEF LastFrame
  <2>3. Once'
    BY <2>2 DEF Once
  <2>4. StreamAt(m - 1, next + 1, first)'
    BY <2>1, <2>2, <1>4, <1>5, <1>7, <1>9 DEF StreamAt
  <2>5. QED
    BY <2>3, <2>4, <1>3 DEF Streaming
<1>10. CASE pausing = 3 /\ next = first + 1
  <2>1. ~Skipped(next) /\ next = LastFrame + 1 /\ mediaStamp = LastFrame /\ first = LastFrame
    BY <1>10, <1>2, <1>5 DEF Skipped, StreamAt
  <2>2. Once' /\ LastFrame' = LastFrame + 1
    BY <2>1, <1>4, OnceMore
  <2>3. pausing' = 0 /\ mediaStamp' = mediaStamp
    BY <2>1, <1>4, <1>10
  <2>4. /\ channelStamp' = LastFrame' /\ next + 1 = LastFrame' + 1 /\ next + 1 >= first
        /\ next + 1 = first + 2
    BY <2>1, <2>2, <2>3, <1>4, <1>5, <1>10
  <2>5. StreamAt(m - 1, next + 1, first)'
    BY <2>3, <2>4, <1>7 DEF StreamAt
  <2>6. QED
    BY <2>2, <2>5, <1>3 DEF Streaming
<1>11. QED
  BY <1>2, <1>8, <1>9, <1>10 DEF StreamAt

LEMMA BufferEmptyTurn ==
  ASSUME PauseTypes, Once, Streaming \/ NowRests, BufferEmpty
  PROVE  Once' /\ NowRests'
<1>1. toPlayer # <<>> /\ Head(toPlayer).kind = "empty" /\ toPlayer' = Tail(toPlayer)
  BY DEF BufferEmpty, Arrived
<1>2. PICK m \in Nat, next \in Nat, first \in Nat \ {0} : StreamAt(m, next, first)
  BY <1>1, RestingMail DEF Streaming
<1>3. m = 0 /\ idle
  BY <1>1, <1>2, StreamingMail DEF Frame, Word
<1>4. LastFrame \in Nat /\ budget \in Nat /\ BufferFrames \in Nat \ {0, 1, 2} /\ toPlayer \in Seq(Mail)
  BY BufferAssumption DEF PauseTypes, LastFrame
<1>5. next = first + BufferFrames /\ Len(toPlayer) = 1
  BY <1>2, <1>3, <1>4 DEF StreamAt
<1>6. pausing = 0 /\ mediaStamp = LastFrame /\ LastFrame > 0 /\ channelStamp = LastFrame /\ fromPlayer = <<>>
  BY <1>2, <1>3, <1>4, <1>5 DEF StreamAt
<1>7. toPlayer' = <<>>
  BY <1>1, <1>4, <1>5
<1>8. pausing' = 1 /\ pauseStamp' = channelStamp
  BY <1>6 DEF BufferEmpty, SendPause
<1>9. fromPlayer' = <<[pause |-> TRUE, stamp |-> channelStamp]>>
  BY <1>6 DEF BufferEmpty, SendPause
<1>10. UNCHANGED <<mediaStamp, channelStamp, idle, played>>
  BY DEF BufferEmpty, serverPart
<1>11. LastFrame' = LastFrame /\ Once'
  BY <1>10 DEF LastFrame, Once
<1>12. AtRest'
  BY <1>3, <1>6, <1>8, <1>10, <1>11 DEF AtRest
<1>13. Pausing'
  BY <1>6, <1>7, <1>8, <1>9, <1>11 DEF Pausing
<1>14. QED
  BY <1>11, <1>12, <1>13 DEF NowRests

(* An answer to the pause finds the player at rest.                        *)
LEMMA AnsweredResting ==
  ASSUME PauseTypes, Streaming \/ NowRests, NEW k \in {"eof", "paused"}, Arrived(k)
  PROVE  NowRests /\ Paused
<1>1. toPlayer # <<>> /\ Head(toPlayer).kind = k
  BY DEF Arrived
<1>2. NowRests
  BY <1>1, StreamingMail DEF Streaming, Frame, Word
<1>3. Paused
  BY <1>1, <1>2 DEF NowRests, Pausing, Resuming
<1>4. QED
  BY <1>2, <1>3

LEMMA StreamEOFTurn ==
  ASSUME PauseTypes, Once, Streaming \/ NowRests, StreamEOF
  PROVE  Once' /\ NowRests'
<1>1. NowRests /\ Paused
  BY AnsweredResting DEF StreamEOF
<1>2. /\ pausing' = (IF pausing = 1 THEN 2 ELSE pausing) /\ toPlayer' = Tail(toPlayer)
      /\ UNCHANGED <<mediaStamp, pauseStamp, channelStamp, fromPlayer, idle, played>>
      /\ Head(toPlayer).kind = "eof" /\ toPlayer # <<>>
  BY DEF StreamEOF, serverPart, Arrived
<1>3. pausing = 1 /\ Tail(toPlayer) = <<Word("paused")>>
  BY <1>1, <1>2, RestingMail
<1>4. LastFrame' = LastFrame /\ Once'
  BY <1>2 DEF LastFrame, Once
<1>5. AtRest'
  BY <1>1, <1>2, <1>4 DEF AtRest, NowRests
<1>6. Paused'
  BY <1>1, <1>2, <1>3 DEF Paused
<1>7. QED
  BY <1>4, <1>5, <1>6 DEF NowRests

LEMMA PauseNotifyTurn ==
  ASSUME PauseTypes, Once, Streaming \/ NowRests, PauseNotify
  PROVE  Once' /\ NowRests'
<1>1. NowRests /\ Paused
  BY AnsweredResting DEF PauseNotify
<1>2. /\ toPlayer' = Tail(toPlayer) /\ Head(toPlayer).kind = "paused" /\ toPlayer # <<>>
      /\ UNCHANGED <<mediaStamp, pauseStamp, channelStamp, idle, played>>
  BY DEF PauseNotify, serverPart, Arrived
<1>3. pausing \in {1, 2} /\ Tail(toPlayer) = <<>> /\ fromPlayer = <<>>
  BY <1>1, <1>2, RestingMail DEF Paused
<1>4. fromPlayer' = Append(fromPlayer, [pause |-> FALSE, stamp |-> pauseStamp]) /\ pausing' = 3
  BY <1>3 DEF PauseNotify, SendPause
<1>5. LastFrame' = LastFrame /\ Once'
  BY <1>2 DEF LastFrame, Once
<1>6. AtRest' /\ pauseStamp = LastFrame
  BY <1>1, <1>2, <1>5 DEF AtRest, NowRests
<1>7. fromPlayer' = <<[pause |-> FALSE, stamp |-> LastFrame]>>
  BY <1>3, <1>4, <1>6
<1>8. Resuming'
  BY <1>2, <1>3, <1>4, <1>5, <1>7 DEF Resuming
<1>9. QED
  BY <1>5, <1>6, <1>8 DEF NowRests

LEMMA NoToggleTurn ==
  ASSUME PauseTypes, Streaming \/ NowRests
  PROVE  ~ToggleStream
<1> SUFFICES ASSUME ToggleStream PROVE FALSE
  OBVIOUS
<1>1. toPlayer = <<>> /\ fromPlayer = <<>> /\ idle
  BY DEF ToggleStream
<1>2. CASE Streaming
  BY <1>1, <1>2 DEF Streaming, StreamAt
<1>3. CASE NowRests
  BY <1>1, <1>3 DEF NowRests, Pausing, Paused, Resuming
<1>4. QED
  BY <1>2, <1>3

LEMMA ServerSendsFrameTurn ==
  ASSUME PauseTypes, Once, Streaming \/ NowRests, ServerSendsFrame
  PROVE  Once' /\ Streaming'
<1>1. ~idle
  BY DEF ServerSendsFrame
<1>2. PICK m \in Nat, next \in Nat, first \in Nat \ {0} : StreamAt(m, next, first)
  BY <1>1 DEF Streaming, NowRests, AtRest
<1>3. /\ toPlayer' = (toPlayer \o <<Frame(nextFrame)>>)
                        \o IF budget = 1 THEN <<Word("empty")>> ELSE <<>>
      /\ budget' = budget - 1 /\ nextFrame' = nextFrame + 1
      /\ UNCHANGED <<pausing, mediaStamp, pauseStamp, channelStamp, fromPlayer, played>>
  BY DEF ServerSendsFrame, Frame, Word, pauseState
<1>4. idle' <=> budget = 1
  BY DEF ServerSendsFrame
<1>5. /\ toPlayer \in Seq(Mail) /\ Len(toPlayer) \in Nat /\ LastFrame \in Nat /\ budget \in Nat
      /\ nextFrame \in Nat \ {0} /\ BufferFrames \in Nat /\ budget > 0
  BY BufferAssumption, <1>1 DEF PauseTypes, LastFrame
<1>6. Len(toPlayer) = m /\ nextFrame = next + m /\ nextFrame + budget = first + BufferFrames
  BY <1>1, <1>2 DEF StreamAt
<1>7. PICK f \in Mail, w \in Mail : f = Frame(nextFrame) /\ w = Word("empty")
  BY <1>5, MailMade
<1>8. /\ Len(toPlayer') = (m + 1) + (IF budget = 1 THEN 1 ELSE 0)
      /\ \A i \in 1 .. m : toPlayer'[i] = toPlayer[i]
      /\ toPlayer'[m + 1] = f
      /\ budget = 1 => toPlayer'[m + 2] = w
  <2>1. CASE budget = 1
    <3>1. toPlayer' = (toPlayer \o <<f>>) \o <<w>>
      BY <1>3, <1>7, <2>1
    <3> DEFINE t == (toPlayer \o <<f>>) \o <<w>>
    <3>2. /\ Len(t) = Len(toPlayer) + 2 /\ t[Len(toPlayer) + 1] = f /\ t[Len(toPlayer) + 2] = w
          /\ \A i \in 1 .. Len(toPlayer) : t[i] = toPlayer[i]
      BY <1>5, PutTwo
    <3> HIDE DEF t
    <3>3. toPlayer' = t
      BY <3>1 DEF t
    <3>4. QED
      BY <3>2, <3>3, <1>6, <2>1
  <2>2. CASE budget # 1
    <3>1. toPlayer' = (toPlayer \o <<f>>) \o <<>>
      BY <1>3, <1>7, <2>2
    <3>2. toPlayer' = toPlayer \o <<f>>
      BY <3>1, <1>5, JoinTwo
    <3>3. QED
      BY <3>2, <1>5, <1>6, <2>2
  <2>3. QED
    BY <2>1, <2>2
<1>9. LastFrame' = LastFrame /\ Once'
  BY <1>3 DEF LastFrame, Once
<1>10. ASSUME NEW i \in 1 .. m + 1 PROVE toPlayer'[i] = Frame(next + i - 1)
  <2>1. CASE i \in 1 .. m
    BY <2>1, <1>2, <1>8 DEF StreamAt
  <2>2. CASE i = m + 1
    <3>1. next + i - 1 = nextFrame
      BY <2>2, <1>6
    <3>2. QED
      BY <3>1, <2>2, <1>7, <1>8
  <2>3. QED
    BY <2>1, <2>2
<1>11. /\ Len(toPlayer') = (m + 1) + (IF idle' THEN 1 ELSE 0)
       /\ nextFrame' = next + (m + 1) /\ nextFrame' + budget' = first + BufferFrames
       /\ (idle' <=> budget' = 0) /\ m + 1 \in Nat
  BY <1>3, <1>4, <1>5, <1>6, <1>8
<1>12. idle' => toPlayer'[(m + 1) + 1] = Word("empty")
  <2>1. m + 2 = (m + 1) + 1
    OBVIOUS
  <2>2. QED
    BY <2>1, <1>4, <1>7, <1>8
<1>13. StreamAt(m + 1, next, first)'
  BY <1>2, <1>3, <1>9, <1>10, <1>11, <1>12 DEF StreamAt
<1>14. QED
  BY <1>9, <1>11, <1>13 DEF Streaming

LEMMA ServerPausesTurn ==
  ASSUME PauseTypes, Once, Streaming \/ NowRests, ServerPauses
  PROVE  Once' /\ NowRests'
<1>1. fromPlayer # <<>> /\ Head(fromPlayer).pause
  BY DEF ServerPauses
<1>2. NowRests /\ Pausing
  <2>1. ~Streaming /\ ~Paused
    BY <1>1 DEF Streaming, StreamAt, Paused
  <2>2. ~Resuming
    BY <1>1 DEF Resuming
  <2>3. QED
    BY <2>1, <2>2 DEF NowRests
<1>3. /\ fromPlayer' = Tail(fromPlayer) /\ idle' = TRUE
      /\ UNCHANGED <<pausing, mediaStamp, pauseStamp, channelStamp, played>>
  BY DEF ServerPauses, pauseState
<1>4. fromPlayer' = <<>> /\ pausing = 1
  <2> DEFINE r == [pause |-> TRUE, stamp |-> LastFrame]
  <2>1. fromPlayer = <<r>> /\ pausing = 1
    BY <1>2 DEF Pausing
  <2> HIDE DEF r
  <2>2. QED
    BY <2>1, <1>3
<1>5. toPlayer' = <<Word("eof"), Word("paused")>> \/ toPlayer' = <<Word("paused")>>
  <2>1. PICK e, w : e = Word("eof") /\ w = Word("paused")
    OBVIOUS
  <2>2. toPlayer' = (<<>> \o <<e>>) \o <<w>> \/ toPlayer' = (<<>> \o <<>>) \o <<w>>
    BY <2>1, <1>2 DEF ServerPauses, Pausing, Word
  <2>3. QED
    BY <2>1, <2>2, Pairs
<1>6. LastFrame' = LastFrame /\ Once'
  BY <1>3 DEF LastFrame, Once
<1>7. AtRest'
  BY <1>2, <1>3, <1>6 DEF NowRests, AtRest
<1>8. Paused'
  BY <1>3, <1>4, <1>5 DEF Paused
<1>9. QED
  BY <1>6, <1>7, <1>8 DEF NowRests

(* The server begins a buffer where the player wants it.                   *)
LEMMA ServerResumesTurn ==
  ASSUME PauseTypes, Once, Streaming \/ NowRests, ServerResumes
  PROVE  Once' /\ Streaming'
<1>1. fromPlayer # <<>> /\ ~Head(fromPlayer).pause
  BY DEF ServerResumes
<1>2. NowRests /\ Resuming
  <2>1. ~Streaming /\ ~Paused
    BY <1>1 DEF Streaming, StreamAt, Paused
  <2>2. ~Pausing
    BY <1>1 DEF Pausing
  <2>3. QED
    BY <2>1, <2>2 DEF NowRests
<1>3. /\ fromPlayer' = Tail(fromPlayer) /\ budget' = BufferFrames
      /\ nextFrame' = (IF Head(fromPlayer).stamp = 0 THEN 1 ELSE Head(fromPlayer).stamp)
      /\ UNCHANGED <<toPlayer, pausing, mediaStamp, pauseStamp, channelStamp, played>>
  BY DEF ServerResumes, pauseState
<1>4. idle' = FALSE
  BY DEF ServerResumes
<1>5. fromPlayer' = <<>> /\ Head(fromPlayer).stamp = LastFrame
  <2> DEFINE r == [pause |-> FALSE, stamp |-> LastFrame]
  <2>1. r.stamp = LastFrame
    OBVIOUS
  <2>2. fromPlayer = <<r>>
    BY <1>2 DEF Resuming
  <2> HIDE DEF r
  <2>3. QED
    BY <2>1, <2>2, <1>3
<1>6. LastFrame \in Nat \ {0} /\ BufferFrames \in Nat \ {0} /\ LastFrame' = LastFrame /\ Once'
  BY <1>2, <1>3, BufferAssumption DEF LastFrame, Once, NowRests, AtRest, PauseTypes
<1>7. /\ toPlayer' = <<>> /\ pausing' = 3 /\ mediaStamp' = LastFrame' /\ channelStamp' = LastFrame'
      /\ nextFrame' = LastFrame
  BY <1>2, <1>3, <1>5, <1>6 DEF NowRests, AtRest, Resuming
<1>8. StreamAt(0, LastFrame, LastFrame)'
  BY <1>3, <1>4, <1>5, <1>6, <1>7 DEF StreamAt
<1>9. PICK l \in Nat \ {0} : l = LastFrame
  BY <1>6
<1>10. StreamAt(0, l, l)'
  BY <1>8, <1>9, <1>6
<1>11. QED
  BY <1>6, <1>10 DEF Streaming

(* Every step but the toggle of the user, and the buffer nobody asked for. *)
LEMMA PauseTurnStep == PauseTypes /\ InTurn /\ [PauseNext]_pausevars => InTurn'
<1> SUFFICES ASSUME PauseTypes, InTurn, [PauseNext]_pausevars, ~unasked' PROVE InTurn'
  BY DEF InTurn
<1>1. unasked' = unasked \/ ServerGoesOn
  BY DEF PauseNext, NextMediaPacket, BufferEmpty, StreamEOF, PauseNotify, ToggleStream,
         ServerSendsFrame, ServerPauses, ServerResumes, pausevars
<1>2. ~ServerGoesOn
  BY DEF ServerGoesOn
<1>3. Once /\ (Streaming \/ NowRests)
  BY <1>1, <1>2 DEF InTurn, NowRests
<1>4. CASE UNCHANGED pausevars
  <2>1. UNCHANGED <<pausing, mediaStamp, pauseStamp, channelStamp, toPlayer, fromPlayer,
                    nextFrame, budget, idle, played>>
    BY <1>4 DEF pausevars, pauseState, serverPart
  <2>2. Once' /\ LastFrame' = LastFrame
    BY <2>1, <1>3 DEF Once, LastFrame
  <2>3. NowRests => NowRests'
    BY <2>1, <2>2 DEF NowRests, AtRest, Pausing, Paused, Resuming
  <2>4. Streaming => Streaming'
    BY <2>1, <2>2 DEF Streaming, StreamAt
  <2>5. QED
    BY <1>3, <2>2, <2>3, <2>4 DEF InTurn, NowRests
<1>5. CASE PauseNext
  <2>1. Once' /\ (Streaming' \/ NowRests')
    BY <1>2, <1>3, <1>5, NextMediaPacketTurn, BufferEmptyTurn, StreamEOFTurn, PauseNotifyTurn,
       NoToggleTurn, ServerSendsFrameTurn, ServerPausesTurn, ServerResumesTurn DEF PauseNext
  <2>2. QED
    BY <2>1 DEF InTurn, NowRests
<1>6. QED
  BY <1>4, <1>5

(* RTMP_GetNextMediaPacket and RTMP_ClientPacket show every frame of the   *)
(* stream in its order over any number of pauses, and each one once while  *)
(* the server sends only what was asked for.                               *)
THEOREM FramesAlwaysInFull == PauseSpec => []FramesInFull
<1>1. PauseInit => PauseInv
  BY PauseInitInv
<1>2. PauseInv /\ [PauseNext]_pausevars => PauseInv'
  BY PauseSafeStep, PauseTurnStep DEF PauseInv, PauseSafe
<1>3. PauseInv => FramesInFull
  BY DEF PauseInv, NoGap, NoneMissed, InTurn, Once, FramesInFull
<1>4. QED
  BY <1>1, <1>2, <1>3, PTL DEF PauseSpec

-----------------------------------------------------------------------------

Kind == {"parameters", "frame", "tag"}
Places == {"idle", "lock", "fill", "number", "send"}
Inside == {"fill", "number", "send"}
PacketForm == [body : Nat, kind : Kind \cup {"none"}, time : Nat]

PusherForm ==
  /\ rtmpHandle \in {"none", "failed", "live", "released", "freed"}
  /\ rtmp \in {"none", "connected", "broken"}
  /\ packet \in PacketForm /\ mTimestamp \in Nat
  /\ mute_x \in Pusher \cup {NoThread}
  /\ pushing \in [Pusher -> [at : Places, n : Nat]]
  /\ asked \in Seq(Kind) /\ messages \in Seq(PacketForm) /\ loose \in Nat

(* Nothing is pushed before there is a handle.                             *)
NothingBefore ==
  rtmpHandle \in {"none", "failed"} =>
    /\ asked = <<>> /\ messages = <<>> /\ loose = 0
    /\ \A p \in Pusher : pushing[p].at = "idle"
ConnectionOf == (rtmpHandle = "live" => rtmp # "none")
                /\ (rtmpHandle \in {"released", "freed"} => rtmp = "none")

(* Only who has the mutex is in the middle of a push.                      *)
OneInside == \A p \in Pusher : pushing[p].at \in Inside => mute_x = p

(* Pushes have numbers of their own, and a message is of one that is over. *)
OwnNumbers ==
  /\ \A p \in Pusher : pushing[p].at # "idle" => pushing[p].n \in 1 .. Len(asked)
  /\ \A p, q \in Pusher :
       p # q /\ pushing[p].at # "idle" /\ pushing[q].at # "idle" => pushing[p].n # pushing[q].n
  /\ \A i \in DOMAIN messages :
       /\ messages[i].body \in 1 .. Len(asked)
       /\ \A p \in Pusher : pushing[p].at # "idle" => pushing[p].n # messages[i].body

(* What a push has put into the packet is still there when it goes on.     *)
Kept(p) ==
  rtmpHandle # "freed" =>
    /\ pushing[p].at \in {"number", "send"} => packet.body = pushing[p].n
    /\ pushing[p].at = "send" =>
         LET kind == asked[pushing[p].n] IN
         /\ packet.kind = kind
         /\ kind = "parameters" => packet.time = 0
         /\ kind = "tag" => packet.time = pushing[p].n
         /\ kind = "frame" => /\ packet.time + Step <= mTimestamp
                              /\ \A i \in DOMAIN messages :
                                   messages[i].kind = "frame" => messages[i].time < packet.time
PacketKept == \A p \in Pusher : Kept(p)
TimesBehind ==
  \A i \in DOMAIN messages : messages[i].kind = "frame" => messages[i].time + Step <= mTimestamp

Busy == {p \in Pusher : pushing[p].at # "idle"}
StraysCounted ==
  IF rtmpHandle \in {"released", "freed"}
  THEN loose + Cardinality(Busy) <= Cardinality(Pusher)
  ELSE loose = 0

HandleInv ==
  /\ PusherForm /\ NothingBefore /\ ConnectionOf /\ OneInside /\ OwnNumbers /\ PacketKept
  /\ TimesBehind /\ MessagesWhole /\ StraysCounted

(* What of the file was read is what went out, the rest is left.           *)
FileForm ==
  /\ file \in [at : {"idle", "tags", "over"}, left : Seq(Tag), open : BOOLEAN]
  /\ tags \in Seq(Tag) /\ Len(file.left) <= Len(tags)
  /\ \A i \in 1 .. Len(file.left) : file.left[i] = tags[Len(tags) - Len(file.left) + i]
  /\ shown \in Seq([tag : Tag, at : Nat]) /\ playTime \in Nat
  /\ file.at = "idle" => shown = <<>>
FileInv == FileForm /\ FileInOrder

-----------------------------------------------------------------------------
(* The threads that push, and where each of them is.                       *)
LEMMA Moved ==
  ASSUME PusherForm, NEW p \in Pusher, NEW spot \in Places, To(p, spot)
  PROVE  /\ pushing' \in [Pusher -> [at : Places, n : Nat]]
         /\ pushing'[p].at = spot /\ pushing'[p].n = pushing[p].n
         /\ \A q \in Pusher : q # p => pushing'[q] = pushing[q]
BY DEF PusherForm, To

LEMMA PushForm ==
  ASSUME PusherForm, NEW p \in Pusher
  PROVE  pushing[p].at \in Places /\ pushing[p].n \in Nat
BY DEF PusherForm

(* The push leaves the part of the code that the mutex guards.             *)
LEMMA EndCounts ==
  ASSUME PusherForm, NEW p \in Pusher, pushing[p].at # "idle", pushing'[p].at = "idle",
         \A q \in Pusher : q # p => pushing'[q] = pushing[q]
  PROVE  /\ Cardinality(Busy) \in Nat /\ Cardinality(Busy') = Cardinality(Busy) - 1
<1>1. Busy' = Busy \ {p} /\ p \in Busy
  BY DEF Busy
<1>2. IsFiniteSet(Busy)
  BY ThreadAssumption, FS_Subset DEF Busy
<1>3. QED
  BY <1>1, <1>2, FS_RemoveElement, FS_CardinalityType

(* No push begins or ends.                                                 *)
LEMMA SameBusy ==
  ASSUME \A q \in Pusher : pushing'[q].at # "idle" <=> pushing[q].at # "idle"
  PROVE  Busy' = Busy
BY DEF Busy

(* The handle is made.                                                     *)
LEMMA initRtmpHandleKeeps == HandleInv /\ initRtmpHandle => HandleInv'
<1> SUFFICES ASSUME HandleInv, initRtmpHandle PROVE HandleInv'
  OBVIOUS
<1> USE DEF HandleInv
<1>1. /\ rtmpHandle = "none" /\ packet' = EmptyPacket /\ mTimestamp' = 0
      /\ \/ rtmpHandle' = "live" /\ rtmp' = "connected"
         \/ rtmpHandle' = "failed" /\ rtmp' = "none"
      /\ UNCHANGED <<mute_x, pushing, asked, messages, loose>>
  BY DEF initRtmpHandle, callvars
<1>2. /\ asked = <<>> /\ messages = <<>> /\ loose = 0
      /\ \A p \in Pusher : pushing[p].at = "idle"
  BY <1>1 DEF NothingBefore
<1>3. packet' \in PacketForm
  BY <1>1 DEF EmptyPacket, PacketForm
<1>4. PusherForm'
  BY <1>1, <1>3 DEF PusherForm
<1>5. NothingBefore' /\ ConnectionOf' /\ OneInside' /\ OwnNumbers'
  BY <1>1, <1>2 DEF NothingBefore, ConnectionOf, OneInside, OwnNumbers
<1>6. PacketKept' /\ TimesBehind' /\ MessagesWhole' /\ StraysCounted'
  BY <1>1, <1>2 DEF PacketKept, Kept, TimesBehind, MessagesWhole, StraysCounted
<1>7. QED
  BY <1>4, <1>5, <1>6

(* It is released, first the connection and then the packet.               *)
LEMMA ReleaseKeeps == HandleInv /\ (ReleaseConnection \/ ReleasePacket) => HandleInv'
<1> SUFFICES ASSUME HandleInv, ReleaseConnection \/ ReleasePacket PROVE HandleInv'
  OBVIOUS
<1> USE DEF HandleInv
<1>1. /\ \/ rtmpHandle = "live" /\ rtmpHandle' = "released" /\ rtmp' = "none" /\ packet' = packet
         \/ rtmpHandle = "released" /\ rtmpHandle' = "freed" /\ packet' = EmptyPacket
            /\ rtmp' = rtmp
      /\ UNCHANGED <<mTimestamp, mute_x, pushing, asked, messages, loose>>
  BY DEF ReleaseConnection, ReleasePacket, callvars
<1>2. packet' \in PacketForm
  BY <1>1 DEF EmptyPacket, PacketForm, PusherForm
<1>3. PusherForm'
  BY <1>1, <1>2 DEF PusherForm
<1>4. NothingBefore' /\ ConnectionOf' /\ OneInside' /\ OwnNumbers'
  BY <1>1 DEF NothingBefore, ConnectionOf, OneInside, OwnNumbers
<1>5. PacketKept' /\ TimesBehind' /\ MessagesWhole'
  BY <1>1 DEF PacketKept, Kept, TimesBehind, MessagesWhole
<1>6. StraysCounted'
  <2>1. Busy' = Busy /\ Busy \subseteq Pusher
    BY <1>1 DEF Busy
  <2>2. Cardinality(Busy) <= Cardinality(Pusher)
        /\ Cardinality(Busy) \in Nat /\ Cardinality(Pusher) \in Nat
    BY <2>1, ThreadAssumption, FS_Subset, FS_CardinalityType
  <2>3. QED
    BY <2>1, <2>2, <1>1 DEF StraysCounted
<1>7. QED
  BY <1>3, <1>4, <1>5, <1>6

(* A push begins with the next number.                                     *)
LEMMA BeginPushKeeps ==
  ASSUME HandleInv, NEW p \in Pusher, NEW kind \in Kind, BeginPush(p, kind)
  PROVE  HandleInv'
<1> USE DEF HandleInv
<1> DEFINE k == Len(asked) + 1
<1>1. /\ pushing[p].at = "idle" /\ rtmpHandle = "live" /\ asked' = Append(asked, kind)
      /\ UNCHANGED <<rtmpHandle, rtmp, packet, mTimestamp, mute_x, messages, loose>>
  BY DEF BeginPush, At, handlevars
<1>2. asked \in Seq(Kind) /\ Len(asked) \in Nat /\ asked' \in Seq(Kind) /\ Len(asked') = k
      /\ \A i \in 1 .. Len(asked) : asked'[i] = asked[i]
  BY <1>1 DEF PusherForm
<1>3. /\ pushing' \in [Pusher -> [at : Places, n : Nat]]
      /\ pushing'[p].at = "lock" /\ pushing'[p].n = k
      /\ \A q \in Pusher : q # p => pushing'[q] = pushing[q]
  BY <1>2 DEF BeginPush, PusherForm, Places
<1> HIDE DEF k
<1>4. PusherForm'
  BY <1>1, <1>2, <1>3 DEF PusherForm
<1>5. NothingBefore' /\ ConnectionOf' /\ TimesBehind'
  BY <1>1 DEF NothingBefore, ConnectionOf, TimesBehind
<1>6. OneInside'
  BY <1>1, <1>3 DEF OneInside, Inside
<1>7. OwnNumbers'
  <2>1. \A q \in Pusher : q # p /\ pushing'[q].at # "idle" =>
          pushing'[q] = pushing[q] /\ pushing[q].n \in 1 .. Len(asked)
    BY <1>3 DEF OwnNumbers
  <2>2. k \in 1 .. Len(asked') /\ k \notin 1 .. Len(asked) /\ 1 .. Len(asked) \subseteq 1 .. Len(asked')
    BY <1>2 DEF k
  <2>3. \A q \in Pusher : pushing'[q].at # "idle" => pushing'[q].n \in 1 .. Len(asked')
    BY <2>1, <2>2, <1>3
  <2>4. \A q, r \in Pusher :
          q # r /\ pushing'[q].at # "idle" /\ pushing'[r].at # "idle" => pushing'[q].n # pushing'[r].n
    BY <2>1, <2>2, <1>3 DEF OwnNumbers
  <2>5. \A i \in DOMAIN messages' :
          /\ messages'[i].body \in 1 .. Len(asked')
          /\ \A q \in Pusher : pushing'[q].at # "idle" => pushing'[q].n # messages'[i].body
    BY <2>1, <2>2, <1>1, <1>3 DEF OwnNumbers
  <2>6. QED
    BY <2>3, <2>4, <2>5 DEF OwnNumbers
<1>8. PacketKept'
  <2>1. ASSUME NEW q \in Pusher PROVE Kept(q)'
    <3>1. CASE q = p
      BY <3>1, <1>3 DEF Kept
    <3>2. CASE q # p
      <4>1. pushing'[q] = pushing[q] /\ Kept(q)
        BY <3>2, <1>3 DEF PacketKept
      <4>2. pushing[q].at = "send" => asked'[pushing[q].n] = asked[pushing[q].n]
        BY <1>2 DEF OwnNumbers
      <4>3. QED
        BY <4>1, <4>2, <1>1 DEF Kept
    <3>3. QED
      BY <3>1, <3>2
  <2>2. QED
    BY <2>1 DEF PacketKept
<1>9. MessagesWhole'
  <2>1. \A i \in DOMAIN messages : asked'[messages[i].body] = asked[messages[i].body]
    BY <1>2 DEF OwnNumbers
  <2>2. messages' = messages
    BY <1>1
  <2>3. QED
    BY <2>1, <2>2 DEF MessagesWhole
<1>10. StraysCounted'
  BY <1>1 DEF StraysCounted
<1>11. QED
  BY <1>4, <1>5, <1>6, <1>7, <1>8, <1>9, <1>10

(* It gets the mutex, or the handle was released and it may go astray.     *)
LEMMA LockMutexKeeps ==
  ASSUME HandleInv, NEW p \in Pusher, LockMutex(p)
  PROVE  HandleInv'
<1> USE DEF HandleInv
<1>1. /\ pushing[p].at = "lock" /\ mute_x = NoThread /\ mute_x' = p /\ To(p, "fill")
      /\ UNCHANGED <<rtmpHandle, rtmp, packet, mTimestamp, asked, messages, loose>>
  BY DEF LockMutex, At, handlevars
<1>2. /\ pushing' \in [Pusher -> [at : Places, n : Nat]]
      /\ pushing'[p].at = "fill" /\ pushing'[p].n = pushing[p].n
      /\ \A q \in Pusher : q # p => pushing'[q] = pushing[q]
  BY <1>1, Moved DEF Places
<1>3. PusherForm'
  BY <1>1, <1>2 DEF PusherForm
<1>4. NothingBefore' /\ ConnectionOf' /\ TimesBehind' /\ MessagesWhole'
  BY <1>1 DEF NothingBefore, ConnectionOf, TimesBehind, MessagesWhole
<1>5. OneInside'
  BY <1>1, <1>2, ThreadAssumption DEF OneInside
<1>6. OwnNumbers'
  BY <1>1, <1>2 DEF OwnNumbers
<1>7. PacketKept'
  BY <1>1, <1>2 DEF PacketKept, Kept
<1>8. StraysCounted'
  <2>1. Busy' = Busy
    BY <1>1, <1>2, SameBusy
  <2>2. QED
    BY <2>1, <1>1 DEF StraysCounted
<1>9. QED
  BY <1>3, <1>4, <1>5, <1>6, <1>7, <1>8

(* A push that ends, with the packet it filled or without.                 *)
LEMMA EndKeeps ==
  ASSUME HandleInv, NEW p \in Pusher, pushing[p].at \in Inside, EndPush(p),
         loose' = loose \/ (loose' = loose + 1 /\ rtmpHandle \in {"released", "freed"}),
         UNCHANGED <<handlevars, asked, messages>>
  PROVE  HandleInv'
<1> USE DEF HandleInv
<1>1. UNCHANGED <<rtmpHandle, rtmp, packet, mTimestamp>>
  BY DEF handlevars
<1>2. /\ pushing' \in [Pusher -> [at : Places, n : Nat]]
      /\ pushing'[p].at = "idle" /\ pushing'[p].n = pushing[p].n
      /\ \A q \in Pusher : q # p => pushing'[q] = pushing[q]
  BY Moved DEF Places, EndPush
<1>3. mute_x = p /\ mute_x' = NoThread
  BY DEF OneInside, EndPush
<1>4. PusherForm'
  BY <1>1, <1>2, <1>3 DEF PusherForm
<1>5. NothingBefore' /\ ConnectionOf' /\ TimesBehind' /\ MessagesWhole'
  BY <1>1, <1>2 DEF NothingBefore, ConnectionOf, TimesBehind, MessagesWhole, Inside
<1>6. OneInside'
  BY <1>2, <1>3 DEF OneInside, Inside
<1>7. OwnNumbers'
  BY <1>2 DEF OwnNumbers
<1>8. PacketKept'
  BY <1>1, <1>2 DEF PacketKept, Kept
<1>9. StraysCounted'
  <2>1. Cardinality(Busy) \in Nat /\ Cardinality(Busy') = Cardinality(Busy) - 1
    BY <1>2, EndCounts DEF Inside
  <2>2. Cardinality(Pusher) \in Nat /\ loose \in Nat
    BY ThreadAssumption, FS_CardinalityType DEF PusherForm
  <2>3. QED
    BY <2>1, <2>2, <1>1 DEF StraysCounted
<1>10. QED
  BY <1>4, <1>5, <1>6, <1>7, <1>8, <1>9

(* It fills the packet, which belongs to nobody else now.                  *)
LEMMA FillKeeps ==
  ASSUME HandleInv, NEW p \in Pusher, Fill(p)
  PROVE  HandleInv'
<1> USE DEF HandleInv
<1>1. pushing[p].at = "fill" /\ pushing[p].at \in Inside /\ mute_x = p
  BY DEF Fill, At, Inside, OneInside
<1>2. CASE rtmpHandle = "freed"
  BY <1>1, <1>2, EndKeeps DEF Fill, Stray
<1>3. CASE rtmpHandle # "freed" /\ EndPush(p) /\ UNCHANGED <<handlevars, asked, messages, loose>>
  BY <1>1, <1>3, EndKeeps
<1>4. CASE /\ rtmpHandle # "freed" /\ packet' = [packet EXCEPT !.body = pushing[p].n]
           /\ To(p, "number")
           /\ UNCHANGED <<mute_x, rtmpHandle, rtmp, mTimestamp, asked, messages, loose>>
  <2>1. /\ pushing' \in [Pusher -> [at : Places, n : Nat]]
        /\ pushing'[p].at = "number" /\ pushing'[p].n = pushing[p].n
        /\ \A q \in Pusher : q # p => pushing'[q] = pushing[q]
    BY <1>4, Moved DEF Places
  <2>2. packet' \in PacketForm /\ packet'.body = pushing[p].n
    BY <1>4, PushForm DEF PusherForm, PacketForm
  <2>3. PusherForm'
    BY <1>4, <2>1, <2>2 DEF PusherForm
  <2>4. NothingBefore' /\ ConnectionOf' /\ TimesBehind' /\ MessagesWhole'
    BY <1>1, <1>4 DEF NothingBefore, ConnectionOf, TimesBehind, MessagesWhole
  <2>5. OneInside'
    BY <1>1, <1>4, <2>1 DEF OneInside
  <2>6. OwnNumbers'
    BY <1>1, <1>4, <2>1 DEF OwnNumbers
  <2>7. PacketKept'
    <3>1. \A q \in Pusher : q # p => pushing'[q].at \notin Inside
      BY <1>1, <2>1 DEF OneInside
    <3>2. QED
      BY <3>1, <2>1, <2>2 DEF PacketKept, Kept, Inside
  <2>8. StraysCounted'
    <3>1. Busy' = Busy
      BY <1>1, <2>1, SameBusy
    <3>2. QED
      BY <3>1, <1>4 DEF StraysCounted
  <2>9. QED
    BY <2>3, <2>4, <2>5, <2>6, <2>7, <2>8
<1>5. QED
  BY <1>2, <1>3, <1>4 DEF Fill, handlevars

(* It takes the time of the packet from the handle.                        *)
LEMMA NumberKeeps ==
  ASSUME HandleInv, NEW p \in Pusher, Number(p)
  PROVE  HandleInv'
<1> USE DEF HandleInv
<1>1. pushing[p].at = "number" /\ pushing[p].at \in Inside /\ mute_x = p
  BY DEF Number, At, Inside, OneInside
<1>2. CASE rtmpHandle = "freed"
  BY <1>1, <1>2, EndKeeps DEF Number, Stray
<1>3. CASE rtmpHandle # "freed"
  <2>1. PICK n \in Nat, kind \in Kind : n = pushing[p].n /\ kind = asked[n]
    BY <1>1, PushForm DEF OwnNumbers, PusherForm
  <2>2. /\ packet' = [packet EXCEPT !.kind = kind,
                         !.time = CASE kind = "parameters" -> 0
                                    [] kind = "frame" -> mTimestamp
                                    [] kind = "tag" -> n]
        /\ mTimestamp' = (IF kind = "frame" THEN mTimestamp + Step ELSE mTimestamp)
        /\ To(p, "send")
        /\ UNCHANGED <<rtmpHandle, rtmp, mute_x, asked, messages, loose>>
    BY <1>3, <2>1 DEF Number
  <2>3. /\ pushing' \in [Pusher -> [at : Places, n : Nat]]
        /\ pushing'[p].at = "send" /\ pushing'[p].n = n
        /\ \A q \in Pusher : q # p => pushing'[q] = pushing[q]
    BY <2>1, <2>2, Moved DEF Places
  <2>4. packet \in PacketForm /\ mTimestamp \in Nat /\ packet.body = n /\ Step \in Nat \ {0}
    BY <1>1, <1>3, <2>1, StepAssumption DEF PusherForm, PacketKept, Kept
  <2>5. /\ packet' \in PacketForm /\ packet'.body = n /\ packet'.kind = kind
        /\ kind = "parameters" => packet'.time = 0
        /\ kind = "tag" => packet'.time = n
        /\ kind = "frame" => packet'.time = mTimestamp
    BY <2>1, <2>2, <2>4 DEF PacketForm, Kind
  <2>6. mTimestamp' \in Nat /\ mTimestamp' >= mTimestamp
        /\ (kind = "frame" => mTimestamp' = mTimestamp + Step)
    BY <2>2, <2>4
  <2>7. PusherForm'
    BY <2>2, <2>3, <2>5, <2>6 DEF PusherForm
  <2>8. NothingBefore' /\ ConnectionOf' /\ MessagesWhole'
    BY <1>1, <2>2 DEF NothingBefore, ConnectionOf, MessagesWhole
  <2>9. TimesBehind' /\ \A i \in DOMAIN messages :
          messages[i].kind = "frame" => messages[i].time < mTimestamp
    <3>1. ASSUME NEW i \in DOMAIN messages, messages[i].kind = "frame"
          PROVE  messages[i].time < mTimestamp /\ messages[i].time + Step <= mTimestamp'
      <4>1. messages[i].time \in Nat
        <5>1. messages[i] \in PacketForm
          BY DEF PusherForm
        <5>2. QED
          BY <5>1 DEF PacketForm
      <4>2. messages[i].time + Step <= mTimestamp
        BY <3>1 DEF TimesBehind
      <4>3. QED
        BY <4>1, <4>2, <2>4, <2>6
    <3>2. messages' = messages
      BY <2>2
    <3>3. QED
      BY <3>1, <3>2 DEF TimesBehind
  <2>10. OneInside'
    BY <1>1, <2>2, <2>3 DEF OneInside
  <2>11. OwnNumbers'
    BY <1>1, <2>1, <2>2, <2>3 DEF OwnNumbers
  <2>12. PacketKept'
    <3>1. \A q \in Pusher : q # p => pushing'[q].at \notin Inside
      BY <1>1, <2>3 DEF OneInside
    <3>2. Kept(p)'
      BY <2>1, <2>2, <2>3, <2>4, <2>5, <2>6, <2>9 DEF Kept
    <3>3. QED
      BY <3>1, <3>2 DEF PacketKept, Kept, Inside
  <2>13. StraysCounted'
    <3>1. Busy' = Busy
      BY <1>1, <2>3, SameBusy
    <3>2. QED
      BY <3>1, <2>2 DEF StraysCounted
  <2>14. QED
    BY <2>7, <2>8, <2>9, <2>10, <2>11, <2>12, <2>13
<1>4. QED
  BY <1>2, <1>3

(* It sends the packet, which is still its own.                            *)
LEMMA SendItKeeps ==
  ASSUME HandleInv, NEW p \in Pusher, SendIt(p)
  PROVE  HandleInv'
<1> USE DEF HandleInv
<1>1. pushing[p].at = "send" /\ pushing[p].at \in Inside /\ mute_x = p
  BY DEF SendIt, At, Inside, OneInside
<1>2. rtmpHandle \in {"live", "released", "freed"}
  BY <1>1 DEF NothingBefore, PusherForm
<1>3. CASE rtmp = "none"
  <2>1. rtmpHandle \in {"released", "freed"}
    BY <1>2, <1>3 DEF ConnectionOf
  <2>2. QED
    BY <1>1, <1>3, <2>1, EndKeeps DEF SendIt, Stray
<1>4. CASE rtmp # "none"
  <2>1. rtmpHandle = "live"
    BY <1>2, <1>4 DEF ConnectionOf
  <2>2. /\ EndPush(p) /\ UNCHANGED <<rtmpHandle, packet, mTimestamp, asked, loose>>
        /\ \/ messages' = Append(messages, packet) /\ rtmp' = rtmp
           \/ rtmp' = "broken" /\ messages' = messages
    BY <1>4 DEF SendIt
  <2>3. /\ pushing' \in [Pusher -> [at : Places, n : Nat]]
        /\ pushing'[p].at = "idle" /\ pushing'[p].n = pushing[p].n
        /\ \A q \in Pusher : q # p => pushing'[q] = pushing[q]
    BY <2>2, Moved DEF Places, EndPush
  <2>4. mute_x' = NoThread
    BY <1>1, <2>2 DEF EndPush
  <2>5. messages \in Seq(PacketForm) /\ packet \in PacketForm
    BY DEF PusherForm
  <2>6. messages' \in Seq(PacketForm)
    BY <2>2, <2>5
  <2>7. PusherForm'
    BY <2>2, <2>3, <2>4, <2>6 DEF PusherForm
  <2>8. NothingBefore' /\ ConnectionOf' /\ StraysCounted'
    BY <2>1, <2>2, <1>4 DEF NothingBefore, ConnectionOf, StraysCounted
  <2>9. OneInside'
    BY <1>1, <2>3 DEF OneInside, Inside
  <2>10. PacketKept'
    BY <1>1, <2>3 DEF PacketKept, Kept, OneInside, Inside
  <2>11. CASE messages' = messages
    <3>1. OwnNumbers'
      BY <2>2, <2>3, <2>11 DEF OwnNumbers
    <3>2. TimesBehind' /\ MessagesWhole'
      BY <2>2, <2>11 DEF TimesBehind, MessagesWhole
    <3>3. QED
      BY <2>7, <2>8, <2>9, <2>10, <3>1, <3>2
  <2>12. CASE messages' = Append(messages, packet)
    <3> DEFINE l == Len(messages) + 1
    <3>1. /\ l \in Nat /\ DOMAIN messages' = 1 .. l /\ DOMAIN messages = 1 .. l - 1
          /\ messages'[l] = packet /\ \A i \in 1 .. l - 1 : messages'[i] = messages[i]
      BY <2>5, <2>12
    <3> HIDE DEF l
    <3>2. /\ packet.body = pushing[p].n /\ packet.kind = asked[packet.body]
          /\ packet.kind = "parameters" => packet.time = 0
          /\ packet.kind = "tag" => packet.time = packet.body
          /\ packet.kind = "frame" =>
               /\ packet.time + Step <= mTimestamp
               /\ \A i \in 1 .. l - 1 : messages[i].kind = "frame" => messages[i].time < packet.time
      BY <1>1, <2>1, <3>1 DEF PacketKept, Kept
    <3>3. /\ packet.body \in 1 .. Len(asked)
          /\ \A q \in Pusher : pushing'[q].at # "idle" => pushing'[q].n # packet.body
          /\ \A i \in 1 .. l - 1 : messages[i].body # packet.body
      BY <1>1, <2>3, <3>1, <3>2 DEF OwnNumbers
    <3>4. OwnNumbers'
      <4>1. \A i \in DOMAIN messages' : i = l \/ (i \in 1 .. l - 1 /\ messages'[i] = messages[i])
        BY <3>1
      <4>2. \A i \in DOMAIN messages' :
              /\ messages'[i].body \in 1 .. Len(asked)
              /\ \A q \in Pusher : pushing'[q].at # "idle" => pushing'[q].n # messages'[i].body
        <5>1. ASSUME NEW i \in 1 .. l - 1
              PROVE  /\ messages[i].body \in 1 .. Len(asked)
                     /\ \A q \in Pusher : pushing'[q].at # "idle" => pushing'[q].n # messages[i].body
          <6>1. i \in DOMAIN messages
            BY <3>1
          <6>2. \A q \in Pusher : pushing'[q].at # "idle" => pushing[q].at # "idle" /\ pushing'[q] = pushing[q]
            BY <2>3
          <6>3. QED
            BY <6>1, <6>2 DEF OwnNumbers
        <5>2. QED
          BY <5>1, <4>1, <3>1, <3>3
      <4>3. QED
        BY <4>2, <2>2, <2>3 DEF OwnNumbers
    <3>5. TimesBehind'
      BY <3>1, <3>2, <2>2 DEF TimesBehind
    <3>6. MessagesWhole'
      <4>1. ASSUME NEW i \in 1 .. l
            PROVE  /\ messages'[i].kind = asked[messages'[i].body]
                   /\ messages'[i].kind = "parameters" => messages'[i].time = 0
                   /\ messages'[i].kind = "tag" => messages'[i].time = messages'[i].body
        <5>1. CASE i = l
          BY <5>1, <3>1, <3>2
        <5>2. CASE i # l
          <6>1. i \in 1 .. l - 1 /\ messages'[i] = messages[i]
            BY <5>2, <3>1
          <6>2. QED
            BY <6>1, <3>1 DEF MessagesWhole
        <5>3. QED
          BY <5>1, <5>2
      <4>2. ASSUME NEW i \in 1 .. l, NEW j \in 1 .. l, i < j
            PROVE  /\ messages'[i].body # messages'[j].body
                   /\ messages'[i].kind = "frame" /\ messages'[j].kind = "frame" =>
                        messages'[i].time < messages'[j].time
        <5>1. i \in 1 .. l - 1 /\ messages'[i] = messages[i]
          BY <4>2, <3>1
        <5>2. CASE j = l
          <6>1. messages'[j] = packet
            BY <5>2, <3>1
          <6>2. messages[i].body # packet.body
            BY <5>1, <3>3
          <6>3. packet.kind = "frame" /\ messages[i].kind = "frame" => messages[i].time < packet.time
            BY <5>1, <3>2
          <6>4. QED
            BY <6>1, <6>2, <6>3, <5>1
        <5>3. CASE j # l
          <6>1. j \in 1 .. l - 1 /\ messages'[j] = messages[j]
            BY <5>3, <3>1
          <6>2. QED
            BY <6>1, <5>1, <4>2, <3>1 DEF MessagesWhole
        <5>4. QED
          BY <5>2, <5>3
      <4>3. QED
        BY <4>1, <4>2, <3>1, <2>2 DEF MessagesWhole
    <3>7. QED
      BY <2>7, <2>8, <2>9, <2>10, <3>4, <3>5, <3>6
  <2>13. QED
    BY <2>2, <2>11, <2>12
<1>5. QED
  BY <1>3, <1>4

(* Every step of the publisher; those of the file leave the handle alone.  *)
LEMMA HandleStep == HandleInv /\ [PusherNext]_pushervars => HandleInv'
<1> SUFFICES ASSUME HandleInv, [PusherNext]_pushervars PROVE HandleInv'
  OBVIOUS
<1>1. CASE UNCHANGED <<handlevars, callvars>>
  BY <1>1 DEF handlevars, callvars, HandleInv, PusherForm, NothingBefore, ConnectionOf, OneInside,
       OwnNumbers, PacketKept, Kept, TimesBehind, MessagesWhole, StraysCounted, Busy
<1>2. CASE OpenFile \/ SkipTag \/ SendTag \/ EndFile \/ Passes \/ UNCHANGED pushervars
  BY <1>1, <1>2 DEF OpenFile, SkipTag, SendTag, EndFile, Passes, pushervars
<1>3. QED
  BY <1>2, initRtmpHandleKeeps, ReleaseKeeps, BeginPushKeeps, LockMutexKeeps, FillKeeps,
     NumberKeeps, SendItKeeps DEF PusherNext, Kind

-----------------------------------------------------------------------------
(* The file: what went out are the media tags among those read.            *)

Chosen(from, seen) ==
  /\ from \in [DOMAIN shown -> seen]
  /\ \A i, j \in DOMAIN shown : i < j => from[i] < from[j]
  /\ {from[i] : i \in DOMAIN shown} = {k \in seen : Media(tags[k])}
  /\ \A i \in DOMAIN shown : shown[i].tag = tags[from[i]]
InTime == \A i \in DOMAIN shown : shown[i].at >= shown[i].tag.time

NowChosen(from, seen) ==
  /\ from \in [DOMAIN shown' -> seen]
  /\ \A i, j \in DOMAIN shown' : i < j => from[i] < from[j]
  /\ {from[i] : i \in DOMAIN shown'} = {k \in seen : Media(tags'[k])}
  /\ \A i \in DOMAIN shown' : shown'[i].tag = tags'[from[i]]

(* The property by its parts: the order, by the places of the tags in the  *)
(* file (from), and the time at which each went out.                       *)
LEMMA FileOrder ==
  FileInOrder <=> InTime /\ \E from : Chosen(from, 1 .. Len(tags) - Len(file.left))
BY DEF FileInOrder, Chosen, InTime

LEMMA OrderNow ==
  ASSUME NEW n, n = Len(tags') - Len(file'.left), NEW from, NowChosen(from, 1 .. n), InTime'
  PROVE  FileInOrder'
<1>1. \E f \in [DOMAIN shown' -> 1 .. Len(tags') - Len(file'.left)] :
       /\ \A i, j \in DOMAIN shown' : i < j => f[i] < f[j]
       /\ {f[i] : i \in DOMAIN shown'} = {k \in 1 .. Len(tags') - Len(file'.left) : Media(tags'[k])}
       /\ \A i \in DOMAIN shown' : shown'[i].tag = tags'[f[i]]
  BY DEF NowChosen
<1>2. QED
  BY <1>1 DEF FileInOrder, InTime, Media

(* One tag is read: where it was, and what that leaves.                    *)
LEMMA OneRead ==
  ASSUME FileForm, file.left # <<>>, file' = [file EXCEPT !.left = Tail(@)], tags' = tags,
         file.at = "tags"
  PROVE  \E n \in 1 .. Len(tags) :
           /\ Len(tags) - Len(file.left) = n - 1 /\ Len(tags') - Len(file'.left) = n
           /\ Head(file.left) = tags[n] /\ Head(file.left) \in Tag
           /\ file' \in [at : {"idle", "tags", "over"}, left : Seq(Tag), open : BOOLEAN]
           /\ file'.at = "tags" /\ Len(file'.left) <= Len(tags')
           /\ \A i \in 1 .. Len(file'.left) :
                file'.left[i] = tags'[Len(tags') - Len(file'.left) + i]
<1> DEFINE ahead == file.left  rest == Tail(ahead)  n == Len(tags) - Len(ahead) + 1
<1>1. /\ ahead \in Seq(Tag) /\ tags \in Seq(Tag) /\ Len(ahead) <= Len(tags) /\ ahead # <<>>
      /\ \A i \in 1 .. Len(ahead) : ahead[i] = tags[Len(tags) - Len(ahead) + i]
  BY DEF FileForm
<1>2. /\ n \in 1 .. Len(tags) /\ Head(ahead) = tags[n] /\ Head(ahead) \in Tag
      /\ rest \in Seq(Tag) /\ Len(rest) <= Len(tags) /\ Len(tags) - Len(rest) = n
      /\ \A i \in 1 .. Len(rest) : rest[i] = tags[n + i]
  <2> HIDE DEF ahead
  <2>1. Len(ahead) \in Nat /\ Len(tags) \in Nat /\ Len(ahead) # 0
    BY <1>1, EmptySeq
  <2>2. n \in 1 .. Len(tags)
    BY <1>1, <2>1
  <2>3. Head(ahead) = ahead[1] /\ 1 \in 1 .. Len(ahead)
    BY <1>1, <2>1
  <2>4. Head(ahead) = tags[n] /\ Head(ahead) \in Tag
    BY <1>1, <2>1, <2>3
  <2>5. rest \in Seq(Tag) /\ Len(rest) = Len(ahead) - 1
    BY <1>1, <2>1
  <2>6. \A i \in 1 .. Len(rest) : rest[i] = ahead[i + 1] /\ i + 1 \in 1 .. Len(ahead)
    BY <1>1, <2>1, <2>5
  <2>7. \A i \in 1 .. Len(rest) : rest[i] = tags[n + i]
    BY <1>1, <2>1, <2>5, <2>6
  <2>8. QED
    BY <1>1, <2>1, <2>2, <2>4, <2>5, <2>7
<1>3. Len(ahead) \in Nat /\ Len(tags) \in Nat
  BY <1>1
<1>4. Len(tags) - Len(ahead) = n - 1
  BY <1>3
<1>5. file \in [at : {"idle", "tags", "over"}, left : Seq(Tag), open : BOOLEAN]
  BY DEF FileForm
<1> HIDE DEF n, rest
<1>6. /\ file' \in [at : {"idle", "tags", "over"}, left : Seq(Tag), open : BOOLEAN]
      /\ file'.at = "tags" /\ file'.left = rest
  BY <1>2, <1>5 DEF rest
<1>7. QED
  BY <1>2, <1>4, <1>6

(* A tag that is no audio and no video is passed over.                     *)
LEMMA SkipTagKeeps == FileInv /\ SkipTag => FileInv'
<1> SUFFICES ASSUME FileForm, FileInOrder, SkipTag PROVE FileInv'
  BY DEF FileInv
<1>1. /\ file.left # <<>> /\ ~Media(Head(file.left)) /\ file' = [file EXCEPT !.left = Tail(@)]
      /\ playTime' = playTime /\ shown' = shown /\ tags' = tags /\ file.at = "tags"
  BY DEF SkipTag
<1>2. PICK n \in 1 .. Len(tags) :
           /\ Len(tags) - Len(file.left) = n - 1 /\ Len(tags') - Len(file'.left) = n
           /\ Head(file.left) = tags[n] /\ Head(file.left) \in Tag
           /\ file' \in [at : {"idle", "tags", "over"}, left : Seq(Tag), open : BOOLEAN]
           /\ file'.at = "tags" /\ Len(file'.left) <= Len(tags')
           /\ \A i \in 1 .. Len(file'.left) :
                file'.left[i] = tags'[Len(tags') - Len(file'.left) + i]
  BY <1>1, OneRead
<1>3. FileForm'
  BY <1>1, <1>2 DEF FileForm
<1>4. PICK from : Chosen(from, 1 .. n - 1)
  BY <1>2, FileOrder
<1>5. {k \in 1 .. n : Media(tags[k])} = {k \in 1 .. n - 1 : Media(tags[k])}
  BY <1>1, <1>2
<1>6. from \in [DOMAIN shown' -> 1 .. n]
  BY <1>1, <1>4 DEF Chosen
<1>7. NowChosen(from, 1 .. n)
  BY <1>1, <1>4, <1>5, <1>6 DEF Chosen, NowChosen
<1>8. InTime'
  BY <1>1, FileOrder DEF InTime
<1>9. QED
  BY <1>2, <1>3, <1>7, <1>8, OrderNow DEF FileInv

(* A media tag goes out at its time, behind those sent before.             *)
LEMMA SendTagKeeps == FileInv /\ SendTag => FileInv'
<1> SUFFICES ASSUME FileForm, FileInOrder, SendTag PROVE FileInv'
  BY DEF FileInv
<1> DEFINE one == [tag |-> Head(file.left), at |-> playTime]
<1>1. /\ file.left # <<>> /\ Media(Head(file.left)) /\ file' = [file EXCEPT !.left = Tail(@)]
      /\ playTime' = playTime /\ shown' = Append(shown, one) /\ tags' = tags /\ file.at = "tags"
      /\ playTime >= Head(file.left).time
  BY DEF SendTag
<1>2. PICK n \in 1 .. Len(tags) :
           /\ Len(tags) - Len(file.left) = n - 1 /\ Len(tags') - Len(file'.left) = n
           /\ Head(file.left) = tags[n] /\ Head(file.left) \in Tag
           /\ file' \in [at : {"idle", "tags", "over"}, left : Seq(Tag), open : BOOLEAN]
           /\ file'.at = "tags" /\ Len(file'.left) <= Len(tags')
           /\ \A i \in 1 .. Len(file'.left) :
                file'.left[i] = tags'[Len(tags') - Len(file'.left) + i]
  BY <1>1, OneRead
<1>3. shown \in Seq([tag : Tag, at : Nat]) /\ one \in [tag : Tag, at : Nat]
  BY <1>2 DEF FileForm
<1>4. PICK l \in Nat : l = Len(shown)
  BY <1>3
<1>5. /\ shown' \in Seq([tag : Tag, at : Nat]) /\ Len(shown') = l + 1
      /\ shown'[l + 1] = one /\ \A i \in 1 .. l : shown'[i] = shown[i]
      /\ DOMAIN shown = 1 .. l /\ DOMAIN shown' = 1 .. l + 1
  BY <1>1, <1>3, <1>4
<1>6. FileForm'
  BY <1>1, <1>2, <1>5 DEF FileForm
<1>7. PICK from : Chosen(from, 1 .. n - 1)
  BY <1>2, FileOrder
<1> DEFINE now == [i \in 1 .. l + 1 |-> IF i = l + 1 THEN n ELSE from[i]]
<1>8. \A i \in 1 .. l : from[i] \in 1 .. n - 1 /\ now[i] = from[i]
  BY <1>5, <1>7, <1>4 DEF Chosen
<1>9. now[l + 1] = n /\ now \in [DOMAIN shown' -> 1 .. n]
  <2>1. now[l + 1] = n
    BY <1>4
  <2>2. \A i \in 1 .. l + 1 : now[i] \in 1 .. n
    <3> SUFFICES ASSUME NEW i \in 1 .. l + 1 PROVE now[i] \in 1 .. n
      OBVIOUS
    <3>1. i = l + 1 \/ i \in 1 .. l
      BY <1>4
    <3>2. n \in 1 .. n /\ \A k \in 1 .. n - 1 : k \in 1 .. n
      BY <1>2
    <3>3. QED
      BY <3>1, <3>2, <2>1, <1>8
  <2>3. DOMAIN now = 1 .. l + 1 /\ now = [i \in DOMAIN now |-> now[i]]
    OBVIOUS
  <2> HIDE DEF now
  <2>4. QED
    BY <2>1, <2>2, <2>3, <1>5
<1> HIDE DEF now
<1>10. \A i, j \in 1 .. l + 1 : i < j => now[i] < now[j]
  <2> SUFFICES ASSUME NEW i \in 1 .. l + 1, NEW j \in 1 .. l + 1, i < j PROVE now[i] < now[j]
    OBVIOUS
  <2>1. CASE j = l + 1
    BY <2>1, <1>8, <1>9, <1>4
  <2>2. CASE j # l + 1
    <3>1. i \in 1 .. l /\ j \in 1 .. l
      BY <2>2, <1>4
    <3>2. from[i] < from[j]
      BY <3>1, <1>7, <1>5 DEF Chosen
    <3>3. QED
      BY <3>1, <3>2, <1>8
  <2>3. QED
    BY <2>1, <2>2
<1>11. {now[i] : i \in 1 .. l + 1} = {k \in 1 .. n : Media(tags[k])}
  <2>1. {from[i] : i \in 1 .. l} = {k \in 1 .. n - 1 : Media(tags[k])}
    BY <1>5, <1>7 DEF Chosen
  <2>2. {now[i] : i \in 1 .. l + 1} = {from[i] : i \in 1 .. l} \cup {n}
    <3>1. ASSUME NEW i \in 1 .. l + 1 PROVE now[i] \in {from[k] : k \in 1 .. l} \cup {n}
      <4>1. i = l + 1 \/ i \in 1 .. l
        BY <1>4
      <4>2. QED
        BY <4>1, <1>8, <1>9
    <3>2. n \in {now[i] : i \in 1 .. l + 1}
      BY <1>9, <1>4
    <3>3. ASSUME NEW i \in 1 .. l PROVE from[i] \in {now[k] : k \in 1 .. l + 1}
      <4>1. i \in 1 .. l + 1
        BY <1>4
      <4>2. QED
        BY <4>1, <1>8
    <3>4. QED
      BY <3>1, <3>2, <3>3
  <2>3. {k \in 1 .. n : Media(tags[k])} = {k \in 1 .. n - 1 : Media(tags[k])} \cup {n}
    BY <1>1, <1>2
  <2>4. QED
    BY <2>1, <2>2, <2>3
<1>12. \A i \in 1 .. l + 1 : shown'[i].tag = tags[now[i]]
  <2> SUFFICES ASSUME NEW i \in 1 .. l + 1 PROVE shown'[i].tag = tags[now[i]]
    OBVIOUS
  <2>1. CASE i = l + 1
    BY <2>1, <1>5, <1>9, <1>2
  <2>2. CASE i # l + 1
    <3>1. i \in 1 .. l
      BY <2>2, <1>4
    <3>2. shown[i].tag = tags[from[i]]
      BY <3>1, <1>5, <1>7 DEF Chosen
    <3>3. QED
      BY <3>1, <3>2, <1>5, <1>8
  <2>3. QED
    BY <2>1, <2>2
<1>13. NowChosen(now, 1 .. n)
  BY <1>1, <1>5, <1>9, <1>10, <1>11, <1>12 DEF NowChosen
<1>14. InTime'
  <2> SUFFICES ASSUME NEW i \in 1 .. l + 1 PROVE shown'[i].at >= shown'[i].tag.time
    BY <1>5 DEF InTime
  <2>1. CASE i = l + 1
    BY <2>1, <1>5, <1>1
  <2>2. CASE i # l + 1
    <3>1. i \in 1 .. l
      BY <2>2, <1>4
    <3>2. shown[i].at >= shown[i].tag.time
      BY <3>1, <1>5, FileOrder DEF InTime
    <3>3. QED
      BY <3>1, <3>2, <1>5
  <2>3. QED
    BY <2>1, <2>2
<1>15. QED
  BY <1>2, <1>6, <1>13, <1>14, OrderNow DEF FileInv

(* A file is opened, nothing of it read.                                   *)
LEMMA OpenFileKeeps == FileInv /\ OpenFile => FileInv'
<1> SUFFICES ASSUME FileForm, FileInOrder, OpenFile PROVE FileInv'
  BY DEF FileInv
<1>0. PICK n \in 0 .. MaxTags : \E content \in [1 .. n -> Tag] :
        /\ tags' = content
        /\ \E state \in {"tags", "over"} : file' = [at |-> state, left |-> content, open |-> TRUE]
  BY DEF OpenFile
<1>1. PICK content \in [1 .. n -> Tag], state \in {"tags", "over"} :
        tags' = content /\ file' = [at |-> state, left |-> content, open |-> TRUE]
  BY <1>0
<1>2. shown = <<>> /\ shown' = shown /\ playTime' = playTime
  BY DEF OpenFile, FileForm
<1>3. n \in Nat /\ content \in Seq(Tag) /\ Len(content) = n
  BY <1>1
<1>4. /\ file' \in [at : {"idle", "tags", "over"}, left : Seq(Tag), open : BOOLEAN]
      /\ file'.left = content /\ file'.at # "idle"
  BY <1>1, <1>3
<1>5. Len(tags') - Len(file'.left) = 0
  BY <1>1, <1>3, <1>4
<1>6. FileForm'
  BY <1>1, <1>2, <1>3, <1>4, <1>5 DEF FileForm
<1>7. DOMAIN shown' = {}
  BY <1>2
<1>8. NowChosen(<<>>, 1 .. 0)
  BY <1>7 DEF NowChosen
<1>9. InTime'
  BY <1>7 DEF InTime
<1>10. QED
  BY <1>5, <1>6, <1>8, <1>9, OrderNow DEF FileInv

(* Every step of the publisher; a push leaves the file alone.              *)
LEMMA FileStep == FileInv /\ [PusherNext]_pushervars => FileInv'
<1> SUFFICES ASSUME FileInv, [PusherNext]_pushervars PROVE FileInv'
  OBVIOUS
<1>1. CASE /\ (file' = file \/ EndFile) /\ (playTime' = playTime \/ Passes)
           /\ shown' = shown /\ tags' = tags
  <2>1. /\ file' \in [at : {"idle", "tags", "over"}, left : Seq(Tag), open : BOOLEAN]
        /\ file'.left = file.left /\ (file'.at = "idle" => file.at = "idle")
    BY <1>1 DEF EndFile, FileInv, FileForm
  <2>2. playTime' \in Nat
    BY <1>1 DEF Passes, FileInv, FileForm
  <2>3. FileForm'
    BY <1>1, <2>1, <2>2 DEF FileInv, FileForm
  <2>4. FileInOrder'
    BY <1>1, <2>1 DEF FileInv, FileInOrder
  <2>5. QED
    BY <2>3, <2>4 DEF FileInv
<1>2. CASE UNCHANGED filevars \/ EndFile \/ Passes
  BY <1>1, <1>2 DEF filevars, EndFile, Passes
<1>3. CASE initRtmpHandle \/ ReleaseConnection \/ ReleasePacket
  BY <1>2, <1>3 DEF initRtmpHandle, ReleaseConnection, ReleasePacket
<1>4. ASSUME NEW p \in Pusher,
             \/ \E kind \in Kind : BeginPush(p, kind)
             \/ LockMutex(p) \/ Fill(p) \/ Number(p) \/ SendIt(p)
      PROVE  FileInv'
  BY <1>2, <1>4 DEF BeginPush, LockMutex, Fill, Number, SendIt, Stray
<1>5. CASE UNCHANGED pushervars
  BY <1>2, <1>5 DEF pushervars
<1>6. QED
  BY <1>2, <1>3, <1>4, <1>5, OpenFileKeeps, SkipTagKeeps, SendTagKeeps DEF PusherNext, Kind

(* Every message that pushPPS, pushFrame and pushFlv send is what one      *)
(* thread wanted sent, in the order of its times, for any number of        *)
(* threads; what goes astray after the handle was released is one push of  *)
(* each thread at most; and a file goes out tag by tag, none missed and    *)
(* none early.                                                             *)
THEOREM MessagesAlwaysWhole == PusherSpec => []PusherSound
<1>1. PusherInit => HandleInv
  <2> SUFFICES ASSUME PusherInit PROVE HandleInv
    OBVIOUS
  <2>1. /\ rtmpHandle = "none" /\ rtmp = "none" /\ packet = EmptyPacket /\ mTimestamp = 0
        /\ mute_x = NoThread /\ pushing = [p \in Pusher |-> [at |-> "idle", n |-> 0]]
        /\ asked = <<>> /\ messages = <<>> /\ loose = 0
    BY DEF PusherInit
  <2>2. packet \in PacketForm
    BY <2>1 DEF PacketForm, EmptyPacket
  <2>3. pushing \in [Pusher -> [at : Places, n : Nat]] /\ \A p \in Pusher : pushing[p].at = "idle"
    BY <2>1 DEF Places
  <2>4. PusherForm
    BY <2>1, <2>2, <2>3 DEF PusherForm
  <2>5. QED
    BY <2>1, <2>3, <2>4 DEF HandleInv, NothingBefore, ConnectionOf, OneInside, OwnNumbers, PacketKept,
         Kept, TimesBehind, MessagesWhole, StraysCounted, Inside
<1>2. PusherInit => FileInv
  <2> SUFFICES ASSUME PusherInit PROVE FileInv
    OBVIOUS
  <2>1. file = [at |-> "idle", left |-> <<>>, open |-> FALSE] /\ playTime = 0 /\ shown = <<>> /\ tags = <<>>
    BY DEF PusherInit
  <2>2. FileForm
    BY <2>1 DEF FileForm
  <2>3. DOMAIN shown = {} /\ Len(tags) - Len(file.left) = 0
    BY <2>1
  <2>4. Chosen(<<>>, 1 .. 0)
    BY <2>3 DEF Chosen
  <2>5. InTime
    BY <2>3 DEF InTime
  <2>6. QED
    BY <2>2, <2>3, <2>4, <2>5, FileOrder DEF FileInv
<1>3. HandleInv => StraysFew
  <2> SUFFICES ASSUME HandleInv PROVE StraysFew
    OBVIOUS
  <2>1. Busy \subseteq Pusher
    BY DEF Busy
  <2>2. Cardinality(Busy) \in Nat /\ Cardinality(Pusher) \in Nat
    BY <2>1, ThreadAssumption, FS_Subset, FS_CardinalityType
  <2>3. QED
    BY <2>2 DEF HandleInv, PusherForm, StraysCounted, StraysFew
<1>4. HandleInv /\ FileInv => PusherSound
  BY <1>3 DEF PusherSound, HandleInv, FileInv
<1>5. QED
  BY <1>1, <1>2, <1>4, HandleStep, FileStep, PTL DEF PusherSpec

-----------------------------------------------------------------------------

(* The RTMP session: its calls and the messages of the server.             *)
Chain == {"connect", "createStream", "publish", "play"}
Method == Chain \cup {"releaseStream", "FCPublish", "FCSubscribe", "deleteStream", "_checkbw"}
CallForm == [method : Method, txn : Nat, stream : Int]
MailForm ==
  [kind : {"_result"}, txn : Nat, stream : Nat]
    \cup [kind : {"Start"}, of : {"publish", "play"}]
    \cup [kind : {"_error", "onFCSubscribe", "onBWDone", "_onbwcheck", "Failed", "Stop", "close"}]

SessionForm ==
  /\ numInvokes \in Nat /\ streamId \in Int /\ streams \in Nat
  /\ toServer \in Seq(CallForm) /\ methodCalls \in Seq(CallForm) /\ toClient \in Seq(MailForm)
  /\ playing \in BOOLEAN

AnswerTo(call, m) ==
  m.kind \in {"Start", "Failed"} \/ (m.kind = "_result" /\ m.txn = call.txn)

(* Every call has a number of its own, and what FCSubscribe keeps queued   *)
(* matches no answer.                                                      *)
Numbered ==
  /\ \A i \in DOMAIN toServer : toServer[i].txn <= numInvokes
  /\ \A i, j \in DOMAIN toServer : toServer[i].txn = toServer[j].txn => i = j
  /\ \A i \in DOMAIN toClient : toClient[i].kind = "_result" => toClient[i].txn <= numInvokes
  /\ \A k \in DOMAIN methodCalls :
       methodCalls[k].method = "FCSubscribe" =>
         /\ methodCalls[k].txn <= numInvokes
         /\ \A i \in DOMAIN toServer :
              toServer[i].txn = methodCalls[k].txn => toServer[i].method = "FCSubscribe"
         /\ \A i \in DOMAIN toClient :
              toClient[i].kind = "_result" => toClient[i].txn # methodCalls[k].txn

StopComes == \E i \in DOMAIN toClient : toClient[i].kind \in {"Stop", "close"}

(* One call of the chain connect, createStream, publish or play is         *)
(* waited for, and where it has got to.                                    *)
AtServer(call) ==
  /\ \E i \in DOMAIN toServer : toServer[i] = call
  /\ \A i \in DOMAIN toClient : ~AnswerTo(call, toClient[i])
AnswerFits(call, m) ==
  /\ m.kind = "Start" => call.method \in {"publish", "play"} /\ m.of = call.method
  /\ m.kind = "Failed" => call.method \in {"publish", "play"}
  /\ m.kind = "_result" /\ call.method = "createStream" => m.stream > 0
  /\ call.method \in {"publish", "play"} /\ m.kind # "Failed" => active = streamId \/ StopComes
Answered(call) ==
  /\ \A i \in DOMAIN toServer : toServer[i] # call
  /\ \E i \in DOMAIN toClient :
       /\ AnswerTo(call, toClient[i]) /\ AnswerFits(call, toClient[i])
       /\ \A j \in DOMAIN toClient : AnswerTo(call, toClient[j]) => j = i
Refused(call) ==
  /\ call.method = "connect"
  /\ \A i \in DOMAIN toServer : toServer[i] # call
  /\ \A i \in DOMAIN toClient : ~AnswerTo(call, toClient[i])
Waits(call) ==
  /\ \E k \in DOMAIN methodCalls :
       /\ methodCalls[k] = call
       /\ \A q \in DOMAIN methodCalls : q # k => methodCalls[q].method = "FCSubscribe"
  /\ call.method \in Chain /\ call.txn <= numInvokes
  /\ call.method \in {"publish", "play"} => call.stream = streamId /\ streamId > 0
  /\ \A i \in DOMAIN toServer :
       /\ toServer[i].method \in Chain \/ toServer[i].txn = call.txn => toServer[i] = call
       /\ toServer[i].method = "deleteStream" => \E j \in DOMAIN toServer : j > i /\ toServer[j] = call
  /\ AtServer(call) \/ Answered(call) \/ Refused(call)

(* The stream runs, and no call of the chain is under way.                 *)
Plays ==
  /\ \A k \in DOMAIN methodCalls : methodCalls[k].method = "FCSubscribe"
  /\ \A i \in DOMAIN toServer : toServer[i].method \notin Chain \cup {"deleteStream"}
  /\ \A i \in DOMAIN toClient : toClient[i].kind \notin {"Start", "Failed"}
  /\ streamId > 0 /\ (active = streamId \/ StopComes)

Unconnected ==
  /\ toServer = <<>> /\ toClient = <<>> /\ methodCalls = <<>> /\ ~playing

(* The inductive invariant: a session that does not play yet waits for one *)
(* call, so it is never stuck, and one that plays waits for none.          *)
SessionInv ==
  /\ SessionForm /\ Numbered
  /\ ~connected => Unconnected
  /\ connected /\ playing => Plays /\ ~inConnectStream
  /\ connected /\ ~playing => inConnectStream /\ \E call \in CallForm : Waits(call)

-----------------------------------------------------------------------------
(* What is left of a sequence, and what it is with more put behind it.     *)
LEMMA Rest ==
  ASSUME NEW S, NEW s \in Seq(S), s # <<>>, NEW t, t = Tail(s)
  PROVE  /\ t \in Seq(S) /\ Head(s) = s[1] /\ 1 \in DOMAIN s /\ s[1] \in S
         /\ \A i \in DOMAIN t : i \in Nat \ {0} /\ i + 1 \in DOMAIN s /\ t[i] = s[i + 1]
         /\ \A i \in DOMAIN s : i # 1 => i - 1 \in DOMAIN t /\ t[i - 1] = s[i]
         /\ DOMAIN t \subseteq Nat /\ DOMAIN s \subseteq Nat
<1>1. Len(s) \in Nat /\ Len(s) # 0
  BY EmptySeq
<1>2. t \in Seq(S) /\ Len(t) = Len(s) - 1 /\ Head(s) = s[1]
  BY <1>1
<1>3. DOMAIN s = 1 .. Len(s) /\ DOMAIN t = 1 .. Len(s) - 1
  BY <1>1, <1>2
<1>4. 1 \in DOMAIN s /\ s[1] \in S
  BY <1>1, <1>3
<1>5. \A i \in 1 .. Len(s) - 1 : t[i] = s[i + 1]
  BY <1>1, <1>2
<1>6. \A i \in DOMAIN t : i \in Nat \ {0} /\ i + 1 \in DOMAIN s /\ t[i] = s[i + 1]
  BY <1>1, <1>3, <1>5
<1>7. \A i \in DOMAIN s : i # 1 => i - 1 \in DOMAIN t /\ t[i - 1] = s[i]
  <2> SUFFICES ASSUME NEW i \in DOMAIN s, i # 1 PROVE i - 1 \in DOMAIN t /\ t[i - 1] = s[i]
    OBVIOUS
  <2>1. i - 1 \in 1 .. Len(s) - 1 /\ (i - 1) + 1 = i
    BY <1>1, <1>3
  <2>2. QED
    BY <2>1, <1>3, <1>5
<1>8. QED
  BY <1>2, <1>3, <1>4, <1>6, <1>7

LEMMA Joined ==
  ASSUME NEW S, NEW s \in Seq(S), NEW u \in Seq(S), NEW t, t = s \o u
  PROVE  /\ t \in Seq(S) /\ Len(t) = Len(s) + Len(u) /\ Len(s) \in Nat /\ Len(u) \in Nat
         /\ DOMAIN s = 1 .. Len(s) /\ DOMAIN u = 1 .. Len(u) /\ DOMAIN t = 1 .. Len(s) + Len(u)
         /\ \A k \in 1 .. Len(s) + Len(u) : t[k] = IF k <= Len(s) THEN s[k] ELSE u[k - Len(s)]
<1>1. /\ t \in Seq(S) /\ Len(t) = Len(s) + Len(u)
      /\ \A k \in 1 .. Len(s) + Len(u) : t[k] = IF k <= Len(s) THEN s[k] ELSE u[k - Len(s)]
  BY ConcatProperties
<1>2. Len(s) \in Nat /\ Len(u) \in Nat /\ DOMAIN s = 1 .. Len(s) /\ DOMAIN u = 1 .. Len(u)
      /\ DOMAIN t = 1 .. Len(t)
  BY <1>1, LenProperties
<1>3. QED
  BY <1>1, <1>2

(* The calls that one Invoke makes, by their numbers.                      *)
LEMMA CallsOf ==
  ASSUME NEW n \in Nat, NEW f \in [1 .. n -> CallForm] PROVE f \in Seq(CallForm) /\ Len(f) = n
OBVIOUS

IsCalls(calls, methods, before, stream, m) ==
  /\ calls \in Seq(CallForm) /\ Len(calls) = m
  /\ \A i \in 1 .. m :
       calls[i] = [method |-> methods[i], txn |-> before + i, stream |-> stream]
IsJoin(t, s, u, m, n) ==
  /\ t \in Seq(CallForm) /\ Len(t) = m + n /\ DOMAIN t = 1 .. m + n
  /\ \A k \in 1 .. m + n : t[k] = IF k <= m THEN s[k] ELSE u[k - m]

LEMMA CallsJoined ==
  ASSUME NEW s \in Seq(CallForm), NEW u \in Seq(CallForm), NEW m, NEW n, Len(s) = m, Len(u) = n
  PROVE  IsJoin(s \o u, s, u, m, n)
<1> DEFINE t == s \o u
<1>1. /\ t \in Seq(CallForm) /\ Len(t) = m + n
      /\ \A k \in 1 .. m + n : t[k] = IF k <= m THEN s[k] ELSE u[k - m]
  BY ConcatProperties
<1> HIDE DEF t
<1>2. DOMAIN t = 1 .. m + n
  BY <1>1, LenProperties
<1>3. IsJoin(t, s, u, m, n)
  BY <1>1, <1>2 DEF IsJoin
<1>4. QED
  BY <1>3 DEF t

LEMMA CallsForm ==
  ASSUME NEW methods \in Seq(Method), NEW before \in Nat, NEW stream \in Int,
         NEW m, Len(methods) = m
  PROVE  IsCalls(Requests(methods, before, stream), methods, before, stream, m)
<1> DEFINE calls == Requests(methods, before, stream)
<1>1. DOMAIN methods = 1 .. m /\ m \in Nat
  BY LenProperties
<1>2. calls = [i \in 1 .. m |-> [method |-> methods[i], txn |-> before + i, stream |-> stream]]
  BY <1>1 DEF Requests
<1>3. \A i \in 1 .. m : methods[i] \in Method /\ before + i \in Nat
  BY <1>1, ElementOfSeq
<1>4. \A i \in 1 .. m :
        [method |-> methods[i], txn |-> before + i, stream |-> stream] \in CallForm
  BY <1>3 DEF CallForm
<1> HIDE DEF calls
<1>5. calls \in [1 .. m -> CallForm]
  BY <1>2, <1>4
<1>6. calls \in Seq(CallForm) /\ Len(calls) = m
  BY <1>1, <1>5, CallsOf
<1>7. IsCalls(calls, methods, before, stream, m)
  BY <1>2, <1>6 DEF IsCalls
<1>8. QED
  BY <1>7 DEF calls

(* What the server gets, and what is queued to know the answer by.         *)
Sent(k, once, queued, n, l, a, stream) ==
  IF k <= l + a THEN [method |-> once[k - l], txn |-> n + (k - l), stream |-> stream]
  ELSE [method |-> queued[k - l - a], txn |-> n + (k - l), stream |-> stream]

Asked(once, queued, stream, kept, n, l, a, b, h) ==
  /\ numInvokes = n /\ toServer \in Seq(CallForm) /\ Len(toServer) = l
  /\ once \in Seq(Method) /\ Len(once) = a /\ queued \in Seq(Method) /\ Len(queued) = b
  /\ kept \in Seq(CallForm) /\ Len(kept) = h /\ Invoke(once, queued, stream, kept)

Sends(once, queued, stream, kept, n, l, a, b, h) ==
  /\ numInvokes' = n + a + b
  /\ toServer' \in Seq(CallForm) /\ DOMAIN toServer' = 1 .. l + a + b
  /\ \A k \in 1 .. l + a + b :
       toServer'[k] = IF k <= l THEN toServer[k] ELSE Sent(k, once, queued, n, l, a, stream)
  /\ methodCalls' \in Seq(CallForm) /\ DOMAIN methodCalls' = 1 .. h + b
  /\ \A k \in 1 .. h + b :
       methodCalls'[k] = IF k <= h THEN kept[k] ELSE toServer'[l + a + (k - h)]

(* An Invoke sends what it says, behind what was sent before.              *)
LEMMA InvokeGives ==
  ASSUME NEW once, NEW queued, NEW stream \in Int, NEW kept,
         NEW n \in Nat, NEW l \in Nat, NEW a \in Nat, NEW b \in Nat, NEW h \in Nat,
         NEW na \in Nat, NEW la \in Nat, na = n + a, la = l + a,
         Asked(once, queued, stream, kept, n, l, a, b, h)
  PROVE  Sends(once, queued, stream, kept, n, l, a, b, h)
<1>1. PICK first : first = Requests(once, n, stream)
  OBVIOUS
<1>2. PICK waiting : waiting = Requests(queued, na, stream)
  OBVIOUS
<1>3. PICK half : half = toServer \o first
  OBVIOUS
<1>4. /\ numInvokes' = n + a + b /\ toServer' = half \o waiting /\ methodCalls' = kept \o waiting
  BY <1>1, <1>2, <1>3 DEF Invoke, Asked
<1>5. IsCalls(first, once, n, stream, a) /\ IsCalls(waiting, queued, na, stream, b)
  BY <1>1, <1>2, CallsForm DEF Asked
<1>6. /\ first \in Seq(CallForm) /\ Len(first) = a /\ waiting \in Seq(CallForm) /\ Len(waiting) = b
      /\ \A i \in 1 .. a : first[i] = [method |-> once[i], txn |-> n + i, stream |-> stream]
      /\ \A i \in 1 .. b : waiting[i] = [method |-> queued[i], txn |-> na + i, stream |-> stream]
  BY <1>5 DEF IsCalls
<1>7. IsJoin(half, toServer, first, l, a) /\ IsJoin(methodCalls', kept, waiting, h, b)
  BY <1>3, <1>4, <1>6, CallsJoined DEF Asked
<1>8. /\ half \in Seq(CallForm) /\ Len(half) = la
      /\ \A k \in 1 .. l + a : half[k] = IF k <= l THEN toServer[k] ELSE first[k - l]
  BY <1>7 DEF IsJoin
<1>9. IsJoin(toServer', half, waiting, la, b)
  BY <1>4, <1>6, <1>8, CallsJoined
<1>10. /\ toServer' \in Seq(CallForm) /\ DOMAIN toServer' = 1 .. la + b
       /\ \A k \in 1 .. la + b : toServer'[k] = IF k <= la THEN half[k] ELSE waiting[k - la]
       /\ methodCalls' \in Seq(CallForm) /\ DOMAIN methodCalls' = 1 .. h + b
       /\ \A k \in 1 .. h + b : methodCalls'[k] = IF k <= h THEN kept[k] ELSE waiting[k - h]
  BY <1>7, <1>9 DEF IsJoin
<1>11. ASSUME NEW k \in 1 .. l + a + b
       PROVE  toServer'[k] = IF k <= l THEN toServer[k] ELSE Sent(k, once, queued, n, l, a, stream)
  <2>1. CASE k <= l
    <3>1. k \in 1 .. l + a /\ k <= la /\ k \in 1 .. la + b
      BY <2>1
    <3>2. QED
      BY <2>1, <3>1, <1>8, <1>10
  <2>2. CASE k > l /\ k <= l + a
    <3>0. k - l \in 1 .. a
      BY <2>2
    <3>1. PICK i \in 1 .. a : i = k - l
      BY <3>0
    <3>2. toServer'[k] = first[i]
      <4>1. k \in 1 .. la + b /\ k <= la /\ k \in 1 .. l + a /\ ~(k <= l)
        BY <2>2
      <4>2. toServer'[k] = half[k]
        BY <4>1, <1>10
      <4>3. QED
        BY <4>1, <4>2, <3>1, <1>8
    <3>3. first[i] = [method |-> once[i], txn |-> n + i, stream |-> stream]
      BY <1>6
    <3>4. QED
      BY <2>2, <3>1, <3>2, <3>3 DEF Sent
  <2>3. CASE k > l + a
    <3>0. k - l - a \in 1 .. b
      BY <2>3
    <3>1. PICK i \in 1 .. b : i = k - l - a
      BY <3>0
    <3>2. toServer'[k] = waiting[i]
      <4>1. k - la = i /\ k \in 1 .. la + b /\ ~(k <= la)
        BY <3>1, <2>3
      <4>2. QED
        BY <4>1, <1>10
    <3>3. waiting[i] = [method |-> queued[i], txn |-> na + i, stream |-> stream]
      BY <1>6
    <3>4. na + i = n + (k - l) /\ ~(k <= l) /\ ~(k <= l + a)
      BY <3>1, <2>3
    <3>5. QED
      BY <3>1, <3>2, <3>3, <3>4 DEF Sent
  <2>4. QED
    BY <2>1, <2>2, <2>3
<1>12. ASSUME NEW k \in 1 .. h + b
       PROVE  methodCalls'[k] = IF k <= h THEN kept[k] ELSE toServer'[l + a + (k - h)]
  <2>1. CASE k <= h
    BY <2>1, <1>10
  <2>2. CASE k > h
    <3>0. k - h \in 1 .. b
      BY <2>2
    <3>1. PICK i \in 1 .. b : i = k - h
      BY <3>0
    <3>9. la + i \in 1 .. la + b
      OBVIOUS
    <3>2. PICK j \in 1 .. la + b : j = la + i
      BY <3>9
    <3>3. j - la = i /\ ~(j <= la)
      BY <3>2
    <3>4. toServer'[j] = waiting[i]
      BY <3>3, <1>10
    <3>5. methodCalls'[k] = waiting[i]
      BY <2>2, <3>1, <1>10
    <3>6. j = l + a + (k - h)
      BY <3>1, <3>2
    <3>7. QED
      BY <2>2, <3>4, <3>5, <3>6
  <2>3. QED
    BY <2>1, <2>2
<1>13. QED
  BY <1>4, <1>10, <1>11, <1>12 DEF Sends

(* A call of the chain goes out, with others before it and FCSubscribe     *)
(* after it, when none is waited for.                                      *)
NoChain ==
  \A i \in DOMAIN toServer : toServer[i].method \notin Chain \cup {"deleteStream"}
OnceForm(once) == \A i \in DOMAIN once : once[i] \in {"releaseStream", "FCPublish", "deleteStream"}
QueuedForm(queued) ==
  queued[1] \in Chain /\ \A i \in DOMAIN queued : i # 1 => queued[i] = "FCSubscribe"
KeptForm(kept) ==
  \A k \in DOMAIN kept :
    kept[k].method = "FCSubscribe" /\ \E q \in DOMAIN methodCalls : methodCalls[q] = kept[k]
NoneNew(n) ==
  \A i \in DOMAIN toClient' :
    /\ toClient'[i].kind \notin {"Start", "Failed"}
    /\ toClient'[i].kind = "_result" =>
         toClient'[i].txn <= n /\ \E j \in DOMAIN toClient : toClient[j] = toClient'[i]

(* When no call of the chain was under way, the one invoked now is.        *)
LEMMA Chained ==
  ASSUME NEW once, NEW queued, NEW stream \in Int, NEW kept,
         NEW n \in Nat, NEW l \in Nat, NEW a \in Nat, NEW b \in Nat \ {0}, NEW h \in Nat,
         Asked(once, queued, stream, kept, n, l, a, b, h), SessionForm, Numbered, NoChain,
         OnceForm(once), QueuedForm(queued), KeptForm(kept), NoneNew(n),
         queued[1] \in {"publish", "play"} => stream = streamId' /\ streamId' > 0
  PROVE  /\ Numbered' /\ numInvokes' \in Nat /\ toServer' \in Seq(CallForm)
         /\ methodCalls' \in Seq(CallForm) /\ \E call \in CallForm : Waits(call)'
<1>0. n + a \in Nat /\ l + a \in Nat
  OBVIOUS
<1>1. toServer \in Seq(CallForm) /\ n = numInvokes
  BY DEF Asked
<1>4. /\ numInvokes' = n + a + b
      /\ toServer' \in Seq(CallForm) /\ DOMAIN toServer' = 1 .. l + a + b
      /\ \A k \in 1 .. l + a + b :
           toServer'[k] = IF k <= l THEN toServer[k] ELSE Sent(k, once, queued, n, l, a, stream)
      /\ methodCalls' \in Seq(CallForm) /\ DOMAIN methodCalls' = 1 .. h + b
      /\ \A k \in 1 .. h + b :
           methodCalls'[k] = IF k <= h THEN kept[k] ELSE toServer'[l + a + (k - h)]
  <2>1. PICK na \in Nat, la \in Nat : na = n + a /\ la = l + a
    BY <1>0
  <2>2. Sends(once, queued, stream, kept, n, l, a, b, h)
    BY <2>1, InvokeGives
  <2>3. QED
    BY <2>2 DEF Sends
<1>5. DOMAIN queued = 1 .. b /\ DOMAIN kept = 1 .. h /\ DOMAIN toServer = 1 .. l /\ DOMAIN once = 1 .. a
  BY LenProperties DEF Asked
<1>6. ASSUME NEW i \in 1 .. l
      PROVE  /\ i \in 1 .. l + a + b /\ toServer'[i] = toServer[i] /\ toServer'[i].txn <= n
             /\ toServer'[i].txn \in Nat
             /\ toServer'[i].method \notin Chain \cup {"deleteStream"}
  <2>1. i \in 1 .. l + a + b /\ i <= l
    OBVIOUS
  <2>2. toServer'[i] = toServer[i]
    BY <2>1, <1>4
  <2>3. toServer[i] \in CallForm
    BY <1>1, <1>5
  <2>4. toServer[i].txn <= n /\ toServer[i].method \notin Chain \cup {"deleteStream"}
    BY <1>1, <1>5 DEF Numbered, NoChain
  <2>5. QED
    BY <2>1, <2>2, <2>3, <2>4 DEF CallForm
<1>10. ASSUME NEW i \in 1 .. l + a + b, i \notin 1 .. l
       PROVE  /\ toServer'[i].txn = n + (i - l) /\ toServer'[i].stream = stream
              /\ i <= l + a => toServer'[i].method \in {"releaseStream", "FCPublish", "deleteStream"}
              /\ i > l + a => i - l - a \in 1 .. b /\ toServer'[i].method = queued[i - l - a]
  <2>1. toServer'[i] = Sent(i, once, queued, n, l, a, stream)
    <3>1. ~(i <= l)
      BY <1>10
    <3>2. QED
      BY <3>1, <1>4
  <2>2. CASE i <= l + a
    <3>0. i - l \in 1 .. a
      BY <2>2, <1>10
    <3>1. PICK m \in 1 .. a : m = i - l
      BY <3>0
    <3>2. toServer'[i] = [method |-> once[m], txn |-> n + (i - l), stream |-> stream]
      BY <2>1, <2>2, <3>1 DEF Sent
    <3>3. once[m] \in {"releaseStream", "FCPublish", "deleteStream"}
      BY <1>5 DEF OnceForm
    <3>4. QED
      BY <2>2, <3>2, <3>3
  <2>3. CASE i > l + a
    <3>0. i - l - a \in 1 .. b
      BY <2>3, <1>10
    <3>1. PICK m \in 1 .. b : m = i - l - a
      BY <3>0
    <3>2. toServer'[i] = [method |-> queued[m], txn |-> n + (i - l), stream |-> stream]
      BY <2>1, <2>3, <3>1 DEF Sent
    <3>3. QED
      BY <2>3, <3>1, <3>2
  <2>4. QED
    BY <2>2, <2>3
<1>11. \A i \in DOMAIN toClient' :
         /\ toClient'[i].kind \notin {"Start", "Failed"}
         /\ toClient'[i].kind = "_result" =>
              toClient'[i].txn <= n /\ \E j \in DOMAIN toClient : toClient[j] = toClient'[i]
  BY DEF NoneNew
<1>12. numInvokes' \in Nat
  BY <1>4
<1>13. \A i, j \in 1 .. l + a + b : toServer'[i].txn = toServer'[j].txn => i = j
  <2> SUFFICES ASSUME NEW i \in 1 .. l + a + b, NEW j \in 1 .. l + a + b,
                      toServer'[i].txn = toServer'[j].txn
               PROVE  i = j
    OBVIOUS
  <2>1. CASE i \in 1 .. l /\ j \in 1 .. l
    <3>1. toServer[i].txn = toServer[j].txn
      BY <2>1, <1>6
    <3>2. QED
      BY <2>1, <3>1, <1>5 DEF Numbered
  <2>2. CASE i \in 1 .. l /\ j \notin 1 .. l
    BY <2>2, <1>6, <1>10
  <2>3. CASE i \notin 1 .. l /\ j \in 1 .. l
    BY <2>3, <1>6, <1>10
  <2>4. CASE i \notin 1 .. l /\ j \notin 1 .. l
    <3>1. n + (i - l) = n + (j - l)
      BY <2>4, <1>10
    <3>2. QED
      BY <3>1
  <2>5. QED
    BY <2>1, <2>2, <2>3, <2>4
<1>14. \A i \in 1 .. l + a + b : toServer'[i].txn <= n + a + b
  BY <1>6, <1>10
<1>15. ASSUME NEW k \in 1 .. h + b, methodCalls'[k].method = "FCSubscribe"
       PROVE  /\ methodCalls'[k].txn <= n + a + b
              /\ \A i \in DOMAIN toServer' :
                   toServer'[i].txn = methodCalls'[k].txn => toServer'[i].method = "FCSubscribe"
              /\ \A i \in DOMAIN toClient' :
                   toClient'[i].kind = "_result" => toClient'[i].txn # methodCalls'[k].txn
  <2>1. CASE k \in 1 .. h
    <3>0. methodCalls'[k] = kept[k]
      BY <2>1, <1>4
    <3>1. PICK q \in DOMAIN methodCalls : methodCalls[q] = methodCalls'[k]
      BY <2>1, <3>0, <1>5 DEF KeptForm
    <3>2. /\ methodCalls'[k].txn <= n /\ methodCalls'[k].txn \in Nat
          /\ \A i \in DOMAIN toServer :
               toServer[i].txn = methodCalls'[k].txn => toServer[i].method = "FCSubscribe"
          /\ \A i \in DOMAIN toClient :
               toClient[i].kind = "_result" => toClient[i].txn # methodCalls'[k].txn
      <4>1. methodCalls[q] \in CallForm /\ methodCalls[q].method = "FCSubscribe"
        BY <3>1, <1>15, LenProperties, ElementOfSeq DEF SessionForm
      <4>2. methodCalls[q].txn \in Nat
        BY <4>1 DEF CallForm
      <4>3. /\ methodCalls[q].txn <= n
            /\ \A i \in DOMAIN toServer :
                 toServer[i].txn = methodCalls[q].txn => toServer[i].method = "FCSubscribe"
            /\ \A i \in DOMAIN toClient :
                 toClient[i].kind = "_result" => toClient[i].txn # methodCalls[q].txn
        BY <3>1, <4>1, <1>1 DEF Numbered
      <4>4. QED
        BY <3>1, <4>2, <4>3
    <3>3. \A i \in 1 .. l + a + b :
            toServer'[i].txn = methodCalls'[k].txn => i \in 1 .. l
      BY <3>2, <1>10
    <3>4. \A i \in 1 .. l + a + b :
            toServer'[i].txn = methodCalls'[k].txn => toServer'[i].method = "FCSubscribe"
      BY <3>2, <3>3, <1>5, <1>6
    <3>5. \A i \in DOMAIN toClient' :
            toClient'[i].kind = "_result" => toClient'[i].txn # methodCalls'[k].txn
      BY <3>2, <1>11
    <3>6. methodCalls'[k].txn <= n + a + b
      BY <3>2
    <3>7. QED
      BY <3>4, <3>5, <3>6, <1>4
  <2>2. CASE k \notin 1 .. h
    <3>9. k - h \in 1 .. b
      BY <2>2
    <3>1. PICK m \in 1 .. b : k = h + m /\ m = k - h
      BY <3>9
    <3>0. PICK p \in 1 .. l + a + b : p = l + a + m
      OBVIOUS
    <3>2. methodCalls'[k] = toServer'[p] /\ methodCalls'[k].txn = n + a + m
      <4>1. methodCalls'[k] = toServer'[p]
        BY <3>0, <3>1, <1>4, <2>2
      <4>2. p \notin 1 .. l /\ n + (p - l) = n + a + m
        BY <3>0
      <4>3. QED
        BY <4>1, <4>2, <1>10
    <3>3. \A i \in 1 .. l + a + b : toServer'[i].txn = methodCalls'[k].txn => i = p
      BY <3>2, <1>13
    <3>4. toServer'[p].method = "FCSubscribe"
      BY <3>2, <1>15
    <3>5. \A i \in DOMAIN toClient' :
            toClient'[i].kind = "_result" => toClient'[i].txn # methodCalls'[k].txn
      <4>1. n + a + m > n
        OBVIOUS
      <4>2. \A i \in DOMAIN toClient' : toClient'[i].kind = "_result" => ~ (toClient'[i].txn = n + a + m)
        <5> SUFFICES ASSUME NEW i \in DOMAIN toClient', toClient'[i].kind = "_result",
                            toClient'[i].txn = n + a + m
                     PROVE  FALSE
          OBVIOUS
        <5>1. n + a + m <= n
          BY <1>11
        <5>2. QED
          BY <5>1, <4>1
      <4>3. QED
        BY <4>2, <3>2
    <3>6. n + a + m <= n + a + b
      OBVIOUS
    <3>7. QED
      BY <3>2, <3>3, <3>4, <3>5, <3>6, <1>4
  <2>3. QED
    BY <2>1, <2>2
<1>16. Numbered'
  <2>1. /\ \A i \in DOMAIN toServer' : toServer'[i].txn <= numInvokes'
        /\ \A i, j \in DOMAIN toServer' : toServer'[i].txn = toServer'[j].txn => i = j
    BY <1>4, <1>13, <1>14
  <2>2. \A i \in DOMAIN toClient' : toClient'[i].kind = "_result" => toClient'[i].txn <= numInvokes'
    <3> SUFFICES ASSUME NEW i \in DOMAIN toClient', toClient'[i].kind = "_result"
                 PROVE  toClient'[i].txn <= n + a + b
      BY <1>4
    <3>1. PICK m \in Nat : m = toClient'[i].txn /\ m <= n
      <4>1. PICK j \in DOMAIN toClient : toClient[j] = toClient'[i]
        BY <1>11
      <4>2. toClient[j] \in MailForm
        BY LenProperties, ElementOfSeq DEF SessionForm
      <4>3. toClient'[i].txn \in Nat
        BY <4>1, <4>2 DEF MailForm
      <4>4. QED
        BY <4>3, <1>11
    <3>2. QED
      BY <3>1
  <2>3. \A k \in DOMAIN methodCalls' : methodCalls'[k].method = "FCSubscribe" =>
         /\ methodCalls'[k].txn <= numInvokes'
         /\ \A i \in DOMAIN toServer' :
              toServer'[i].txn = methodCalls'[k].txn => toServer'[i].method = "FCSubscribe"
         /\ \A i \in DOMAIN toClient' :
              toClient'[i].kind = "_result" => toClient'[i].txn # methodCalls'[k].txn
    BY <1>4, <1>15
  <2>4. QED
    BY <2>1, <2>2, <2>3 DEF Numbered
<1>17. PICK p \in 1 .. l + a + b : p = l + a + 1
  OBVIOUS
<1>18. PICK call \in CallForm : call = toServer'[p]
  BY <1>4, <1>17
<1>19. /\ call.method = queued[1] /\ call.txn = n + a + 1 /\ call.stream = stream
  <2>1. p \notin 1 .. l /\ n + (p - l) = n + a + 1 /\ p > l + a /\ p - l - a = 1
    BY <1>17
  <2>2. QED
    BY <2>1, <1>10, <1>18
<1>20. \E k \in DOMAIN methodCalls' :
         /\ methodCalls'[k] = call
         /\ \A q \in DOMAIN methodCalls' : q # k => methodCalls'[q].method = "FCSubscribe"
  <2>1. h + 1 \in DOMAIN methodCalls' /\ methodCalls'[h + 1] = call
    <3>1. h + 1 \in 1 .. h + b /\ ~(h + 1 <= h) /\ l + a + ((h + 1) - h) = p
      BY <1>5, <1>17
    <3>2. QED
      BY <3>1, <1>4, <1>18
  <2>2. ASSUME NEW q \in 1 .. h + b, q # h + 1 PROVE methodCalls'[q].method = "FCSubscribe"
    <3>1. CASE q \in 1 .. h
      <4>1. methodCalls'[q] = kept[q]
        BY <3>1, <1>4
      <4>2. QED
        BY <3>1, <4>1, <1>5 DEF KeptForm
    <3>2. CASE q \notin 1 .. h
      <4>1. PICK m \in 1 .. b : q = h + m /\ m # 1
        BY <3>2, <2>2
      <4>2. PICK i \in 1 .. l + a + b : i = l + a + m
        OBVIOUS
      <4>3. i \notin 1 .. l /\ i > l + a /\ i - l - a = m
        BY <4>2
      <4>4. toServer'[i].method = queued[m]
        BY <4>3, <1>10
      <4>5. methodCalls'[q] = toServer'[i]
        BY <3>2, <4>1, <4>2, <1>4
      <4>6. QED
        BY <4>1, <4>4, <4>5, <1>5 DEF QueuedForm
    <3>3. QED
      BY <3>1, <3>2
  <2>3. QED
    BY <2>1, <2>2, <1>4
<1>21. \A i \in DOMAIN toServer' :
         /\ toServer'[i].method \in Chain \/ toServer'[i].txn = call.txn => toServer'[i] = call
         /\ toServer'[i].method = "deleteStream" => p > i
  <2> SUFFICES ASSUME NEW i \in 1 .. l + a + b, i # p
               PROVE  /\ toServer'[i].method \notin Chain /\ toServer'[i].txn # call.txn
                      /\ toServer'[i].method = "deleteStream" => p > i
    <3>1. toServer'[p] = call /\ call.method \notin {"deleteStream"}
      BY <1>18, <1>19 DEF Chain, QueuedForm
    <3>2. DOMAIN toServer' = 1 .. l + a + b
      BY <1>4
    <3>3. QED
      BY <3>1, <3>2
  <2>1. toServer'[i].txn # call.txn
    BY <1>13, <1>18
  <2>2. CASE i \in 1 .. l
    BY <2>1, <2>2, <1>6
  <2>3. CASE i \notin 1 .. l /\ i <= l + a
    BY <2>1, <2>3, <1>10, <1>17 DEF Chain
  <2>4. CASE i > l + a
    <3>1. i - l - a \in 1 .. b /\ i - l - a # 1
      BY <2>4, <1>17
    <3>2. toServer'[i].method = "FCSubscribe"
      <4>1. toServer'[i].method = queued[i - l - a]
        BY <2>4, <1>10
      <4>2. QED
        BY <3>1, <4>1, <1>5 DEF QueuedForm
    <3>3. QED
      BY <2>1, <3>2 DEF Chain
  <2>5. QED
    BY <2>2, <2>3, <2>4
<1>22. \A i \in DOMAIN toClient' : ~AnswerTo(call, toClient'[i])
  <2> SUFFICES ASSUME NEW i \in DOMAIN toClient', toClient'[i].kind = "_result",
                      toClient'[i].txn = n + a + 1
               PROVE  FALSE
    BY <1>11, <1>19 DEF AnswerTo
  <2>1. n + a + 1 <= n
    BY <1>11
  <2>2. QED
    BY <2>1
<1>23. Waits(call)'
  <2>1. AtServer(call)'
    BY <1>4, <1>17, <1>18, <1>22 DEF AtServer
  <2>2. call.method \in Chain /\ call.txn <= numInvokes'
    BY <1>4, <1>19 DEF QueuedForm
  <2>3. call.method \in {"publish", "play"} => call.stream = streamId' /\ streamId' > 0
    BY <1>19
  <2>4. \A i \in DOMAIN toServer' :
          /\ toServer'[i].method \in Chain \/ toServer'[i].txn = call.txn => toServer'[i] = call
          /\ toServer'[i].method = "deleteStream" => \E j \in DOMAIN toServer' : j > i /\ toServer'[j] = call
    BY <1>4, <1>17, <1>18, <1>21
  <2>5. QED
    BY <2>1, <2>2, <2>3, <2>4, <1>20 DEF Waits
<1>24. QED
  BY <1>4, <1>12, <1>16, <1>23

LEMMA OneMethod ==
  ASSUME NEW x \in Method PROVE <<x>> \in Seq(Method) /\ Len(<<x>>) = 1 /\ <<x>>[1] = x
OBVIOUS

LEMMA NoMethod == <<>> \in Seq(Method) /\ Len(<<>>) = 0
OBVIOUS

(* The socket goes, and all that waits with it.                            *)
LEMMA CloseKeeps == RTMPClose /\ SessionInv => SessionInv'
<1> SUFFICES ASSUME RTMPClose, SessionInv PROVE SessionInv'
  OBVIOUS
<1>1. /\ numInvokes' = 0 /\ streamId' = -1 /\ streams' = 0 /\ playing' = FALSE /\ ~connected'
      /\ toServer' = <<>> /\ toClient' = <<>> /\ methodCalls' = <<>>
  BY DEF RTMPClose
<1>2. SessionForm'
  <2>1. <<>> \in Seq(CallForm) /\ <<>> \in Seq(MailForm)
    BY EmptySeq
  <2>2. toServer' \in Seq(CallForm) /\ methodCalls' \in Seq(CallForm) /\ toClient' \in Seq(MailForm)
    BY <1>1, <2>1
  <2>3. numInvokes' \in Nat /\ streamId' \in Int /\ streams' \in Nat
    BY <1>1
  <2>4. playing' \in BOOLEAN
    BY <1>1, Zenon
  <2>5. QED
    BY <2>2, <2>3, <2>4 DEF SessionForm
<1>3. Numbered' /\ Unconnected'
  BY <1>1 DEF Numbered, Unconnected
<1>4. QED
  BY <1>1, <1>2, <1>3 DEF SessionInv

(* The session begins with connect.                                        *)
LEMMA ConnectKeeps == Connect /\ SessionInv => SessionInv'
<1> SUFFICES ASSUME Connect, SessionInv PROVE SessionInv'
  OBVIOUS
<1>1. /\ toServer = <<>> /\ toClient = <<>> /\ toClient' = <<>> /\ ~playing' /\ playing' = playing
      /\ SessionForm /\ Numbered /\ connected' /\ inConnectStream'
      /\ streamId' = streamId /\ streams' = streams
  BY DEF Connect, SessionInv, Unconnected, serverState
<1>2. PICK n \in Nat : n = numInvokes
  BY <1>1 DEF SessionForm
<1>3. <<"connect">> \in Seq(Method) /\ Len(<<"connect">>) = 1 /\ <<"connect">>[1] = "connect"
  BY OneMethod DEF Method, Chain
<1>4. Asked(<<>>, <<"connect">>, 0, <<>>, n, 0, 0, 1, 0)
  BY <1>1, <1>2, <1>3, NoMethod DEF Asked, Connect
<1>5. NoChain /\ OnceForm(<<>>) /\ KeptForm(<<>>) /\ NoneNew(n)
  BY <1>1 DEF NoChain, OnceForm, KeptForm, NoneNew
<1>6. QueuedForm(<<"connect">>)
  BY <1>3 DEF QueuedForm, Chain
<1>7. /\ Numbered' /\ numInvokes' \in Nat /\ toServer' \in Seq(CallForm)
      /\ methodCalls' \in Seq(CallForm) /\ \E call \in CallForm : Waits(call)'
  <2> DEFINE queued == <<"connect">>
  <2>1. queued[1] \notin {"publish", "play"}
    BY <1>3
  <2>2. QueuedForm(queued) /\ Asked(<<>>, queued, 0, <<>>, n, 0, 0, 1, 0)
    BY <1>4, <1>6
  <2> HIDE DEF queued
  <2>3. QED
    BY <1>1, <1>5, <2>1, <2>2, Chained
<1>8. SessionForm'
  BY <1>1, <1>7 DEF SessionForm
<1>9. QED
  BY <1>1, <1>7, <1>8 DEF SessionInv

-----------------------------------------------------------------------------
(* A message that changes no more than what is sent for it is read.        *)
OneCheck ==
  \/ toServer' = toServer /\ numInvokes' = numInvokes
  \/ /\ numInvokes' = numInvokes + 1 /\ toServer' \in Seq(CallForm)
     /\ \E p \in DOMAIN toServer' :
          /\ p \notin DOMAIN toServer /\ DOMAIN toServer' = DOMAIN toServer \cup {p}
          /\ toServer'[p].method = "_checkbw" /\ toServer'[p].txn = numInvokes + 1
     /\ \A i \in DOMAIN toServer : i \in DOMAIN toServer' /\ toServer'[i] = toServer[i]
ReadOn ==
  /\ toClient' \in Seq(MailForm)
  /\ \A i \in DOMAIN toClient' : i + 1 \in DOMAIN toClient /\ toClient'[i] = toClient[i + 1]
  /\ \A i \in DOMAIN toClient : i # 1 => i - 1 \in DOMAIN toClient' /\ toClient'[i - 1] = toClient[i]

(* A message is read off the wire.                                         *)
LEMMA ReadsOn ==
  ASSUME SessionForm, Read, toClient # <<>>
  PROVE  /\ ReadOn /\ 1 \in DOMAIN toClient /\ Answer = toClient[1] /\ Answer \in MailForm
         /\ DOMAIN toClient \subseteq Nat /\ DOMAIN toClient' \subseteq Nat
BY Rest DEF SessionForm, Read, ReadOn, Answer

LEMMA Forms ==
  ASSUME SessionForm
  PROVE  /\ \A i \in DOMAIN toServer : toServer[i] \in CallForm /\ toServer[i].txn \in Nat
         /\ \A i \in DOMAIN methodCalls : methodCalls[i] \in CallForm /\ methodCalls[i].txn \in Nat
         /\ \A i \in DOMAIN toClient :
              toClient[i] \in MailForm /\ (toClient[i].kind = "_result" => toClient[i].txn \in Nat)
<1>1. /\ \A i \in DOMAIN toServer : toServer[i] \in CallForm
      /\ \A i \in DOMAIN methodCalls : methodCalls[i] \in CallForm
      /\ \A i \in DOMAIN toClient : toClient[i] \in MailForm
  BY LenProperties, ElementOfSeq DEF SessionForm
<1>2. \A call \in CallForm : call.txn \in Nat
  BY DEF CallForm
<1>3. \A m \in MailForm : m.kind = "_result" => m.txn \in Nat
  BY DEF MailForm
<1>4. QED
  BY <1>1, <1>2, <1>3

NewCheck(i) ==
  /\ toServer'[i].method = "_checkbw" /\ toServer'[i].txn = numInvokes + 1
  /\ numInvokes' = numInvokes + 1
  /\ \A j \in DOMAIN toServer' : j # i => j \in DOMAIN toServer

(* A bandwidth check is sent, or nothing.                                  *)
LEMMA Checks ==
  ASSUME OneCheck
  PROVE  /\ \A i \in DOMAIN toServer' :
              (i \in DOMAIN toServer /\ toServer'[i] = toServer[i]) \/ NewCheck(i)
         /\ \A i \in DOMAIN toServer : i \in DOMAIN toServer' /\ toServer'[i] = toServer[i]
         /\ numInvokes' = numInvokes \/ numInvokes' = numInvokes + 1
<1>1. CASE toServer' = toServer /\ numInvokes' = numInvokes
  BY <1>1
<1>2. CASE numInvokes' = numInvokes + 1 /\ toServer' # toServer
  <2>1. PICK p \in DOMAIN toServer' :
          /\ p \notin DOMAIN toServer /\ DOMAIN toServer' = DOMAIN toServer \cup {p}
          /\ toServer'[p].method = "_checkbw" /\ toServer'[p].txn = numInvokes + 1
    BY <1>2 DEF OneCheck
  <2>2. \A i \in DOMAIN toServer : i \in DOMAIN toServer' /\ toServer'[i] = toServer[i]
    BY <1>2 DEF OneCheck
  <2>3. NewCheck(p)
    BY <1>2, <2>1 DEF NewCheck
  <2>4. QED
    BY <1>2, <2>1, <2>2, <2>3
<1>3. QED
  BY <1>1, <1>2 DEF OneCheck

(* It disturbs no number, no stream and no call that is waited for.        *)
LEMMA CheckNumbered ==
  ASSUME SessionForm, Numbered, ReadOn, OneCheck, methodCalls' = methodCalls
  PROVE  Numbered'
<1>1. \A i \in DOMAIN toServer' :
        (i \in DOMAIN toServer /\ toServer'[i] = toServer[i]) \/ NewCheck(i)
  BY Checks
<1>2. numInvokes \in Nat /\ (numInvokes' = numInvokes \/ numInvokes' = numInvokes + 1)
  BY Checks DEF SessionForm
<1>3. \A i \in DOMAIN toServer : toServer[i].txn \in Nat /\ toServer[i].txn <= numInvokes
  BY Forms DEF Numbered
<1>4. \A i \in DOMAIN toServer' : toServer'[i].txn <= numInvokes'
  <2> SUFFICES ASSUME NEW i \in DOMAIN toServer' PROVE toServer'[i].txn <= numInvokes'
    OBVIOUS
  <2>1. CASE i \in DOMAIN toServer /\ toServer'[i] = toServer[i]
    BY <2>1, <1>2, <1>3
  <2>2. CASE NewCheck(i)
    BY <2>2, <1>2 DEF NewCheck
  <2>3. QED
    BY <2>1, <2>2, <1>1
<1>5. \A i, j \in DOMAIN toServer' : toServer'[i].txn = toServer'[j].txn => i = j
  <2>1. ASSUME NEW i \in DOMAIN toServer', NEW j \in DOMAIN toServer', NewCheck(i), j # i
        PROVE  toServer'[i].txn # toServer'[j].txn
    <3>1. toServer'[i].txn = numInvokes + 1 /\ j \in DOMAIN toServer
      BY <2>1 DEF NewCheck
    <3>2. toServer'[j] = toServer[j]
      BY <3>1, Checks
    <3>3. QED
      BY <3>1, <3>2, <1>2, <1>3
  <2>2. \A i, j \in DOMAIN toServer : toServer[i].txn = toServer[j].txn => i = j
    BY DEF Numbered
  <2>3. QED
    BY <2>1, <2>2, <1>1
<1>6. ASSUME NEW i \in DOMAIN toClient', toClient'[i].kind = "_result"
      PROVE  /\ toClient'[i].txn <= numInvokes /\ toClient'[i].txn \in Nat
             /\ \A k \in DOMAIN methodCalls : methodCalls[k].method = "FCSubscribe" =>
                  toClient'[i].txn # methodCalls[k].txn
  <2>1. PICK j \in DOMAIN toClient : toClient'[i] = toClient[j]
    BY DEF ReadOn
  <2>2. QED
    BY <2>1, Forms, <1>6 DEF Numbered
<1>7. \A i \in DOMAIN toClient' : toClient'[i].kind = "_result" => toClient'[i].txn <= numInvokes'
  BY <1>2, <1>6
<1>8. ASSUME NEW k \in DOMAIN methodCalls, methodCalls[k].method = "FCSubscribe"
      PROVE  /\ methodCalls[k].txn <= numInvokes'
             /\ \A i \in DOMAIN toServer' :
                  toServer'[i].txn = methodCalls[k].txn => toServer'[i].method = "FCSubscribe"
  <2>1. methodCalls[k].txn <= numInvokes /\ methodCalls[k].txn \in Nat
    BY <1>8, Forms DEF Numbered
  <2>2. methodCalls[k].txn <= numInvokes' /\ methodCalls[k].txn # numInvokes + 1
    BY <2>1, <1>2
  <2>3. \A i \in DOMAIN toServer' : toServer'[i].txn = methodCalls[k].txn =>
          i \in DOMAIN toServer /\ toServer'[i] = toServer[i]
    BY <2>2, <1>1 DEF NewCheck
  <2>4. QED
    BY <2>2, <2>3, <1>8 DEF Numbered
<1>9. QED
  BY <1>4, <1>5, <1>6, <1>7, <1>8 DEF Numbered

LEMMA StopKept ==
  ASSUME SessionForm, ReadOn, toClient # <<>>, toClient[1].kind \notin {"Stop", "close"}, StopComes
  PROVE  StopComes'
BY DEF ReadOn, StopComes

LEMMA CheckPlays ==
  ASSUME SessionForm, ReadOn, OneCheck, methodCalls' = methodCalls, streamId' = streamId,
         active' = active, toClient # <<>>, toClient[1].kind \notin {"Stop", "close"}, Plays
  PROVE  Plays'
<1>1. active = streamId \/ StopComes => active' = streamId' \/ StopComes'
  BY StopKept
<1>2. \A i \in DOMAIN toServer' : toServer'[i].method \notin Chain \cup {"deleteStream"}
  BY DEF OneCheck, Plays, Chain
<1>3. \A i \in DOMAIN toClient' : toClient'[i].kind \notin {"Start", "Failed"}
  BY DEF ReadOn, Plays
<1>4. QED
  BY <1>1, <1>2, <1>3 DEF Plays

LEMMA CheckWaits ==
  ASSUME SessionForm, ReadOn, OneCheck, methodCalls' = methodCalls, streamId' = streamId,
         active' = active, toClient # <<>>, toClient[1].kind \notin {"Stop", "close"},
         DOMAIN toClient \subseteq Nat, DOMAIN toClient' \subseteq Nat,
         NEW call \in CallForm, Waits(call), ~AnswerTo(call, toClient[1])
  PROVE  Waits(call)'
<1>1. /\ numInvokes \in Nat /\ (numInvokes' = numInvokes \/ numInvokes' = numInvokes + 1)
      /\ call.txn \in Nat /\ call.txn <= numInvokes
  BY DEF OneCheck, SessionForm, CallForm, Waits
<1>2. call.txn <= numInvokes' /\ call.txn # numInvokes + 1
  BY <1>1
<1>3. ASSUME NEW i \in DOMAIN toServer'
      PROVE  \/ i \in DOMAIN toServer /\ toServer'[i] = toServer[i]
             \/ toServer'[i].method = "_checkbw" /\ toServer'[i].txn # call.txn
  BY <1>2 DEF OneCheck
<1>4. \A i \in DOMAIN toServer : i \in DOMAIN toServer' /\ toServer'[i] = toServer[i]
  BY DEF OneCheck
<1>5. call.method \in Chain
  BY DEF Waits
<1>6. \A i \in DOMAIN toServer' :
       /\ toServer'[i].method \in Chain \/ toServer'[i].txn = call.txn => toServer'[i] = call
       /\ toServer'[i].method = "deleteStream" => \E j \in DOMAIN toServer' : j > i /\ toServer'[j] = call
  BY <1>3, <1>4 DEF Waits, Chain
<1>7. AtServer(call) => AtServer(call)'
  BY <1>4 DEF AtServer, ReadOn
<1>8. Refused(call) => Refused(call)'
  BY <1>3 DEF Refused, ReadOn
<1>9. ASSUME Answered(call) PROVE Answered(call)'
  <2>1. PICK i \in DOMAIN toClient :
       /\ AnswerTo(call, toClient[i]) /\ AnswerFits(call, toClient[i])
       /\ \A j \in DOMAIN toClient : AnswerTo(call, toClient[j]) => j = i
    BY <1>9 DEF Answered
  <2>2. i # 1
    BY <2>1
  <2>3. PICK k \in DOMAIN toClient' : k = i - 1 /\ toClient'[k] = toClient[i]
    BY <2>2 DEF ReadOn
  <2>9. PICK m : m = toClient[i] /\ m = toClient'[k]
    BY <2>3
  <2>4. AnswerFits(call, m)'
    <3>1. AnswerFits(call, m)
      BY <2>1, <2>9
    <3>2. active = streamId \/ StopComes => active' = streamId' \/ StopComes'
      BY StopKept
    <3>3. QED
      BY <3>1, <3>2 DEF AnswerFits
  <2>5. \A j \in DOMAIN toClient' : AnswerTo(call, toClient'[j]) => j = k
    <3> SUFFICES ASSUME NEW j \in DOMAIN toClient', AnswerTo(call, toClient'[j]) PROVE j = k
      OBVIOUS
    <3>1. j + 1 = i
      BY <2>1 DEF ReadOn
    <3>2. QED
      BY <3>1, <2>3
  <2>6. AnswerTo(call, toClient'[k])
    BY <2>1, <2>3
  <2>7. \A q \in DOMAIN toServer' : toServer'[q] # call
    BY <1>3, <1>9, <1>5 DEF Answered, Chain
  <2>8. QED
    BY <2>4, <2>5, <2>6, <2>7, <2>9 DEF Answered, AnswerFits
<1>10. AtServer(call)' \/ Answered(call)' \/ Refused(call)'
  BY <1>7, <1>8, <1>9 DEF Waits
<1>11. /\ \E k \in DOMAIN methodCalls' :
            /\ methodCalls'[k] = call
            /\ \A q \in DOMAIN methodCalls' : q # k => methodCalls'[q].method = "FCSubscribe"
       /\ call.method \in {"publish", "play"} => call.stream = streamId' /\ streamId' > 0
  BY DEF Waits
<1>12. QED
  BY <1>2, <1>5, <1>6, <1>10, <1>11 DEF Waits

-----------------------------------------------------------------------------
(* The message read is the answer to the call that is waited for.          *)
LEMMA Settled ==
  ASSUME SessionForm, Numbered, ReadOn, toClient # <<>>, 1 \in DOMAIN toClient,
         DOMAIN toClient \subseteq Nat, DOMAIN toClient' \subseteq Nat,
         NEW call \in CallForm, Waits(call), AnswerTo(call, toClient[1])
  PROVE  /\ NoChain /\ NoneNew(numInvokes) /\ AnswerFits(call, toClient[1])
         /\ \A i \in DOMAIN toClient' : toClient'[i].kind \notin {"Start", "Failed"}
         /\ toClient[1].kind \notin {"Stop", "close"}
<1>1. Answered(call)
  BY DEF Waits, AtServer, Refused
<1>2. /\ AnswerFits(call, toClient[1])
      /\ \A j \in DOMAIN toClient : AnswerTo(call, toClient[j]) => j = 1
  BY <1>1 DEF Answered
<1>3. \A i \in DOMAIN toServer : toServer[i].method \notin Chain \cup {"deleteStream"}
  BY <1>1 DEF Answered, Waits
<1>4. \A i \in DOMAIN toClient' : i + 1 \in DOMAIN toClient /\ i + 1 # 1 /\ toClient'[i] = toClient[i + 1]
  BY DEF ReadOn
<1>5. \A i \in DOMAIN toClient' : toClient'[i].kind \notin {"Start", "Failed"}
  BY <1>2, <1>4 DEF AnswerTo
<1>6. NoneNew(numInvokes)
  BY <1>4, <1>5 DEF NoneNew, Numbered
<1>7. QED
  BY <1>2, <1>3, <1>5, <1>6 DEF NoChain, AnswerTo

(* The call that an answer is for.                                         *)
LEMMA TheFirst == ASSUME NEW p \in Nat PROVE First({p}) = p /\ First({}) = 0
<1>1. Min({p}) = p
  <2>1. \A x \in {p} : (\A y \in {p} : x <= y) <=> x = p
    OBVIOUS
  <2>2. QED
    BY <2>1 DEF Min
<1>2. QED
  BY <1>1 DEF First

(* What is left of the queue when the call waited for is taken from it.    *)
LEMMA Erased ==
  ASSUME SessionForm, NEW k \in DOMAIN methodCalls,
         \A q \in DOMAIN methodCalls : q # k => methodCalls[q].method = "FCSubscribe",
         NEW kept, kept = Erase(methodCalls, k)
  PROVE  kept \in Seq(CallForm) /\ KeptForm(kept)
<1>1. PICK n \in Nat : /\ methodCalls \in Seq(CallForm) /\ n = Len(methodCalls)
                       /\ DOMAIN methodCalls = 1 .. n /\ n \in Int
  BY LenProperties DEF SessionForm
<1>2. k \in 1 .. n /\ k - 1 \in Int /\ k + 1 \in Int /\ 1 \in Int
  BY <1>1
<1>3. \A i \in DOMAIN methodCalls : methodCalls[i] \in CallForm
  BY Forms
<1>4. PICK x, y : x = SubSeq(methodCalls, 1, k - 1) /\ y = SubSeq(methodCalls, k + 1, n)
  OBVIOUS
<1>5. /\ x \in Seq(CallForm) /\ \A i \in DOMAIN x : i \in DOMAIN methodCalls /\ i # k /\ x[i] = methodCalls[i]
  <2>0. \A i \in 1 .. k - 1 : i \in DOMAIN methodCalls /\ i # k
    BY <1>1, <1>2
  <2>1. \A i \in 1 .. k - 1 : methodCalls[i] \in CallForm
    BY <2>0, <1>3
  <2>2. /\ x \in Seq(CallForm) /\ Len(x) = (IF 1 <= k - 1 THEN k - 1 - 1 + 1 ELSE 0)
        /\ \A i \in 1 .. k - 1 - 1 + 1 : x[i] = methodCalls[1 + i - 1]
    BY <2>1, <1>2, <1>4, SubSeqProperties
  <2>3. DOMAIN x = 1 .. k - 1
    BY <2>2, <1>2, LenProperties
  <2>4. \A i \in 1 .. k - 1 : x[i] = methodCalls[i]
    <3> SUFFICES ASSUME NEW i \in 1 .. k - 1 PROVE x[i] = methodCalls[i]
      OBVIOUS
    <3>1. i \in 1 .. k - 1 - 1 + 1 /\ 1 + i - 1 = i
      BY <1>2
    <3>2. QED
      BY <3>1, <2>2
  <2>5. QED
    BY <2>0, <2>2, <2>3, <2>4
<1>6. /\ y \in Seq(CallForm)
      /\ \A i \in DOMAIN y : \E q \in DOMAIN methodCalls : q # k /\ y[i] = methodCalls[q]
  <2>0. \A i \in k + 1 .. n : i \in DOMAIN methodCalls
    BY <1>1, <1>2
  <2>1. \A i \in k + 1 .. n : methodCalls[i] \in CallForm
    BY <2>0, <1>3
  <2>2. /\ y \in Seq(CallForm) /\ Len(y) = (IF k + 1 <= n THEN n - (k + 1) + 1 ELSE 0)
        /\ \A i \in 1 .. n - (k + 1) + 1 : y[i] = methodCalls[(k + 1) + i - 1]
    BY <2>1, <1>1, <1>2, <1>4, SubSeqProperties
  <2>3. DOMAIN y = 1 .. n - k
    BY <2>2, <1>1, <1>2, LenProperties
  <2>4. ASSUME NEW i \in 1 .. n - k PROVE \E q \in DOMAIN methodCalls : q # k /\ y[i] = methodCalls[q]
    <3>1. i \in 1 .. n - (k + 1) + 1 /\ (k + 1) + i - 1 \in 1 .. n /\ (k + 1) + i - 1 # k
      BY <1>1, <1>2
    <3>2. QED
      BY <3>1, <2>2, <1>1
  <2>5. QED
    BY <2>2, <2>3, <2>4
<1>7. kept = x \o y
  BY <1>1, <1>4 DEF Erase, RemoveAt
<1>8. PICK a \in Nat, b \in Nat : /\ a = Len(x) /\ b = Len(y) /\ DOMAIN x = 1 .. a /\ DOMAIN y = 1 .. b
  BY <1>5, <1>6, LenProperties
<1>9. IsJoin(kept, x, y, a, b)
  BY <1>5, <1>6, <1>7, <1>8, CallsJoined
<1>10. /\ kept \in Seq(CallForm) /\ DOMAIN kept = 1 .. a + b
       /\ \A i \in 1 .. a + b : kept[i] = IF i <= a THEN x[i] ELSE y[i - a]
  BY <1>9 DEF IsJoin
<1>11. ASSUME NEW i \in 1 .. a + b
       PROVE  \E q \in DOMAIN methodCalls : q # k /\ kept[i] = methodCalls[q]
  <2>1. CASE i <= a
    <3>1. i \in 1 .. a
      BY <2>1
    <3>2. QED
      BY <3>1, <2>1, <1>5, <1>8, <1>10
  <2>2. CASE ~(i <= a)
    <3>1. i - a \in 1 .. b
      BY <2>2, <1>8
    <3>2. kept[i] = y[i - a]
      BY <2>2, <1>10
    <3>3. QED
      BY <3>1, <3>2, <1>6, <1>8
  <2>3. QED
    BY <2>1, <2>2
<1>12. QED
  BY <1>10, <1>11 DEF KeptForm

(* The message is read and changes nothing but what is sent.               *)
LEMMA CheckedKeeps ==
  ASSUME SessionInv, connected, toClient # <<>>, Read, OneCheck, methodCalls' = methodCalls,
         streamId' = streamId, playing' = playing, connected' = connected,
         inConnectStream' = (inConnectStream /\ ~playing'),
         active' = active, streams' = streams, toServer' \in Seq(CallForm),
         toClient[1].kind \notin {"Stop", "close"},
         ~playing => \A call \in CallForm : Waits(call) => ~AnswerTo(call, toClient[1])
  PROVE  SessionInv'
<1>1. SessionForm /\ Numbered
  BY DEF SessionInv
<1>2. ReadOn /\ DOMAIN toClient \subseteq Nat /\ DOMAIN toClient' \subseteq Nat
  BY <1>1, ReadsOn
<1>3. Numbered'
  BY <1>1, <1>2, CheckNumbered
<1>4. SessionForm'
  BY <1>1, <1>2, Checks DEF SessionForm, ReadOn
<1>5. CASE playing
  <2>1. Plays /\ ~inConnectStream
    BY <1>5 DEF SessionInv
  <2>2. Plays'
    BY <2>1, <1>1, <1>2, CheckPlays
  <2>3. QED
    BY <2>1, <2>2, <1>3, <1>4, <1>5 DEF SessionInv
<1>6. CASE ~playing
  <2>1. PICK call \in CallForm : Waits(call) /\ inConnectStream
    BY <1>6 DEF SessionInv
  <2>2. Waits(call)'
    BY <2>1, <1>1, <1>2, <1>6, CheckWaits
  <2>3. QED
    BY <2>1, <2>2, <1>3, <1>4, <1>6 DEF SessionInv
<1>7. QED
  BY <1>5, <1>6

LEMMA NotAnswered ==
  ASSUME NEW m, m.kind \notin {"Start", "Failed", "_result"}, NEW call
  PROVE  ~AnswerTo(call, m)
BY DEF AnswerTo

(* A message that HandleInvoke has no case for.                            *)
LEMMA NoEffectKeeps ==
  ASSUME SessionInv, connected, toClient # <<>>, Read, NoEffect,
         inConnectStream' = (inConnectStream /\ ~playing'),
         UNCHANGED <<role, connected, serverState>>
  PROVE  SessionInv'
<1>1. SessionForm
  BY DEF SessionInv
<1>2. Answer = toClient[1]
  BY <1>1, ReadsOn
<1>3. OneCheck
  BY DEF OneCheck, NoEffect
<1>4. toClient[1].kind \notin {"Start", "Failed", "_result", "Stop", "close"}
  BY <1>2 DEF NoEffect
<1>5. toServer' \in Seq(CallForm)
  BY <1>1 DEF SessionForm, NoEffect
<1>6. QED
  BY <1>3, <1>4, <1>5, NotAnswered, CheckedKeeps DEF NoEffect, serverState

(* _checkbw goes out.                                                      *)
LEMMA CheckSent ==
  ASSUME SessionForm, Invoke(<<"_checkbw">>, <<>>, 0, methodCalls)
  PROVE  OneCheck /\ methodCalls' = methodCalls
<1>1. PICK n \in Nat, l \in Nat, h \in Nat : n = numInvokes /\ l = Len(toServer) /\ h = Len(methodCalls)
  BY LenProperties DEF SessionForm
<1>2. PICK once : once = <<"_checkbw">>
  OBVIOUS
<1>3. once \in Seq(Method) /\ Len(once) = 1 /\ once[1] = "_checkbw"
  BY <1>2, OneMethod DEF Method, Chain
<1>4. Asked(once, <<>>, 0, methodCalls, n, l, 1, 0, h)
  BY <1>1, <1>2, <1>3, NoMethod DEF Asked, SessionForm
<1>5. Sends(once, <<>>, 0, methodCalls, n, l, 1, 0, h)
  <2>1. PICK na \in Nat, la \in Nat : na = n + 1 /\ la = l + 1
    OBVIOUS
  <2>2. QED
    BY <1>4, <2>1, InvokeGives
<1>6. /\ numInvokes' = n + 1 + 0
      /\ toServer' \in Seq(CallForm) /\ DOMAIN toServer' = 1 .. l + 1 + 0
      /\ \A k \in 1 .. l + 1 + 0 :
           toServer'[k] = IF k <= l THEN toServer[k] ELSE Sent(k, once, <<>>, n, l, 1, 0)
      /\ methodCalls' \in Seq(CallForm) /\ DOMAIN methodCalls' = 1 .. h + 0
      /\ \A k \in 1 .. h + 0 :
           methodCalls'[k] = IF k <= h THEN methodCalls[k] ELSE toServer'[l + 1 + (k - h)]
  BY <1>5 DEF Sends
<1>7. DOMAIN toServer = 1 .. l /\ DOMAIN methodCalls = 1 .. h
  BY <1>1, LenProperties DEF SessionForm
<1>8. PICK p \in 1 .. l + 1 + 0 : p = l + 1
  OBVIOUS
<1>9. toServer'[p] = [method |-> "_checkbw", txn |-> n + 1, stream |-> 0]
  <2>1. ~(p <= l) /\ p <= l + 1 /\ p - l = 1
    BY <1>8
  <2>2. toServer'[p] = Sent(p, once, <<>>, n, l, 1, 0)
    BY <2>1, <1>6
  <2>3. QED
    BY <2>1, <2>2, <1>3 DEF Sent
<1>10. DOMAIN toServer' = DOMAIN toServer \cup {p} /\ p \notin DOMAIN toServer
  BY <1>6, <1>7, <1>8
<1>11. \A i \in DOMAIN toServer : i \in DOMAIN toServer' /\ toServer'[i] = toServer[i]
  <2> SUFFICES ASSUME NEW i \in 1 .. l PROVE i \in 1 .. l + 1 + 0 /\ toServer'[i] = toServer[i]
    BY <1>6, <1>7
  <2>1. i \in 1 .. l + 1 + 0 /\ i <= l
    OBVIOUS
  <2>2. QED
    BY <2>1, <1>6
<1>12. OneCheck
  BY <1>1, <1>6, <1>8, <1>9, <1>10, <1>11 DEF OneCheck
<1>13. methodCalls' = methodCalls
  <2>1. \A k \in 1 .. h : methodCalls'[k] = methodCalls[k]
    <3> SUFFICES ASSUME NEW k \in 1 .. h PROVE methodCalls'[k] = methodCalls[k]
      OBVIOUS
    <3>1. k \in 1 .. h + 0 /\ k <= h
      OBVIOUS
    <3>2. QED
      BY <3>1, <1>6
  <2>2. Len(methodCalls') = h
    BY <1>6, LenProperties
  <2>3. QED
    BY <2>1, <2>2, <1>1, <1>6, SeqEqual DEF SessionForm
<1>14. QED
  BY <1>12, <1>13

(* onBWDone and _onbwcheck.                                                *)
LEMMA BandwidthKeeps ==
  ASSUME SessionInv, connected, toClient # <<>>, Read, Bandwidth,
         inConnectStream' = (inConnectStream /\ ~playing'),
         UNCHANGED <<role, connected, serverState>>
  PROVE  SessionInv'
<1>1. SessionForm
  BY DEF SessionInv
<1>2. Answer = toClient[1]
  BY <1>1, ReadsOn
<1>3. OneCheck /\ methodCalls' = methodCalls
  <2>1. CASE Invoke(<<"_checkbw">>, <<>>, 0, methodCalls)
    BY <2>1, <1>1, CheckSent
  <2>2. CASE UNCHANGED <<numInvokes, methodCalls, toServer>>
    BY <2>2 DEF OneCheck
  <2>3. QED
    BY <2>1, <2>2 DEF Bandwidth
<1>4. toClient[1].kind \notin {"Start", "Failed", "_result", "Stop", "close"}
  BY <1>2 DEF Bandwidth
<1>5. toServer' \in Seq(CallForm)
  BY <1>1, <1>3 DEF SessionForm, OneCheck
<1>6. QED
  BY <1>3, <1>4, <1>5, NotAnswered, CheckedKeeps DEF Bandwidth, serverState

(* The answer to publish or play, with the call taken from the queue.      *)
LEMMA PlaysNow ==
  ASSUME SessionForm, Numbered, Read, toClient # <<>>,
         NEW call \in CallForm, Waits(call), AnswerTo(call, toClient[1]),
         toClient[1].kind # "Failed", call.method \in {"publish", "play"},
         NEW kept, KeptForm(kept), kept \in Seq(CallForm), methodCalls' = kept,
         UNCHANGED <<streamId, toServer, numInvokes, active>>
  PROVE  Plays' /\ Numbered'
<1>1. /\ ReadOn /\ DOMAIN toClient \subseteq Nat /\ DOMAIN toClient' \subseteq Nat
      /\ 1 \in DOMAIN toClient
  BY ReadsOn
<1>2. /\ NoChain /\ NoneNew(numInvokes) /\ AnswerFits(call, toClient[1])
      /\ \A i \in DOMAIN toClient' : toClient'[i].kind \notin {"Start", "Failed"}
      /\ toClient[1].kind \notin {"Stop", "close"}
  BY <1>1, Settled
<1>3. streamId > 0
  BY DEF Waits
<1>4. active' = streamId' \/ StopComes'
  <2>1. active = streamId \/ StopComes
    BY <1>2 DEF AnswerFits
  <2>2. QED
    BY <2>1, <1>1, <1>2, StopKept
<1>5. Plays'
  BY <1>2, <1>3, <1>4 DEF Plays, KeptForm, NoChain
<1>6. ASSUME NEW k \in DOMAIN methodCalls', methodCalls'[k].method = "FCSubscribe"
      PROVE  /\ methodCalls'[k].txn <= numInvokes'
             /\ \A i \in DOMAIN toServer' :
                  toServer'[i].txn = methodCalls'[k].txn => toServer'[i].method = "FCSubscribe"
             /\ \A i \in DOMAIN toClient' :
                  toClient'[i].kind = "_result" => toClient'[i].txn # methodCalls'[k].txn
  <2>1. PICK q \in DOMAIN methodCalls : methodCalls[q] = methodCalls'[k]
    BY DEF KeptForm
  <2>2. QED
    BY <2>1, <1>6, <1>2 DEF Numbered, NoneNew
<1>7. Numbered'
  BY <1>2, <1>6 DEF Numbered, NoneNew
<1>8. QED
  BY <1>5, <1>7

(* Who waits is the one call of the chain in the queue.                    *)
LEMMA TheWaiting ==
  ASSUME SessionForm, NEW call \in CallForm, Waits(call)
  PROVE  \E k \in DOMAIN methodCalls :
           /\ methodCalls[k] = call /\ k \in Nat /\ k # 0
           /\ \A q \in DOMAIN methodCalls : q # k => methodCalls[q].method = "FCSubscribe"
<1>1. DOMAIN methodCalls \subseteq Nat \ {0}
  BY LenProperties DEF SessionForm
<1>2. QED
  BY <1>1 DEF Waits

Matching(found) == found = {k \in DOMAIN methodCalls : methodCalls[k].txn = Answer.txn}

(* HandleInvoke's result: the answer to the call that is waited for, or to *)
(* none in the queue.                                                      *)
LEMMA ResultAnswers ==
  ASSUME SessionInv, connected, toClient # <<>>, Read, Answer.kind = "_result",
         NEW found, Matching(found)
  PROVE  \/ /\ found = {}
            /\ ~playing => \A call \in CallForm : Waits(call) => ~AnswerTo(call, toClient[1])
         \/ /\ ~playing /\ inConnectStream
            /\ \E call \in CallForm : \E k \in DOMAIN methodCalls :
                 /\ Waits(call) /\ AnswerTo(call, toClient[1])
                 /\ methodCalls[k] = call /\ k \in Nat /\ k # 0 /\ found = {k}
                 /\ \A q \in DOMAIN methodCalls : q # k => methodCalls[q].method = "FCSubscribe"
<1>1. SessionForm /\ Numbered
  BY DEF SessionInv
<1>2. 1 \in DOMAIN toClient /\ Answer = toClient[1]
  BY <1>1, ReadsOn
<1>3. \A k \in DOMAIN methodCalls : methodCalls[k].method = "FCSubscribe" => k \notin found
  BY <1>1, <1>2 DEF Numbered, Matching
<1>4. CASE playing
  <2>1. \A k \in DOMAIN methodCalls : methodCalls[k].method = "FCSubscribe"
    BY <1>4 DEF SessionInv, Plays
  <2>2. found = {}
    BY <2>1, <1>3 DEF Matching
  <2>3. QED
    BY <2>2, <1>4
<1>5. CASE ~playing
  <2>1. inConnectStream
    BY <1>5 DEF SessionInv
  <2>2. ASSUME NEW call \in CallForm, Waits(call)
        PROVE  \E k \in DOMAIN methodCalls :
                 /\ methodCalls[k] = call /\ k \in Nat /\ k # 0
                 /\ \A q \in DOMAIN methodCalls : q # k => methodCalls[q].method = "FCSubscribe"
                 /\ AnswerTo(call, toClient[1]) => found = {k}
                 /\ ~AnswerTo(call, toClient[1]) => found = {}
    <3>1. PICK k \in DOMAIN methodCalls :
           /\ methodCalls[k] = call /\ k \in Nat /\ k # 0
           /\ \A q \in DOMAIN methodCalls : q # k => methodCalls[q].method = "FCSubscribe"
      BY <2>2, <1>1, TheWaiting
    <3>2. AnswerTo(call, toClient[1]) <=> k \in found
      BY <3>1, <1>2 DEF AnswerTo, Matching
    <3>3. found \subseteq {k}
      BY <3>1, <1>3 DEF Matching
    <3>4. QED
      BY <3>1, <3>2, <3>3
  <2>3. CASE \E call \in CallForm : Waits(call) /\ AnswerTo(call, toClient[1])
    <3>1. PICK call \in CallForm : Waits(call) /\ AnswerTo(call, toClient[1])
      BY <2>3
    <3>2. QED
      BY <3>1, <2>1, <2>2, <1>5
  <2>4. CASE \A call \in CallForm : Waits(call) => ~AnswerTo(call, toClient[1])
    <3>1. PICK call \in CallForm : Waits(call)
      BY <1>5 DEF SessionInv
    <3>2. QED
      BY <3>1, <2>2, <2>4
  <2>5. QED
    BY <2>3, <2>4
<1>6. QED
  BY <1>4, <1>5

(* connect's answer: releaseStream and FCPublish go, createStream and      *)
(* FCSubscribe after them.                                                 *)
LEMMA ConnectAnswered ==
  ASSUME SessionForm, Numbered, Read, toClient # <<>>,
         NEW call \in CallForm, Waits(call), AnswerTo(call, toClient[1]),
         NEW kept, KeptForm(kept), kept \in Seq(CallForm),
         Invoke(IF role = "publish" THEN <<"releaseStream", "FCPublish">> ELSE <<>>,
                IF role = "live" THEN <<"createStream", "FCSubscribe">> ELSE <<"createStream">>,
                0, kept)
  PROVE  /\ Numbered' /\ numInvokes' \in Nat /\ toServer' \in Seq(CallForm)
         /\ methodCalls' \in Seq(CallForm) /\ \E next \in CallForm : Waits(next)'
<1>1. /\ ReadOn /\ DOMAIN toClient \subseteq Nat /\ DOMAIN toClient' \subseteq Nat
      /\ 1 \in DOMAIN toClient
  BY ReadsOn
<1>2. NoChain /\ NoneNew(numInvokes)
  BY <1>1, Settled
<1>9. PICK once : once = (IF role = "publish" THEN <<"releaseStream", "FCPublish">> ELSE <<>>)
  OBVIOUS
<1>10. PICK queued :
         queued = (IF role = "live" THEN <<"createStream", "FCSubscribe">> ELSE <<"createStream">>)
  OBVIOUS
<1>3. PICK a \in Nat : once \in Seq(Method) /\ Len(once) = a /\ OnceForm(once)
  <2>1. "releaseStream" \in Method /\ "FCPublish" \in Method
    BY DEF Method
  <2>2. PICK x : x = <<"releaseStream", "FCPublish">>
    OBVIOUS
  <2>3. x \in Seq(Method) /\ Len(x) = 2 /\ OnceForm(x)
    BY <2>1, <2>2 DEF OnceForm
  <2>4. CASE once = <<>>
    BY <2>4, NoMethod DEF OnceForm
  <2>5. CASE once = x
    BY <2>3, <2>5
  <2>6. QED
    BY <2>2, <2>4, <2>5, <1>9
<1>4. PICK b \in Nat \ {0} :
        queued \in Seq(Method) /\ Len(queued) = b /\ QueuedForm(queued) /\ queued[1] = "createStream"
  <2>1. "createStream" \in Method /\ "FCSubscribe" \in Method
    BY DEF Method, Chain
  <2>2. PICK x, y : x = <<"createStream", "FCSubscribe">> /\ y = <<"createStream">>
    OBVIOUS
  <2>3. /\ x \in Seq(Method) /\ Len(x) = 2 /\ DOMAIN x = 1 .. 2 /\ x[1] = "createStream" /\ x[2] = "FCSubscribe"
        /\ y \in Seq(Method) /\ Len(y) = 1 /\ DOMAIN y = 1 .. 1 /\ y[1] = "createStream"
    BY <2>1, <2>2
  <2>4. QueuedForm(x) /\ QueuedForm(y)
    BY <2>3 DEF QueuedForm, Chain
  <2>5. CASE queued = x
    <3>1. Len(queued) = 2 /\ 2 \in Nat \ {0}
      BY <2>3, <2>5
    <3>2. queued \in Seq(Method) /\ QueuedForm(queued) /\ queued[1] = "createStream"
      BY <2>3, <2>4, <2>5
    <3>3. QED
      BY <3>1, <3>2
  <2>6. CASE queued = y
    BY <2>3, <2>4, <2>6
  <2>7. QED
    BY <2>2, <2>5, <2>6, <1>10
<1>5. PICK n \in Nat, l \in Nat, h \in Nat : n = numInvokes /\ l = Len(toServer) /\ h = Len(kept)
  BY LenProperties DEF SessionForm
<1>6. Asked(once, queued, 0, kept, n, l, a, b, h)
  BY <1>3, <1>4, <1>5, <1>9, <1>10 DEF Asked, SessionForm
<1>7. NoneNew(n) /\ (queued[1] \in {"publish", "play"} => 0 = streamId' /\ streamId' > 0)
  BY <1>2, <1>4, <1>5
<1>8. 0 \in Int
  OBVIOUS
<1>11. QED
  BY <1>2, <1>3, <1>4, <1>5, <1>6, <1>7, <1>8, Chained, ZenonT(30)

(* createStream's answer: publish or play goes, for the stream it names.   *)
LEMMA StreamAnswered ==
  ASSUME SessionForm, Numbered, Read, toClient # <<>>,
         NEW call \in CallForm, Waits(call), AnswerTo(call, toClient[1]),
         toClient[1].kind = "_result", call.method = "createStream",
         NEW kept, KeptForm(kept), kept \in Seq(CallForm),
         streamId' = Answer.stream,
         Invoke(<<>>, <<IF role = "publish" THEN "publish" ELSE "play">>, Answer.stream, kept)
  PROVE  /\ Numbered' /\ numInvokes' \in Nat /\ toServer' \in Seq(CallForm)
         /\ methodCalls' \in Seq(CallForm) /\ \E next \in CallForm : Waits(next)'
         /\ streamId' \in Int
<1>1. /\ ReadOn /\ DOMAIN toClient \subseteq Nat /\ DOMAIN toClient' \subseteq Nat
      /\ 1 \in DOMAIN toClient /\ Answer = toClient[1] /\ Answer \in MailForm
  BY ReadsOn
<1>2. NoChain /\ NoneNew(numInvokes) /\ AnswerFits(call, toClient[1])
  BY <1>1, Settled
<1>3. PICK stream \in Int : stream = Answer.stream /\ stream > 0
  <2>1. toClient[1].stream > 0
    BY <1>2 DEF AnswerFits
  <2>2. Answer.stream \in Nat
    BY <1>1 DEF MailForm
  <2>3. QED
    BY <2>1, <2>2, <1>1
<1>4. PICK queued :
        /\ queued = <<IF role = "publish" THEN "publish" ELSE "play">>
        /\ queued \in Seq(Method) /\ Len(queued) = 1 /\ queued[1] \in {"publish", "play"}
        /\ QueuedForm(queued)
  <2>1. PICK x : x = (IF role = "publish" THEN "publish" ELSE "play") /\ x \in {"publish", "play"}
    OBVIOUS
  <2>2. x \in Method
    BY <2>1 DEF Method, Chain
  <2>6. <<x>> \in Seq(Method) /\ Len(<<x>>) = 1 /\ <<x>>[1] = x
    BY <2>2, OneMethod
  <2>3. PICK y : y = <<x>> /\ y \in Seq(Method) /\ Len(y) = 1 /\ y[1] = x /\ DOMAIN y = 1 .. 1
    BY <2>6, LenProperties
  <2>4. QueuedForm(y)
    BY <2>1, <2>3 DEF QueuedForm, Chain
  <2>5. QED
    BY <2>1, <2>3, <2>4
<1>5. PICK n \in Nat, l \in Nat, h \in Nat : n = numInvokes /\ l = Len(toServer) /\ h = Len(kept)
  BY LenProperties DEF SessionForm
<1>6. Asked(<<>>, queued, stream, kept, n, l, 0, 1, h)
  BY <1>3, <1>4, <1>5, NoMethod DEF Asked, SessionForm
<1>7. OnceForm(<<>>)
  BY DEF OnceForm
<1>8. stream = streamId' /\ streamId' > 0
  BY <1>3
<1>9. QED
  BY <1>2, <1>3, <1>4, <1>5, <1>6, <1>7, <1>8, Chained

(* The invariant of a session that waits, and of one that plays.           *)
LEMMA InvWaiting ==
  ASSUME SessionForm', Numbered', connected', ~playing', inConnectStream',
         \E call \in CallForm : Waits(call)'
  PROVE  SessionInv'
BY DEF SessionInv

LEMMA InvPlaying ==
  ASSUME SessionForm', Numbered', connected', playing', ~inConnectStream', Plays'
  PROVE  SessionInv'
BY DEF SessionInv

LEMMA FormNow ==
  ASSUME numInvokes' \in Nat, streamId' \in Int, streams' \in Nat, playing' \in BOOLEAN,
         toServer' \in Seq(CallForm), methodCalls' \in Seq(CallForm), toClient' \in Seq(MailForm)
  PROVE  SessionForm'
BY DEF SessionForm

(* _result: the next call of the chain goes out.                           *)
LEMMA ResultKeeps ==
  ASSUME SessionInv, connected, toClient # <<>>, Read, Result,
         inConnectStream' = (inConnectStream /\ ~playing'),
         UNCHANGED <<role, connected, serverState>>
  PROVE  SessionInv'
<1>1. SessionForm /\ Numbered
  BY DEF SessionInv
<1>2. ReadOn /\ Answer = toClient[1] /\ toClient[1].kind = "_result"
  BY <1>1, ReadsOn DEF Result
<1>3. PICK found : found = {k \in DOMAIN methodCalls : methodCalls[k].txn = Answer.txn}
  OBVIOUS
<1>4. /\ First(found) = 0 => UNCHANGED <<numInvokes, methodCalls, streamId, playing, toServer>>
      /\ First(found) # 0 => ResultOf(methodCalls[First(found)], Erase(methodCalls, First(found)))
  BY <1>3 DEF Result
<1>5. \/ /\ found = {}
         /\ ~playing => \A call \in CallForm : Waits(call) => ~AnswerTo(call, toClient[1])
      \/ /\ ~playing /\ inConnectStream
         /\ \E call \in CallForm : \E k \in DOMAIN methodCalls :
              /\ Waits(call) /\ AnswerTo(call, toClient[1])
              /\ methodCalls[k] = call /\ k \in Nat /\ k # 0 /\ found = {k}
              /\ \A q \in DOMAIN methodCalls : q # k => methodCalls[q].method = "FCSubscribe"
  <2>1. Answer.kind = "_result"
    BY <1>2
  <2>2. Matching(found)
    BY <1>3 DEF Matching
  <2>3. QED
    BY <2>1, <2>2, ResultAnswers
<1>6. CASE /\ found = {}
           /\ ~playing => \A call \in CallForm : Waits(call) => ~AnswerTo(call, toClient[1])
  <2>1. First(found) = 0
    BY <1>6 DEF First
  <2>2. OneCheck
    BY <2>1, <1>4 DEF OneCheck
  <2>3. toServer' \in Seq(CallForm)
    BY <2>1, <1>1, <1>4 DEF SessionForm
  <2>4. toClient[1].kind \notin {"Stop", "close"}
    BY <1>2
  <2>5. QED
    BY <1>4, <1>6, <2>1, <2>2, <2>3, <2>4, CheckedKeeps DEF serverState
<1>7. CASE ~playing /\ inConnectStream /\ \E call \in CallForm : \E k \in DOMAIN methodCalls :
              /\ Waits(call) /\ AnswerTo(call, toClient[1])
              /\ methodCalls[k] = call /\ k \in Nat /\ k # 0 /\ found = {k}
              /\ \A q \in DOMAIN methodCalls : q # k => methodCalls[q].method = "FCSubscribe"
  <2>1. PICK call \in CallForm : \E k \in DOMAIN methodCalls :
              /\ Waits(call) /\ AnswerTo(call, toClient[1])
              /\ methodCalls[k] = call /\ k \in Nat /\ k # 0 /\ found = {k}
              /\ \A q \in DOMAIN methodCalls : q # k => methodCalls[q].method = "FCSubscribe"
    BY <1>7
  <2>2. PICK k \in DOMAIN methodCalls :
              /\ Waits(call) /\ AnswerTo(call, toClient[1])
              /\ methodCalls[k] = call /\ k \in Nat /\ k # 0 /\ found = {k}
              /\ \A q \in DOMAIN methodCalls : q # k => methodCalls[q].method = "FCSubscribe"
    BY <2>1
  <2>3. PICK kept : kept = Erase(methodCalls, k)
    OBVIOUS
  <2>4. kept \in Seq(CallForm) /\ KeptForm(kept)
    BY <2>2, <2>3, <1>1, Erased
  <2>5. First(found) = k
    BY <2>2, TheFirst
  <2>6. ResultOf(call, kept)
    BY <2>2, <2>3, <2>5, <1>4
  <2>7. call.method # "FCSubscribe"
    BY <2>2 DEF Waits, Chain
  <2>8. toClient' \in Seq(MailForm) /\ streams' = streams /\ streams \in Nat /\ streamId \in Int
        /\ connected' = connected /\ active' = active /\ connected'
    BY <1>1, <1>2 DEF ReadOn, SessionForm, serverState
  <2>13. playing \in BOOLEAN /\ ~playing /\ inConnectStream /\ numInvokes \in Nat /\ toServer \in Seq(CallForm)
    BY <1>1, <1>7 DEF SessionForm
  <2>9. CASE call.method = "connect"
    <3>1. UNCHANGED <<streamId, playing>>
      BY <2>6, <2>9 DEF ResultOf
    <3>2. /\ Numbered' /\ numInvokes' \in Nat /\ toServer' \in Seq(CallForm)
          /\ methodCalls' \in Seq(CallForm) /\ \E next \in CallForm : Waits(next)'
      <4>1. Invoke(IF role = "publish" THEN <<"releaseStream", "FCPublish">> ELSE <<>>,
                IF role = "live" THEN <<"createStream", "FCSubscribe">> ELSE <<"createStream">>,
                0, kept)
        BY <2>6, <2>9 DEF ResultOf
      <4>2. QED
        BY <4>1, <2>2, <2>4, <1>1, ConnectAnswered
    <3>3. playing' \in BOOLEAN /\ ~playing' /\ inConnectStream'
      BY <2>13, <3>1
    <3>4. SessionForm'
      BY <2>8, <3>1, <3>2, <3>3, FormNow
    <3>5. QED
      BY <2>8, <3>2, <3>3, <3>4, InvWaiting
  <2>10. CASE call.method = "createStream"
    <3>1. /\ Invoke(<<>>, <<IF role = "publish" THEN "publish" ELSE "play">>, Answer.stream, kept)
          /\ UNCHANGED playing /\ streamId' = Answer.stream
      BY <2>6, <2>10 DEF ResultOf
    <3>2. /\ Numbered' /\ numInvokes' \in Nat /\ toServer' \in Seq(CallForm)
          /\ methodCalls' \in Seq(CallForm) /\ \E next \in CallForm : Waits(next)'
          /\ streamId' \in Int
      BY <3>1, <2>2, <2>4, <2>10, <1>1, <1>2, StreamAnswered
    <3>3. playing' \in BOOLEAN /\ ~playing' /\ inConnectStream'
      BY <2>13, <3>1
    <3>4. SessionForm'
      BY <2>8, <3>1, <3>2, <3>3, FormNow
    <3>5. QED
      BY <2>8, <3>2, <3>3, <3>4, InvWaiting
  <2>11. CASE call.method \in {"publish", "play"}
    <3>1. playing' = TRUE /\ methodCalls' = kept /\ UNCHANGED <<streamId, numInvokes, toServer>>
      BY <2>6, <2>11 DEF ResultOf
    <3>2. Plays' /\ Numbered'
      BY <3>1, <2>2, <2>4, <2>8, <2>11, <1>1, <1>2, PlaysNow
    <3>3. playing' \in BOOLEAN /\ playing' /\ ~inConnectStream'
      BY <3>1, Zenon
    <3>4. SessionForm'
      BY <2>4, <2>8, <2>13, <3>1, <3>3, FormNow
    <3>5. QED
      BY <2>8, <3>2, <3>3, <3>4, InvPlaying
  <2>12. QED
    BY <2>6, <2>7, <2>9, <2>10, <2>11 DEF ResultOf
<1>8. QED
  BY <1>5, <1>6, <1>7

(* onStatus that publishing or playing began.                              *)
LEMMA StartKeeps ==
  ASSUME SessionInv, connected, toClient # <<>>, Read, Start,
         inConnectStream' = (inConnectStream /\ ~playing'),
         UNCHANGED <<role, connected, serverState>>
  PROVE  SessionInv'
<1>1. SessionForm /\ Numbered
  BY DEF SessionInv
<1>2. /\ ReadOn /\ Answer = toClient[1] /\ toClient[1].kind = "Start"
      /\ DOMAIN toClient \subseteq Nat /\ DOMAIN toClient' \subseteq Nat /\ 1 \in DOMAIN toClient
  BY <1>1, ReadsOn DEF Start
<1>3. ~playing
  BY <1>2 DEF SessionInv, Plays
<1>4. PICK call \in CallForm : Waits(call)
  BY <1>3 DEF SessionInv
<1>5. AnswerTo(call, toClient[1])
  BY <1>2 DEF AnswerTo
<1>6. call.method \in {"publish", "play"} /\ Answer.of = call.method
  <2>1. AnswerFits(call, toClient[1])
    BY <1>1, <1>2, <1>4, <1>5, Settled
  <2>2. QED
    BY <2>1, <1>2 DEF AnswerFits
<1>7. PICK k \in DOMAIN methodCalls :
           /\ methodCalls[k] = call /\ k \in Nat /\ k # 0
           /\ \A q \in DOMAIN methodCalls : q # k => methodCalls[q].method = "FCSubscribe"
  BY <1>1, <1>4, TheWaiting
<1>8. PICK found : found = {q \in DOMAIN methodCalls : methodCalls[q].method = Answer.of}
  OBVIOUS
<1>9. found = {k}
  BY <1>6, <1>7, <1>8
<1>10. First(found) = k
  BY <1>7, <1>9, TheFirst
<1>11. PICK kept : kept = Erase(methodCalls, k)
  OBVIOUS
<1>12. kept \in Seq(CallForm) /\ KeptForm(kept)
  BY <1>1, <1>7, <1>11, Erased
<1>13. playing' = TRUE /\ methodCalls' = kept /\ UNCHANGED <<numInvokes, streamId, toServer>>
  BY <1>7, <1>8, <1>10, <1>11 DEF Start
<1>14. Plays' /\ Numbered'
  <2>1. UNCHANGED <<streamId, toServer, numInvokes, active>>
    BY <1>13 DEF serverState
  <2>2. QED
    BY <2>1, <1>1, <1>2, <1>4, <1>5, <1>6, <1>12, <1>13, PlaysNow
<1>15. SessionForm'
  <2>1. numInvokes \in Nat /\ toServer \in Seq(CallForm) /\ streamId \in Int /\ streams' \in Nat
    BY <1>1 DEF SessionForm, serverState
  <2>2. toClient' \in Seq(MailForm)
    BY <1>2 DEF ReadOn
  <2>3. QED
    BY <1>12, <1>13, <2>1, <2>2 DEF SessionForm
<1>16. QED
  BY <1>13, <1>14, <1>15 DEF SessionInv

(* HandleInvoke, message by message.                                       *)
LEMMA HandleKeeps == SessionInv /\ HandleInvoke => SessionInv'
<1> SUFFICES ASSUME SessionInv, HandleInvoke PROVE SessionInv'
  OBVIOUS
<1>1. connected /\ toClient # <<>>
  BY DEF HandleInvoke
<1>2. CASE RTMPClose
  BY <1>2, CloseKeeps
<1>3. CASE /\ Read
           /\ Result \/ Start \/ Bandwidth \/ NoEffect
           /\ inConnectStream' = (inConnectStream /\ ~playing')
           /\ UNCHANGED <<role, connected, serverState>>
  <2>1. CASE Result
    BY <1>1, <1>3, <2>1, ResultKeeps
  <2>2. CASE Start
    BY <1>1, <1>3, <2>2, StartKeeps
  <2>3. CASE Bandwidth
    BY <1>1, <1>3, <2>3, BandwidthKeeps
  <2>4. CASE NoEffect
    BY <1>1, <1>3, <2>4, NoEffectKeeps
  <2>5. QED
    BY <1>3, <2>1, <2>2, <2>3, <2>4
<1>4. QED
  BY <1>2, <1>3 DEF HandleInvoke

(* The thread that reads asks for another stream.                          *)
LEMMA ReconnectKeeps == SessionInv /\ ReconnectStream => SessionInv'
<1> SUFFICES ASSUME SessionInv, ReconnectStream PROVE SessionInv'
  OBVIOUS
<1>1. SessionForm /\ Numbered /\ connected /\ ~inConnectStream
  BY DEF SessionInv, ReconnectStream
<1>2. playing /\ Plays
  BY <1>1 DEF SessionInv
<1>3. PICK stream \in Int : stream = streamId /\ ~(stream < 0)
  BY <1>1, <1>2 DEF SessionForm, Plays
<1>4. /\ Invoke(<<"deleteStream">>, <<"createStream">>, stream, methodCalls)
      /\ playing' = FALSE /\ streamId' = -1 /\ inConnectStream' = TRUE /\ connected' = connected
      /\ toClient' = toClient /\ streams' = streams
  BY <1>3 DEF ReconnectStream, serverState
<1>5. PICK once, queued : once = <<"deleteStream">> /\ queued = <<"createStream">>
  OBVIOUS
<1>6. /\ once \in Seq(Method) /\ Len(once) = 1 /\ DOMAIN once = 1 .. 1 /\ once[1] = "deleteStream"
      /\ queued \in Seq(Method) /\ Len(queued) = 1 /\ DOMAIN queued = 1 .. 1 /\ queued[1] = "createStream"
  BY <1>5, OneMethod, LenProperties DEF Method, Chain
<1>7. PICK n \in Nat, l \in Nat, h \in Nat : n = numInvokes /\ l = Len(toServer) /\ h = Len(methodCalls)
  BY <1>1, LenProperties DEF SessionForm
<1>8. Asked(once, queued, stream, methodCalls, n, l, 1, 1, h)
  BY <1>1, <1>4, <1>5, <1>6, <1>7 DEF Asked, SessionForm
<1>9. NoChain /\ OnceForm(once) /\ QueuedForm(queued) /\ KeptForm(methodCalls) /\ NoneNew(n)
  <2>1. NoChain /\ KeptForm(methodCalls)
    BY <1>2 DEF NoChain, KeptForm, Plays
  <2>2. OnceForm(once) /\ QueuedForm(queued)
    BY <1>6 DEF OnceForm, QueuedForm, Chain
  <2>3. NoneNew(n)
    BY <1>1, <1>2, <1>4, <1>7 DEF NoneNew, Plays, Numbered
  <2>4. QED
    BY <2>1, <2>2, <2>3
<1>10. queued[1] \in {"publish", "play"} => stream = streamId' /\ streamId' > 0
  BY <1>6
<1>11. /\ Numbered' /\ numInvokes' \in Nat /\ toServer' \in Seq(CallForm)
       /\ methodCalls' \in Seq(CallForm) /\ \E call \in CallForm : Waits(call)'
  <2>1. 1 \in Nat /\ 1 \in Nat \ {0}
    OBVIOUS
  <2>2. QED
    BY <1>1, <1>8, <1>9, <1>10, <2>1, Chained, ZenonT(30)
<1>12. SessionForm'
  <2>1. streamId' \in Int /\ streams' \in Nat /\ toClient' \in Seq(MailForm)
    BY <1>1, <1>4 DEF SessionForm
  <2>2. playing' \in BOOLEAN
    BY <1>4, Zenon
  <2>3. QED
    BY <1>11, <2>1, <2>2 DEF SessionForm
<1>13. QED
  BY <1>1, <1>4, <1>11, <1>12 DEF SessionInv

(* The server takes the next request, and its mail is still on the way.    *)
NextTaken ==
  /\ toServer' \in Seq(CallForm)
  /\ \A i \in DOMAIN toServer' :
       i \in Nat \ {0} /\ i + 1 \in DOMAIN toServer /\ toServer'[i] = toServer[i + 1]
  /\ \A i \in DOMAIN toServer : i # 1 => i - 1 \in DOMAIN toServer' /\ toServer'[i - 1] = toServer[i]
  /\ 1 \in DOMAIN toServer /\ Head(toServer) = toServer[1] /\ toServer[1] \in CallForm
  /\ DOMAIN toServer \subseteq Nat

(* The server takes a request.                                             *)
LEMMA Takes ==
  ASSUME SessionForm, toServer # <<>>, toServer' = Tail(toServer)
  PROVE  NextTaken
BY Rest DEF SessionForm, NextTaken

(* Its reply x comes last; onBWDone may come before it.                    *)
Mailed(x) ==
  /\ toClient' \in Seq(MailForm)
  /\ \A i \in DOMAIN toClient : i \in DOMAIN toClient' /\ toClient'[i] = toClient[i]
  /\ \E p \in DOMAIN toClient' :
       /\ p \notin DOMAIN toClient /\ toClient'[p] = x
       /\ \A i \in DOMAIN toClient' : i # p => i \in DOMAIN toClient \/ toClient'[i].kind = "onBWDone"

(* It answers with one message, or with onBWDone ahead of it.              *)
LEMMA MailsOne ==
  ASSUME SessionForm, NEW x \in MailForm, Reply(<<x>>)
  PROVE  Mailed(x)
<1>1. PICK n \in Nat : n = Len(toClient) /\ toClient \in Seq(MailForm)
  BY LenProperties DEF SessionForm
<1>2. PICK u : u = <<x>> /\ u \in Seq(MailForm) /\ Len(u) = 1 /\ u[1] = x
  OBVIOUS
<1>3. toClient' = toClient \o u
  BY <1>2 DEF Reply
<1>4. /\ toClient' \in Seq(MailForm)
      /\ DOMAIN toClient = 1 .. n /\ DOMAIN toClient' = 1 .. n + 1
      /\ \A k \in 1 .. n + 1 : toClient'[k] = IF k <= n THEN toClient[k] ELSE u[k - n]
  BY <1>1, <1>2, <1>3, Joined
<1>5. PICK p \in 1 .. n + 1 : p = n + 1
  OBVIOUS
<1>6. toClient'[p] = x /\ p \notin 1 .. n
  <2>1. ~(p <= n) /\ p - n = 1
    BY <1>5
  <2>2. QED
    BY <2>1, <1>2, <1>4
<1>7. \A i \in 1 .. n : i \in 1 .. n + 1 /\ i <= n
  OBVIOUS
<1>8. \A i \in 1 .. n + 1 : i # p => i \in 1 .. n
  BY <1>5
<1>9. QED
  BY <1>4, <1>6, <1>7, <1>8 DEF Mailed

LEMMA MailsTwo ==
  ASSUME SessionForm, NEW w \in MailForm, NEW x \in MailForm, Reply(<<w, x>>), w.kind = "onBWDone"
  PROVE  Mailed(x)
<1>1. PICK n \in Nat : n = Len(toClient) /\ toClient \in Seq(MailForm)
  BY LenProperties DEF SessionForm
<1>2. PICK u : u = <<w, x>> /\ u \in Seq(MailForm) /\ Len(u) = 2 /\ u[1] = w /\ u[2] = x
  <2>1. /\ <<w, x>> \in Seq(MailForm) /\ Len(<<w, x>>) = 2
        /\ <<w, x>>[1] = w /\ <<w, x>>[2] = x
    OBVIOUS
  <2>2. QED
    BY <2>1, Zenon
<1>3. toClient' = toClient \o u
  BY <1>2 DEF Reply
<1>4. /\ toClient' \in Seq(MailForm)
      /\ DOMAIN toClient = 1 .. n /\ DOMAIN toClient' = 1 .. n + 2
      /\ \A k \in 1 .. n + 2 : toClient'[k] = IF k <= n THEN toClient[k] ELSE u[k - n]
  BY <1>1, <1>2, <1>3, Joined
<1>5. PICK p \in 1 .. n + 2, q \in 1 .. n + 2 : p = n + 2 /\ q = n + 1
  OBVIOUS
<1>6. toClient'[p] = x /\ toClient'[q] = w /\ p \notin 1 .. n
  <2>1. ~(p <= n) /\ p - n = 2 /\ ~(q <= n) /\ q - n = 1
    BY <1>5
  <2>2. QED
    BY <2>1, <1>2, <1>4
<1>7. \A i \in 1 .. n : i \in 1 .. n + 2 /\ i <= n
  OBVIOUS
<1>8. \A i \in 1 .. n + 2 : i # p => i \in 1 .. n \/ i = q
  BY <1>5
<1>9. QED
  BY <1>4, <1>6, <1>7, <1>8 DEF Mailed

(* What the mail says of a request taken.                                  *)
FromServer(r) ==
  \A i \in DOMAIN toClient' :
    \/ i \in DOMAIN toClient /\ toClient'[i] = toClient[i]
    \/ toClient'[i].kind = "_result" => toClient'[i].txn = r.txn /\ r.method # "FCSubscribe"

(* An answer has the number of its request, which is gone.                 *)
LEMMA NextNumbered ==
  ASSUME SessionForm, Numbered, NextTaken, FromServer(toServer[1]),
         UNCHANGED <<numInvokes, methodCalls>>
  PROVE  Numbered'
<1>1. \A i \in DOMAIN toServer' : toServer'[i].txn <= numInvokes'
  BY DEF NextTaken, Numbered
<1>2. \A i, j \in DOMAIN toServer' : toServer'[i].txn = toServer'[j].txn => i = j
  <2> SUFFICES ASSUME NEW i \in DOMAIN toServer', NEW j \in DOMAIN toServer',
                      toServer'[i].txn = toServer'[j].txn
               PROVE  i = j
    OBVIOUS
  <2>1. i + 1 = j + 1 /\ i \in Nat /\ j \in Nat
    BY DEF NextTaken, Numbered
  <2>2. QED
    BY <2>1
<1>3. \A i \in DOMAIN toClient' : toClient'[i].kind = "_result" => toClient'[i].txn <= numInvokes'
  BY DEF NextTaken, Numbered, FromServer
<1>4. ASSUME NEW k \in DOMAIN methodCalls, methodCalls[k].method = "FCSubscribe"
      PROVE  /\ methodCalls[k].txn <= numInvokes
             /\ \A i \in DOMAIN toServer' :
                  toServer'[i].txn = methodCalls[k].txn => toServer'[i].method = "FCSubscribe"
             /\ \A i \in DOMAIN toClient' :
                  toClient'[i].kind = "_result" => toClient'[i].txn # methodCalls[k].txn
  BY <1>4 DEF NextTaken, Numbered, FromServer
<1>5. QED
  BY <1>1, <1>2, <1>3, <1>4 DEF Numbered

LEMMA StopStays ==
  ASSUME StopComes, \A i \in DOMAIN toClient : i \in DOMAIN toClient' /\ toClient'[i] = toClient[i]
  PROVE  StopComes'
BY DEF StopComes

(* A request that is not the one waited for is taken.                      *)
LEMMA OtherTaken ==
  ASSUME SessionForm, Numbered, NextTaken, NEW call \in CallForm, Waits(call), toServer[1] # call,
         \A i \in DOMAIN toClient : i \in DOMAIN toClient' /\ toClient'[i] = toClient[i],
         \A i \in DOMAIN toClient' : i \in DOMAIN toClient \/ ~AnswerTo(call, toClient'[i]),
         active' = active \/ toServer[1].method = "deleteStream",
         UNCHANGED <<numInvokes, methodCalls, streamId>>
  PROVE  Waits(call)'
<1>1. \A i \in DOMAIN toServer : toServer[i] = call => i - 1 \in DOMAIN toServer' /\ toServer'[i - 1] = call
  BY DEF NextTaken
<1>2. AtServer(call) => AtServer(call)'
  BY <1>1 DEF AtServer
<1>3. Refused(call) => Refused(call)'
  BY DEF Refused, NextTaken
<1>4. ASSUME Answered(call) PROVE Answered(call)'
  <2>1. PICK i \in DOMAIN toClient :
       /\ AnswerTo(call, toClient[i]) /\ AnswerFits(call, toClient[i])
       /\ \A j \in DOMAIN toClient : AnswerTo(call, toClient[j]) => j = i
    BY <1>4 DEF Answered
  <2>2. active' = active
    BY <1>4 DEF Answered, Waits, NextTaken
  <2>3. PICK m : m = toClient[i] /\ m = toClient'[i]
    OBVIOUS
  <2>4. AnswerFits(call, m)'
    <3>1. AnswerFits(call, m)
      BY <2>1, <2>3
    <3>2. active = streamId \/ StopComes => active' = streamId' \/ StopComes'
      BY <2>2, StopStays
    <3>3. QED
      BY <3>1, <3>2 DEF AnswerFits
  <2>5. \A j \in DOMAIN toClient' : AnswerTo(call, toClient'[j]) => j = i
    BY <2>1
  <2>6. \A q \in DOMAIN toServer' : toServer'[q] # call
    BY <1>4 DEF Answered, NextTaken
  <2>7. QED
    BY <2>1, <2>3, <2>4, <2>5, <2>6 DEF Answered, AnswerFits
<1>5. \A i \in DOMAIN toServer' :
       /\ toServer'[i].method \in Chain \/ toServer'[i].txn = call.txn => toServer'[i] = call
       /\ toServer'[i].method = "deleteStream" => \E j \in DOMAIN toServer' : j > i /\ toServer'[j] = call
  <2> SUFFICES ASSUME NEW i \in DOMAIN toServer'
               PROVE  /\ toServer'[i].method \in Chain \/ toServer'[i].txn = call.txn => toServer'[i] = call
                      /\ toServer'[i].method = "deleteStream" =>
                           \E j \in DOMAIN toServer' : j > i /\ toServer'[j] = call
    OBVIOUS
  <2>1. i \in Nat /\ i + 1 \in DOMAIN toServer /\ toServer'[i] = toServer[i + 1]
    BY DEF NextTaken
  <2>2. toServer'[i].method \in Chain \/ toServer'[i].txn = call.txn => toServer'[i] = call
    BY <2>1 DEF Waits
  <2>3. ASSUME toServer'[i].method = "deleteStream"
        PROVE  \E j \in DOMAIN toServer' : j > i /\ toServer'[j] = call
    <3>1. PICK j \in DOMAIN toServer : j > i + 1 /\ toServer[j] = call
      BY <2>1, <2>3 DEF Waits
    <3>2. j \in Nat /\ j - 1 \in DOMAIN toServer' /\ toServer'[j - 1] = call
      BY <3>1, <1>1 DEF NextTaken
    <3>3. j - 1 > i
      BY <3>1, <3>2, <2>1
    <3>4. QED
      BY <3>2, <3>3
  <2>4. QED
    BY <2>2, <2>3
<1>6. AtServer(call)' \/ Answered(call)' \/ Refused(call)'
  BY <1>2, <1>3, <1>4 DEF Waits
<1>7. /\ \E k \in DOMAIN methodCalls' :
            /\ methodCalls'[k] = call
            /\ \A q \in DOMAIN methodCalls' : q # k => methodCalls'[q].method = "FCSubscribe"
      /\ call.method \in Chain /\ call.txn <= numInvokes'
      /\ call.method \in {"publish", "play"} => call.stream = streamId' /\ streamId' > 0
  BY DEF Waits
<1>8. QED
  BY <1>5, <1>6, <1>7 DEF Waits

(* The one waited for is taken: answered by x, or refused.                 *)
LEMMA CallTaken ==
  ASSUME SessionForm, Numbered, NextTaken, NEW call \in CallForm, Waits(call), toServer[1] = call,
         NEW x, Mailed(x),
         \/ /\ AnswerTo(call, x) /\ AnswerFits(call, x)'
         \/ ~AnswerTo(call, x) /\ call.method = "connect",
         UNCHANGED <<numInvokes, methodCalls, streamId>>
  PROVE  Waits(call)'
<1>1. \A i \in DOMAIN toServer : toServer[i] = call => i = 1
  BY DEF Numbered, NextTaken
<1>2. \A i \in DOMAIN toServer' : toServer'[i] # call
  BY <1>1 DEF NextTaken
<1>3. \A i \in DOMAIN toClient : ~AnswerTo(call, toClient[i])
  BY DEF Waits, Answered, Refused, AtServer, NextTaken
<1>4. \A i \in DOMAIN toServer' :
       /\ toServer'[i].method \in Chain \/ toServer'[i].txn = call.txn => toServer'[i] = call
       /\ toServer'[i].method = "deleteStream" => \E j \in DOMAIN toServer' : j > i /\ toServer'[j] = call
  <2> SUFFICES ASSUME NEW i \in DOMAIN toServer'
               PROVE  /\ toServer'[i].method \in Chain \/ toServer'[i].txn = call.txn => toServer'[i] = call
                      /\ toServer'[i].method # "deleteStream"
    OBVIOUS
  <2>1. i \in Nat /\ i + 1 \in DOMAIN toServer /\ toServer'[i] = toServer[i + 1] /\ ~(1 > i + 1)
    BY DEF NextTaken
  <2>2. toServer'[i].method # "deleteStream"
    BY <2>1, <1>1 DEF Waits
  <2>3. QED
    BY <2>1, <2>2 DEF Waits
<1>5. PICK p \in DOMAIN toClient' :
       /\ p \notin DOMAIN toClient /\ toClient'[p] = x
       /\ \A i \in DOMAIN toClient' : i # p => i \in DOMAIN toClient \/ toClient'[i].kind = "onBWDone"
  BY DEF Mailed
<1>6. \A i \in DOMAIN toClient' : i # p => ~AnswerTo(call, toClient'[i])
  BY <1>3, <1>5 DEF Mailed, AnswerTo
<1>7. CASE AnswerTo(call, x) /\ AnswerFits(call, x)'
  <2>1. Answered(call)'
    BY <1>2, <1>5, <1>6, <1>7 DEF Answered, AnswerFits
  <2>2. QED
    BY <2>1, <1>4 DEF Waits
<1>8. CASE ~AnswerTo(call, x) /\ call.method = "connect"
  <2>1. Refused(call)'
    BY <1>2, <1>5, <1>6, <1>8 DEF Refused
  <2>2. QED
    BY <2>1, <1>4 DEF Waits
<1>9. QED
  BY <1>7, <1>8

-----------------------------------------------------------------------------
(* The messages there are.                                                 *)
LEMMA MailOf ==
  /\ \A k \in {"_error", "onFCSubscribe", "onBWDone", "_onbwcheck", "Failed", "Stop", "close"} :
       [kind |-> k] \in MailForm
  /\ \A n \in Nat, s \in Nat : [kind |-> "_result", txn |-> n, stream |-> s] \in MailForm
  /\ \A o \in {"publish", "play"} : [kind |-> "Start", of |-> o] \in MailForm
BY DEF MailForm

(* A reply to a request that is not of the chain.                          *)
LEMMA OtherAnswered ==
  ASSUME SessionForm, Numbered, NextTaken, NEW x, Mailed(x), serverState' = serverState,
         toServer[1].method \notin Chain \cup {"deleteStream"},
         \/ x.kind = "_result" /\ x.txn = toServer[1].txn /\ toServer[1].method # "FCSubscribe"
         \/ x.kind \in {"_onbwcheck", "onFCSubscribe"},
         rtmpState' = rtmpState, SessionInv, connected
  PROVE  SessionInv'
<1>1. /\ UNCHANGED <<numInvokes, methodCalls, streamId, playing, connected, inConnectStream>>
      /\ active' = active /\ streams' = streams
  BY DEF rtmpState, serverState
<1>2. PICK p \in DOMAIN toClient' :
       /\ p \notin DOMAIN toClient /\ toClient'[p] = x
       /\ \A i \in DOMAIN toClient' : i # p => i \in DOMAIN toClient \/ toClient'[i].kind = "onBWDone"
  BY DEF Mailed
<1>3. FromServer(toServer[1])
  BY <1>2 DEF Mailed, FromServer
<1>4. Numbered'
  BY <1>1, <1>3, NextNumbered
<1>5. SessionForm'
  BY <1>1, FormNow DEF SessionForm, NextTaken, Mailed
<1>6. CASE playing
  <2>1. Plays /\ ~inConnectStream
    BY <1>6 DEF SessionInv
  <2>2. active' = streamId' \/ StopComes'
    BY <2>1, <1>1, StopStays DEF Plays, Mailed
  <2>3. Plays'
    BY <2>1, <2>2, <1>1, <1>2 DEF Plays, NextTaken, Mailed
  <2>4. QED
    BY <2>1, <2>3, <1>1, <1>4, <1>5, <1>6, InvPlaying
<1>7. CASE ~playing
  <2>1. PICK call \in CallForm : Waits(call) /\ inConnectStream
    BY <1>7 DEF SessionInv
  <2>2. toServer[1] # call /\ toServer[1].txn # call.txn
    BY <2>1 DEF Waits, NextTaken
  <2>3. \A i \in DOMAIN toClient' : i \in DOMAIN toClient \/ ~AnswerTo(call, toClient'[i])
    BY <2>2, <1>2 DEF AnswerTo
  <2>4. Waits(call)'
    BY <2>1, <2>2, <2>3, <1>1, OtherTaken DEF Mailed
  <2>5. QED
    BY <2>1, <2>4, <1>1, <1>4, <1>5, <1>7, InvWaiting
<1>8. QED
  BY <1>6, <1>7

(* A reply to the call of the chain.                                       *)
LEMMA ChainAnswered ==
  ASSUME SessionForm, Numbered, NextTaken, NEW x, Mailed(x), streams' \in Nat,
         toServer[1].method \in Chain,
         x.kind = "_result" => x.txn = toServer[1].txn,
         \/ /\ AnswerTo(toServer[1], x)
            /\ \A call \in CallForm :
                 call = toServer[1] /\ (call.method \in {"publish", "play"} => call.stream = streamId)
                   => AnswerFits(call, x)'
         \/ ~AnswerTo(toServer[1], x) /\ toServer[1].method = "connect",
         rtmpState' = rtmpState, SessionInv, connected
  PROVE  SessionInv'
<1>1. UNCHANGED <<numInvokes, methodCalls, streamId, playing, connected, inConnectStream>>
  BY DEF rtmpState
<1>2. PICK p \in DOMAIN toClient' :
       /\ p \notin DOMAIN toClient /\ toClient'[p] = x
       /\ \A i \in DOMAIN toClient' : i # p => i \in DOMAIN toClient \/ toClient'[i].kind = "onBWDone"
  BY DEF Mailed
<1>3. FromServer(toServer[1])
  BY <1>2 DEF Mailed, FromServer, Chain
<1>4. Numbered'
  BY <1>1, <1>3, NextNumbered
<1>5. SessionForm'
  BY <1>1, FormNow DEF SessionForm, NextTaken, Mailed
<1>6. ~playing
  BY DEF SessionInv, Plays, NextTaken
<1>7. PICK call \in CallForm : Waits(call) /\ inConnectStream
  BY <1>6 DEF SessionInv
<1>8. toServer[1] = call
  BY <1>7 DEF Waits, NextTaken
<1>9. call.method \in {"publish", "play"} => call.stream = streamId /\ streamId > 0
  BY <1>7 DEF Waits
<1>10. \/ AnswerTo(call, x) /\ AnswerFits(call, x)'
       \/ ~AnswerTo(call, x) /\ call.method = "connect"
  BY <1>8, <1>9 DEF AnswerFits
<1>11. Waits(call)'
  BY <1>1, <1>7, <1>8, <1>10, CallTaken
<1>12. QED
  BY <1>1, <1>4, <1>5, <1>6, <1>7, <1>11, InvWaiting

(* The server answers, request by request.                                 *)
LEMMA ServerKeeps == SessionInv /\ ServerAnswers => SessionInv'
<1> SUFFICES ASSUME SessionInv, ServerAnswers PROVE SessionInv'
  OBVIOUS
<1>1. /\ SessionForm /\ Numbered /\ connected /\ rtmpState' = rtmpState
      /\ toServer # <<>> /\ toServer' = Tail(toServer)
  BY DEF SessionInv, ServerAnswers
<1>2. NextTaken
  BY <1>1, Takes
<1>3. PICK r \in CallForm : r = toServer[1] /\ r = Head(toServer)
  BY <1>2 DEF NextTaken
<1>4. r.txn \in Nat /\ r.stream \in Int /\ streams \in Nat
  BY <1>1 DEF CallForm, SessionForm
<1>5. ASSUME NEW x, x.kind \in {"_result", "Start", "Failed"}, r.method \in Chain,
             x.kind = "_result" => x.txn = r.txn, Mailed(x), streams' \in Nat,
             x.kind = "Start" => r.method \in {"publish", "play"} /\ x.of = r.method,
             x.kind = "Failed" => r.method \in {"publish", "play"},
             x.kind = "_result" /\ r.method = "createStream" => x.stream > 0,
             r.method \in {"publish", "play"} /\ x.kind # "Failed" => active' = r.stream
      PROVE  SessionInv'
  <2>1. streamId' = streamId
    BY <1>1 DEF rtmpState
  <2>2. AnswerTo(r, x)
    BY <1>5 DEF AnswerTo
  <2>3. ASSUME NEW call \in CallForm, call = r,
               call.method \in {"publish", "play"} => call.stream = streamId
        PROVE  AnswerFits(call, x)'
    BY <1>5, <2>1, <2>3 DEF AnswerFits
  <2>4. QED
    BY <1>1, <1>2, <1>3, <1>5, <2>2, <2>3, ChainAnswered
<1>6. ASSUME r.method = "connect", UNCHANGED serverState,
             \/ Reply(<<[kind |-> "_result", txn |-> r.txn, stream |-> 0]>>)
             \/ Reply(<<[kind |-> "onBWDone"], [kind |-> "_result", txn |-> r.txn, stream |-> 0]>>)
             \/ Reply(<<[kind |-> "_error"]>>)
      PROVE  SessionInv'
  <2>1. PICK x \in MailForm : x = [kind |-> "_result", txn |-> r.txn, stream |-> 0]
    BY <1>4, MailOf
  <2>2. PICK w \in MailForm : w = [kind |-> "onBWDone"] /\ w.kind = "onBWDone"
    BY MailOf
  <2>3. PICK e \in MailForm : e = [kind |-> "_error"] /\ e.kind = "_error"
    BY MailOf
  <2>4. streams' \in Nat /\ r.method \in Chain
    BY <1>4, <1>6 DEF serverState, Chain
  <2>5. CASE Mailed(x)
    <3>1. x.kind = "_result" /\ x.txn = r.txn
      BY <2>1
    <3>2. QED
      BY <3>1, <1>5, <1>6, <2>4, <2>5
  <2>6. CASE Mailed(e)
    <3>1. ~AnswerTo(r, e)
      BY <2>3 DEF AnswerTo
    <3>2. QED
      BY <3>1, <1>1, <1>2, <1>3, <1>6, <2>3, <2>4, <2>6, ChainAnswered
  <2>7. Mailed(x) \/ Mailed(e)
    <3>1. CASE Reply(<<x>>)
      BY <3>1, <1>1, MailsOne
    <3>2. CASE Reply(<<w, x>>)
      BY <3>2, <1>1, <2>2, MailsTwo
    <3>3. CASE Reply(<<e>>)
      BY <3>3, <1>1, MailsOne
    <3>4. QED
      BY <3>1, <3>2, <3>3, <1>6, <2>1, <2>2, <2>3
  <2>8. QED
    BY <2>5, <2>6, <2>7
<1>7. ASSUME r.method = "createStream", streams' = streams + 1,
             Reply(<<[kind |-> "_result", txn |-> r.txn, stream |-> streams + 1]>>)
      PROVE  SessionInv'
  <2>1. PICK x \in MailForm : x = [kind |-> "_result", txn |-> r.txn, stream |-> streams + 1]
    <3>1. streams + 1 \in Nat
      BY <1>4
    <3>2. QED
      BY <3>1, <1>4, MailOf
  <2>2. x.kind = "_result" /\ x.txn = r.txn /\ x.stream > 0 /\ streams' \in Nat
    BY <1>4, <1>7, <2>1
  <2>3. Mailed(x)
    BY <1>1, <1>7, <2>1, MailsOne
  <2>4. r.method \in Chain /\ r.method \notin {"publish", "play"}
    BY <1>7 DEF Chain
  <2>5. QED
    BY <1>5, <2>2, <2>3, <2>4
<1>8. ASSUME r.method \in {"publish", "play"}, UNCHANGED streams,
             \/ /\ active' = r.stream
                /\ \/ Reply(<<[kind |-> "Start", of |-> r.method]>>)
                   \/ Reply(<<[kind |-> "_result", txn |-> r.txn, stream |-> 0]>>)
             \/ Reply(<<[kind |-> "Failed"]>>) /\ UNCHANGED active
      PROVE  SessionInv'
  <2>1. PICK x \in MailForm : x = [kind |-> "_result", txn |-> r.txn, stream |-> 0]
    BY <1>4, MailOf
  <2>2. PICK s \in MailForm : s = [kind |-> "Start", of |-> r.method]
    BY <1>8, MailOf
  <2>3. PICK f \in MailForm : f = [kind |-> "Failed"]
    BY MailOf
  <2>4. streams' \in Nat /\ r.method \in Chain
    BY <1>4, <1>8 DEF Chain
  <2>5. CASE active' = r.stream /\ Mailed(x)
    <3>1. x.kind = "_result" /\ x.txn = r.txn /\ r.method # "createStream"
      BY <1>8, <2>1
    <3>2. QED
      BY <3>1, <1>5, <2>4, <2>5
  <2>6. CASE active' = r.stream /\ Mailed(s)
    <3>1. s.kind = "Start" /\ s.of = r.method
      BY <2>2
    <3>2. QED
      BY <3>1, <1>5, <1>8, <2>4, <2>6
  <2>7. CASE Mailed(f)
    <3>1. f.kind = "Failed"
      BY <2>3
    <3>2. QED
      BY <3>1, <1>5, <1>8, <2>4, <2>7
  <2>8. \/ active' = r.stream /\ (Mailed(x) \/ Mailed(s))
        \/ Mailed(f)
    <3>1. Reply(<<x>>) => Mailed(x)
      BY <1>1, MailsOne
    <3>2. Reply(<<s>>) => Mailed(s)
      BY <1>1, MailsOne
    <3>3. Reply(<<f>>) => Mailed(f)
      BY <1>1, MailsOne
    <3>4. QED
      BY <3>1, <3>2, <3>3, <1>8, <2>1, <2>2, <2>3
  <2>9. QED
    BY <2>5, <2>6, <2>7, <2>8
<1>9. ASSUME r.method \in {"releaseStream", "FCPublish"}, UNCHANGED serverState,
             Reply(<<[kind |-> "_result", txn |-> r.txn, stream |-> 0]>>)
      PROVE  SessionInv'
  <2>1. PICK x \in MailForm : x = [kind |-> "_result", txn |-> r.txn, stream |-> 0]
    BY <1>4, MailOf
  <2>2. Mailed(x) /\ x.kind = "_result" /\ x.txn = r.txn
    BY <1>1, <1>9, <2>1, MailsOne
  <2>3. r.method \notin Chain \cup {"deleteStream"} /\ r.method # "FCSubscribe"
    BY <1>9 DEF Chain
  <2>4. QED
    BY <1>1, <1>2, <1>3, <1>9, <2>2, <2>3, OtherAnswered
<1>10. ASSUME r.method \in {"FCSubscribe", "_checkbw"}, UNCHANGED serverState,
             Reply(<<[kind |-> IF r.method = "_checkbw" THEN "_onbwcheck" ELSE "onFCSubscribe"]>>)
      PROVE  SessionInv'
  <2>1. PICK k \in {"_onbwcheck", "onFCSubscribe"} :
             k = IF r.method = "_checkbw" THEN "_onbwcheck" ELSE "onFCSubscribe"
    OBVIOUS
  <2>2. PICK x \in MailForm : x = [kind |-> k]
    BY <2>1, MailOf
  <2>3. Mailed(x) /\ x.kind \in {"_onbwcheck", "onFCSubscribe"}
    BY <1>1, <1>10, <2>1, <2>2, MailsOne
  <2>4. r.method \notin Chain \cup {"deleteStream"}
    BY <1>10 DEF Chain
  <2>5. QED
    BY <1>1, <1>2, <1>3, <1>10, <2>3, <2>4, OtherAnswered
<1>11. ASSUME r.method = "deleteStream", UNCHANGED <<streams, toClient>>
       PROVE  SessionInv'
  <2>1. UNCHANGED <<numInvokes, methodCalls, streamId, playing, connected, inConnectStream>>
    BY <1>1 DEF rtmpState
  <2>2. Numbered'
    BY <1>1, <1>2, <1>11, <2>1, NextNumbered DEF FromServer
  <2>3. SessionForm'
    BY <1>1, <1>2, <1>11, <2>1, FormNow DEF SessionForm, NextTaken
  <2>4. ~playing
    BY <1>1, <1>2, <1>3, <1>11 DEF SessionInv, Plays, NextTaken
  <2>5. PICK call \in CallForm : Waits(call) /\ inConnectStream
    BY <1>1, <2>4 DEF SessionInv
  <2>6. toServer[1] # call
    BY <1>3, <1>11, <2>5 DEF Waits, Chain
  <2>7. Waits(call)'
    BY <1>1, <1>2, <1>3, <1>11, <2>1, <2>5, <2>6, OtherTaken
  <2>8. QED
    BY <1>1, <2>1, <2>2, <2>3, <2>4, <2>5, <2>7, InvWaiting
<1>12. QED
  BY <1>3, <1>6, <1>7, <1>8, <1>9, <1>10, <1>11 DEF ServerAnswers

(* The server stops the stream in use, and says so.                        *)
LEMMA StopsKeep == SessionInv /\ ServerStops => SessionInv'
<1> SUFFICES ASSUME SessionInv, ServerStops PROVE SessionInv'
  OBVIOUS
<1>1. /\ SessionForm /\ Numbered /\ connected /\ streams' = streams
      /\ UNCHANGED <<numInvokes, methodCalls, streamId, playing, connected, inConnectStream, toServer>>
  BY DEF SessionInv, ServerStops, rtmpState
<1>2. PICK k \in {"Stop", "close"} : Reply(<<[kind |-> k]>>)
  BY DEF ServerStops
<1>3. PICK x \in MailForm : x = [kind |-> k] /\ x.kind \in {"Stop", "close"}
  BY MailOf
<1>4. Mailed(x)
  BY <1>1, <1>2, <1>3, MailsOne
<1>5. PICK p \in DOMAIN toClient' :
       /\ p \notin DOMAIN toClient /\ toClient'[p] = x
       /\ \A i \in DOMAIN toClient' : i # p => i \in DOMAIN toClient \/ toClient'[i].kind = "onBWDone"
  BY <1>4 DEF Mailed
<1>6. \A i \in DOMAIN toClient : i \in DOMAIN toClient' /\ toClient'[i] = toClient[i]
  BY <1>4 DEF Mailed
<1>7. \A i \in DOMAIN toClient' :
        \/ i \in DOMAIN toClient /\ toClient'[i] = toClient[i]
        \/ toClient'[i].kind \in {"Stop", "close", "onBWDone"}
  BY <1>3, <1>5, <1>6
<1>8. StopComes'
  BY <1>3, <1>5 DEF StopComes
<1>9. Numbered'
  BY <1>1, <1>7 DEF Numbered
<1>10. SessionForm'
  BY <1>1, <1>4, FormNow DEF SessionForm, Mailed
<1>11. CASE playing
  <2>1. Plays /\ ~inConnectStream
    BY <1>1, <1>11 DEF SessionInv
  <2>2. Plays'
    BY <2>1, <1>1, <1>7, <1>8 DEF Plays
  <2>3. QED
    BY <2>1, <2>2, <1>1, <1>9, <1>10, <1>11, InvPlaying
<1>12. CASE ~playing
  <2>1. PICK call \in CallForm : Waits(call) /\ inConnectStream
    BY <1>1, <1>12 DEF SessionInv
  <2>2. \A i \in DOMAIN toClient' :
          AnswerTo(call, toClient'[i]) => i \in DOMAIN toClient /\ toClient'[i] = toClient[i]
    BY <1>7 DEF AnswerTo
  <2>3. AtServer(call) => AtServer(call)'
    BY <1>1, <2>2 DEF AtServer
  <2>4. Refused(call) => Refused(call)'
    BY <1>1, <2>2 DEF Refused
  <2>5. ASSUME Answered(call) PROVE Answered(call)'
    <3>1. PICK i \in DOMAIN toClient :
         /\ AnswerTo(call, toClient[i]) /\ AnswerFits(call, toClient[i])
         /\ \A j \in DOMAIN toClient : AnswerTo(call, toClient[j]) => j = i
      BY <2>5 DEF Answered
    <3>2. PICK m : m = toClient[i] /\ m = toClient'[i]
      BY <1>6
    <3>3. AnswerFits(call, m)'
      BY <3>1, <3>2, <1>8 DEF AnswerFits
    <3>4. \A j \in DOMAIN toClient' : AnswerTo(call, toClient'[j]) => j = i
      BY <3>1, <2>2
    <3>5. \A q \in DOMAIN toServer' : toServer'[q] # call
      BY <2>5, <1>1 DEF Answered
    <3>6. i \in DOMAIN toClient' /\ AnswerTo(call, toClient'[i])
      BY <3>1, <1>6
    <3>7. QED
      BY <3>2, <3>3, <3>4, <3>5, <3>6 DEF Answered, AnswerFits
  <2>6. Waits(call)'
    BY <2>1, <2>3, <2>4, <2>5, <1>1 DEF Waits
  <2>7. QED
    BY <2>1, <2>6, <1>1, <1>9, <1>10, <1>12, InvWaiting
<1>13. QED
  BY <1>11, <1>12

(* The invariant at the beginning, and when nothing happens.               *)
LEMMA SessionStarts == RtmpInit => SessionInv
<1> SUFFICES ASSUME RtmpInit PROVE SessionInv
  OBVIOUS
<1>1. /\ numInvokes = 0 /\ streamId = 0 /\ streams = 0 /\ playing = FALSE /\ ~connected
      /\ toServer = <<>> /\ toClient = <<>> /\ methodCalls = <<>>
  BY DEF RtmpInit
<1>2. toServer \in Seq(CallForm) /\ methodCalls \in Seq(CallForm) /\ toClient \in Seq(MailForm)
  <2>1. <<>> \in Seq(CallForm) /\ <<>> \in Seq(MailForm)
    BY EmptySeq
  <2>2. QED
    BY <1>1, <2>1
<1>3. numInvokes \in Nat /\ streamId \in Int /\ streams \in Nat
  BY <1>1
<1>4. playing \in BOOLEAN
  BY <1>1, Zenon
<1>5. SessionForm
  BY <1>2, <1>3, <1>4 DEF SessionForm
<1>6. Numbered /\ Unconnected
  BY <1>1 DEF Numbered, Unconnected
<1>7. QED
  BY <1>1, <1>5, <1>6 DEF SessionInv

LEMMA SessionStays == SessionInv /\ UNCHANGED rtmpvars => SessionInv'
<1> SUFFICES ASSUME SessionInv, UNCHANGED rtmpvars PROVE SessionInv'
  OBVIOUS
<1>1. UNCHANGED <<numInvokes, methodCalls, streamId, playing, connected, inConnectStream,
                  toServer, toClient, streams, active>>
  BY DEF rtmpvars, rtmpState, serverState
<1>2. SessionForm' /\ Numbered' /\ (Unconnected => Unconnected')
  BY <1>1 DEF SessionInv, SessionForm, Numbered, Unconnected
<1>3. StopComes => StopComes'
  BY <1>1 DEF StopComes
<1>4. Plays => Plays'
  BY <1>1, <1>3 DEF Plays
<1>5. ASSUME NEW call \in CallForm, Waits(call) PROVE Waits(call)'
  <2>1. AtServer(call) => AtServer(call)'
    BY <1>1 DEF AtServer
  <2>2. Refused(call) => Refused(call)'
    BY <1>1 DEF Refused
  <2>3. Answered(call) => Answered(call)'
    BY <1>1, <1>3 DEF Answered, AnswerFits
  <2>4. QED
    BY <1>1, <1>5, <2>1, <2>2, <2>3 DEF Waits
<1>6. QED
  BY <1>1, <1>2, <1>4, <1>5 DEF SessionInv

(* What the invariant says of calls and streams.                           *)
LEMMA SessionShows == SessionInv => RtmpCallsSound
<1> SUFFICES ASSUME SessionInv PROVE RtmpCallsSound
  OBVIOUS
<1>1. PlaysItsStream
  BY DEF PlaysItsStream, SessionInv, Plays, StopComes
<1>2. CallsAwaited
  <2> SUFFICES ASSUME NEW i \in DOMAIN methodCalls,
                      methodCalls[i].method \notin {"connect", "FCSubscribe"}
               PROVE  Awaited(methodCalls[i])
    BY DEF CallsAwaited
  <2>1. connected /\ ~playing
    BY DEF SessionInv, Unconnected, Plays
  <2>2. PICK call \in CallForm : Waits(call)
    BY <2>1 DEF SessionInv
  <2>3. methodCalls[i] = call
    BY <2>2 DEF Waits
  <2>4. AtServer(call) \/ Answered(call)
    BY <2>2, <2>3 DEF Waits, Refused
  <2>5. CASE AtServer(call)
    BY <2>3, <2>5 DEF AtServer, Awaited
  <2>6. CASE Answered(call)
    BY <2>3, <2>6 DEF Answered, AnswerTo, AnswerFits, Awaited
  <2>7. QED
    BY <2>4, <2>5, <2>6
<1>3. QED
  BY <1>1, <1>2 DEF RtmpCallsSound

(* Every step of the session.                                              *)
LEMMA SessionKept == SessionInv /\ [RtmpNext]_rtmpvars => SessionInv'
<1>1. SessionInv /\ Disconnect => SessionInv'
  BY CloseKeeps DEF Disconnect
<1>2. QED
  BY <1>1, ConnectKeeps, HandleKeeps, ReconnectKeeps, ServerKeeps, StopsKeep, SessionStays DEF RtmpNext

(* The calls of librtmp and the stream it plays are sound in every run of  *)
(* RtmpSession, whatever the bounds.                                       *)
THEOREM CallsAlwaysSound == RtmpSpec => []RtmpCallsSound
<1>1. SessionInv /\ [RtmpNext]_rtmpvars => SessionInv'
  BY SessionKept
<1>2. RtmpInit => SessionInv
  BY SessionStarts
<1>3. SessionInv => RtmpCallsSound
  BY SessionShows
<1>4. QED
  BY <1>1, <1>2, <1>3, PTL DEF RtmpSpec

-----------------------------------------------------------------------------

(* The RTSP handshake: what the threads of the client do, what is on the   *)
(* wire, and what the answers count for.                                   *)
Steps == {"OPTIONS", "DESCRIBE", "SETUP", "PLAY"}
Doing == {"run", "select", "read", "listen", "check", "set", "put", "putting", "write", "mark",
           "idle", "shutdown", "over"}
Filling == {"put", "putting"}
Sending == {"put", "putting", "write", "mark"}
Buffer == Steps \cup {"empty", "mixed", "TEARDOWN"}
Piece == [ok : BOOLEAN, keys : SUBSET {"track", "session"}]

RtspForm ==
  /\ at \in [Thread -> Doing]
  /\ doing \in [Thread -> Steps \cup {"none", "TEARDOWN"}] /\ doing["app"] = "TEARDOWN"
  /\ sendBuf \in Buffer
  /\ server \in Seq(Buffer) /\ earned \in Seq(Nat) /\ Len(earned) = Len(server)
  /\ oks \in Nat /\ answered \in Nat /\ answered <= Len(server)
  /\ inbound \in Seq(Piece) /\ tail \in Seq(Piece)

(* An answer has one OK at most, so what is read counts as one answer.     *)
OkComes == \E i \in DOMAIN inbound : inbound[i].ok
OksAnswered ==
  /\ oks <= answered /\ (OkComes => oks < answered)
  /\ \A i \in DOMAIN tail : ~tail[i].ok

Name(k) == IF k = 0 THEN "INIT" ELSE Handshake[k]
Clean == \A j \in 1 .. Len(server) : server[j] \in Steps

(* The client has got to step k of the handshake, whatever the app's       *)
(* thread has put over it.                                                 *)
AtStep(k) ==
  /\ sysStatus = Name(k) \/ sysStatus = "TEARDOWN"
  /\ at["client"] \in {"check", "set"} => k < 4 /\ doing["client"] = Handshake[k + 1]
  /\ at["client"] \in Sending => k > 0 /\ doing["client"] = Handshake[k]
  /\ oks >= k - 1
  /\ at["client"] = "set" => oks >= k
  /\ at["client"] \notin Sending /\ ~isSended => oks >= k
CleanTo(k) ==
  Clean =>
    /\ Len(server) <= k
    /\ \A i \in 1 .. Len(server) : server[i] = Handshake[i]
    /\ at["client"] \in Filling => Len(server) = k - 1
    /\ sendBuf \in Steps =>
         sendBuf = Name(k) /\ Len(server) = k - 1 /\ at["client"] \notin Filling

(* The inductive invariant: there is one step that the client has got to,  *)
(* and what the server got is the handshake up to it.                      *)
RtspInv ==
  /\ RtspForm /\ OksAnswered /\ HandshakeInOrder
  /\ \E k \in 0 .. 4 : AtStep(k) /\ CleanTo(k)

-----------------------------------------------------------------------------
(* The steps, one after the other.                                         *)
LEMMA HandshakeIs ==
  /\ Len(Handshake) = 4 /\ DOMAIN Handshake = 1 .. 4
  /\ Handshake[1] = "OPTIONS" /\ Handshake[2] = "DESCRIBE"
  /\ Handshake[3] = "SETUP" /\ Handshake[4] = "PLAY"
  /\ Range(Handshake) = Steps
<1>1. /\ Len(Handshake) = 4 /\ DOMAIN Handshake = 1 .. 4
      /\ Handshake[1] = "OPTIONS" /\ Handshake[2] = "DESCRIBE"
      /\ Handshake[3] = "SETUP" /\ Handshake[4] = "PLAY"
  BY DEF Handshake
<1>2. \A i \in 1 .. 4 : i = 1 \/ i = 2 \/ i = 3 \/ i = 4
  OBVIOUS
<1>3. Range(Handshake) = {Handshake[i] : i \in 1 .. 4}
  BY <1>1 DEF Range
<1>4. {Handshake[i] : i \in 1 .. 4} = Steps
  BY <1>1, <1>2 DEF Steps
<1>5. QED
  BY <1>1, <1>3, <1>4

LEMMA NamesApart ==
  /\ \A k \in 1 .. 4 : Name(k) = Handshake[k] /\ Name(k) \in Steps
  /\ Name(0) = "INIT"
  /\ \A k \in 0 .. 3 : Following(Name(k)) = Handshake[k + 1]
  /\ Following(Name(4)) = "none" /\ Following("TEARDOWN") = "none"
  /\ \A k \in 0 .. 4 : Name(k) # "TEARDOWN"
<1>1. \A i \in 0 .. 4 : i = 0 \/ i = 1 \/ i = 2 \/ i = 3 \/ i = 4
  OBVIOUS
<1>2. /\ Name(0) = "INIT" /\ Name(1) = "OPTIONS" /\ Name(2) = "DESCRIBE"
      /\ Name(3) = "SETUP" /\ Name(4) = "PLAY"
  BY HandshakeIs DEF Name
<1>3. \A k \in 1 .. 4 : Name(k) = Handshake[k] /\ Name(k) \in Steps
  BY <1>1, <1>2, HandshakeIs DEF Steps
<1>4. /\ Following("INIT") = "OPTIONS" /\ Following("OPTIONS") = "DESCRIBE"
      /\ Following("DESCRIBE") = "SETUP" /\ Following("SETUP") = "PLAY"
      /\ Following("PLAY") = "none" /\ Following("TEARDOWN") = "none"
  BY DEF Following
<1>5. \A k \in 0 .. 3 : Following(Name(k)) = Handshake[k + 1]
  BY <1>1, <1>2, <1>4, HandshakeIs
<1>6. QED
  BY <1>1, <1>2, <1>3, <1>4, <1>5

(* A thread goes on, and the wire is as it was.                            *)
LEMMA Quiet ==
  ASSUME RtspForm, OksAnswered, HandshakeInOrder, NEW t \in Thread, NEW spot \in Doing,
         Go(t, spot),
         doing' \in [Thread -> Steps \cup {"none", "TEARDOWN"}], doing'["app"] = "TEARDOWN",
         sendBuf' \in Buffer,
         server' = server, earned' = earned, oks' = oks, answered' = answered,
         inbound' = inbound, tail' = tail
  PROVE  /\ RtspForm' /\ OksAnswered' /\ HandshakeInOrder' /\ Clean' = Clean
         /\ at'[t] = spot /\ \A u \in Thread : u # t => at'[u] = at[u]
<1>1. /\ at' \in [Thread -> Doing] /\ at'[t] = spot
      /\ \A u \in Thread : u # t => at'[u] = at[u]
  BY DEF RtspForm, Go
<1>2. RtspForm'
  BY <1>1 DEF RtspForm
<1>3. OksAnswered' /\ HandshakeInOrder' /\ Clean' = Clean
  BY DEF OksAnswered, OkComes, HandshakeInOrder, Clean
<1>4. QED
  BY <1>1, <1>2, <1>3

LEMMA Threads == "client" \in Thread /\ "app" \in Thread /\ \A t \in Thread : t = "client" \/ t = "app"
BY DEF Thread

(* CheckRequest: the next step is taken only from the one before.          *)
LEMMA CheckKeeps == ASSUME RtspInv, NEW t \in Thread, CheckRequest(t) PROVE RtspInv'
<1>0. /\ RtspForm /\ OksAnswered /\ HandshakeInOrder
      /\ doing \in [Thread -> Steps \cup {"none", "TEARDOWN"}] /\ doing["app"] = "TEARDOWN"
      /\ sendBuf \in Buffer
  BY DEF RtspInv, RtspForm
<1>1. PICK k \in 0 .. 4 : AtStep(k) /\ CleanTo(k)
  BY DEF RtspInv
<1>2. PICK spot \in Doing :
        /\ at[t] = "check" /\ Go(t, spot) /\ (spot = "set" => ~isSended)
        /\ spot \in {"set", "shutdown", "select"}
        /\ sysStatus' = sysStatus /\ (isSended' <=> isSended) /\ sendBuf' = sendBuf /\ doing' = doing
        /\ server' = server /\ earned' = earned /\ oks' = oks /\ answered' = answered
        /\ inbound' = inbound /\ tail' = tail
  <2> DEFINE spot == IF isConnected /\ ~isSended /\ Fits(doing[t]) THEN "set" ELSE Done(t)
  <2>1. spot \in {"set", "shutdown", "select"} /\ (spot = "set" => ~isSended)
    BY DEF Done
  <2>2. at[t] = "check" /\ Go(t, spot)
    BY DEF CheckRequest
  <2>3. /\ sysStatus' = sysStatus /\ (isSended' <=> isSended) /\ sendBuf' = sendBuf /\ doing' = doing
        /\ server' = server /\ earned' = earned /\ oks' = oks /\ answered' = answered
        /\ inbound' = inbound /\ tail' = tail
    BY DEF CheckRequest, status, camera, okhistory
  <2> HIDE DEF spot
  <2>4. spot \in Doing
    BY <2>1 DEF Doing
  <2>5. QED
    BY <2>1, <2>2, <2>3, <2>4
<1>3. /\ RtspForm' /\ OksAnswered' /\ HandshakeInOrder' /\ Clean' = Clean
      /\ at'[t] = spot /\ \A u \in Thread : u # t => at'[u] = at[u]
  BY <1>0, <1>2, Quiet
<1>4. \/ at'["client"] = at["client"]
      \/ at["client"] = "check" /\ at'["client"] \in {"set", "shutdown", "select"}
         /\ (at'["client"] = "set" => ~isSended)
  BY <1>2, <1>3, Threads
<1>5. AtStep(k)'
  BY <1>1, <1>2, <1>4 DEF AtStep, Sending
<1>6. CleanTo(k)'
  BY <1>1, <1>2, <1>3, <1>4 DEF CleanTo, Filling
<1>7. QED
  BY <1>3, <1>5, <1>6 DEF RtspInv

(* SetStatus, after the answer came.                                       *)
LEMMA SetKeeps == ASSUME RtspInv, NEW t \in Thread, SetStatus(t) PROVE RtspInv'
<1>0. /\ RtspForm /\ OksAnswered /\ HandshakeInOrder
      /\ doing \in [Thread -> Steps \cup {"none", "TEARDOWN"}] /\ doing["app"] = "TEARDOWN"
      /\ sendBuf \in Buffer /\ answered <= Len(server) /\ oks <= answered
      /\ answered \in Nat /\ oks \in Nat /\ Len(server) \in Nat
  BY DEF RtspInv, RtspForm, OksAnswered
<1>1. PICK k \in 0 .. 4 : AtStep(k) /\ CleanTo(k)
  BY DEF RtspInv
<1>2. /\ at[t] = "set" /\ Go(t, "put") /\ sysStatus' = doing[t]
      /\ (isSended' <=> isSended) /\ sendBuf' = sendBuf /\ doing' = doing
      /\ server' = server /\ earned' = earned /\ oks' = oks /\ answered' = answered
      /\ inbound' = inbound /\ tail' = tail
  BY DEF SetStatus, camera, okhistory
<1>3. /\ RtspForm' /\ OksAnswered' /\ HandshakeInOrder' /\ Clean' = Clean
      /\ at'[t] = "put" /\ \A u \in Thread : u # t => at'[u] = at[u]
  BY <1>0, <1>2, Quiet DEF Doing
<1>4. CASE t = "app"
  <2>1. at'["client"] = at["client"] /\ sysStatus' = "TEARDOWN"
    BY <1>0, <1>2, <1>3, <1>4, Threads
  <2>2. AtStep(k)' /\ CleanTo(k)'
    BY <1>1, <1>2, <1>3, <2>1 DEF AtStep, CleanTo
  <2>3. QED
    BY <1>3, <2>2 DEF RtspInv
<1>5. CASE t = "client"
  <2>1. k < 4 /\ doing["client"] = Handshake[k + 1] /\ oks >= k
    BY <1>1, <1>2, <1>5 DEF AtStep
  <2>2. PICK l \in 1 .. 4 : l = k + 1
    BY <2>1
  <2>3. sysStatus' = Name(l) /\ at'["client"] = "put"
    BY <1>2, <1>3, <1>5, <2>1, <2>2, NamesApart
  <2>4. AtStep(l)'
    BY <1>2, <2>1, <2>2, <2>3 DEF AtStep, Sending
  <2>5. CASE Clean
    <3>1. Len(server) = k
      BY <1>0, <1>1, <2>1, <2>5 DEF CleanTo
    <3>2. sendBuf \notin Steps
      BY <1>1, <2>5, <3>1 DEF CleanTo
    <3>3. \A i \in 1 .. Len(server) : server[i] = Handshake[i]
      BY <1>1, <2>5 DEF CleanTo
    <3>4. QED
      BY <1>2, <2>2, <2>3, <2>4, <3>1, <3>2, <3>3, <1>3 DEF CleanTo, RtspInv
  <2>6. CASE ~Clean
    BY <2>6, <1>3, <2>4 DEF CleanTo, RtspInv
  <2>7. QED
    BY <2>5, <2>6
<1>6. QED
  BY <1>4, <1>5, Threads

(* The request is written into the one buffer of both threads.             *)
LEMMA PutKeeps == ASSUME RtspInv, NEW t \in Thread, PutBegins(t) \/ PutEnds(t) PROVE RtspInv'
<1>0. /\ RtspForm /\ OksAnswered /\ HandshakeInOrder
      /\ doing \in [Thread -> Steps \cup {"none", "TEARDOWN"}] /\ doing["app"] = "TEARDOWN"
      /\ sendBuf \in Buffer
  BY DEF RtspInv, RtspForm
<1>1. PICK k \in 0 .. 4 : AtStep(k) /\ CleanTo(k)
  BY DEF RtspInv
<1>2. /\ sysStatus' = sysStatus /\ (isSended' <=> isSended) /\ doing' = doing
      /\ server' = server /\ earned' = earned /\ oks' = oks /\ answered' = answered
      /\ inbound' = inbound /\ tail' = tail
  BY DEF PutBegins, PutEnds, status, camera, okhistory
<1>3. CASE PutBegins(t)
  <2>1. at[t] = "put" /\ Go(t, "putting") /\ sendBuf' = "mixed"
    BY <1>3 DEF PutBegins
  <2>2. /\ RtspForm' /\ OksAnswered' /\ HandshakeInOrder' /\ Clean' = Clean
        /\ at'[t] = "putting" /\ \A u \in Thread : u # t => at'[u] = at[u]
    BY <1>0, <1>2, <2>1, Quiet DEF Doing, Buffer
  <2>3. at'["client"] = at["client"] \/ (at["client"] = "put" /\ at'["client"] = "putting")
    BY <2>1, <2>2, Threads
  <2>4. AtStep(k)'
    BY <1>1, <1>2, <2>3 DEF AtStep, Sending
  <2>5. CleanTo(k)'
    BY <1>1, <1>2, <2>1, <2>2, <2>3 DEF CleanTo, Filling, Steps
  <2>6. QED
    BY <2>2, <2>4, <2>5 DEF RtspInv
<1>4. CASE PutEnds(t)
  <2>1. at[t] = "putting" /\ Go(t, "write") /\ sendBuf' = doing[t]
    BY <1>4 DEF PutEnds
  <2>2. doing[t] \in Steps \cup {"TEARDOWN"}
    BY <1>0, <1>1, <2>1, NamesApart, Threads DEF AtStep, Sending
  <2>3. /\ RtspForm' /\ OksAnswered' /\ HandshakeInOrder' /\ Clean' = Clean
        /\ at'[t] = "write" /\ \A u \in Thread : u # t => at'[u] = at[u]
    BY <1>0, <1>2, <2>1, <2>2, Quiet DEF Doing, Buffer
  <2>4. at'["client"] = at["client"] \/ (at["client"] = "putting" /\ at'["client"] = "write")
    BY <2>1, <2>3, Threads
  <2>5. AtStep(k)'
    BY <1>1, <1>2, <2>4 DEF AtStep, Sending
  <2>6. CASE t = "app"
    <3>1. sendBuf' \notin Steps
      BY <1>0, <2>1, <2>6 DEF Steps
    <3>2. at'["client"] = at["client"]
      BY <2>3, <2>6, Threads
    <3>3. QED
      BY <1>1, <1>2, <2>3, <2>5, <3>1, <3>2 DEF CleanTo, RtspInv
  <2>7. CASE t = "client"
    <3>1. sendBuf' = Name(k) /\ at'["client"] = "write" /\ at["client"] = "putting"
      BY <1>1, <2>1, <2>3, <2>7, NamesApart DEF AtStep, Sending
    <3>2. CleanTo(k)'
      BY <1>1, <1>2, <2>3, <3>1 DEF CleanTo, Filling
    <3>3. QED
      BY <2>3, <2>5, <3>2 DEF RtspInv
  <2>8. QED
    BY <2>6, <2>7, Threads
<1>5. QED
  BY <1>3, <1>4

(* What the buffer holds goes out.                                         *)
LEMMA WriteKeeps == ASSUME RtspInv, NEW t \in Thread, Write(t) PROVE RtspInv'
<1>0. /\ RtspForm /\ OksAnswered /\ HandshakeInOrder
      /\ doing \in [Thread -> Steps \cup {"none", "TEARDOWN"}] /\ doing["app"] = "TEARDOWN"
      /\ sendBuf \in Buffer /\ server \in Seq(Buffer) /\ earned \in Seq(Nat)
      /\ Len(earned) = Len(server) /\ oks \in Nat /\ answered \in Nat /\ answered <= Len(server)
      /\ inbound \in Seq(Piece) /\ tail \in Seq(Piece)
  BY DEF RtspInv, RtspForm
<1>1. PICK k \in 0 .. 4 : AtStep(k) /\ CleanTo(k)
  BY DEF RtspInv
<1>2. /\ sysStatus' = sysStatus /\ (isSended' <=> isSended) /\ doing' = doing
      /\ oks' = oks /\ answered' = answered /\ inbound' = inbound /\ tail' = tail
      /\ at[t] = "write" /\ Go(t, "mark")
  BY DEF Write, status
<1>3. CASE server' = server /\ earned' = earned /\ sendBuf' = sendBuf
  <2>1. /\ RtspForm' /\ OksAnswered' /\ HandshakeInOrder' /\ Clean' = Clean
        /\ at'[t] = "mark" /\ \A u \in Thread : u # t => at'[u] = at[u]
    BY <1>0, <1>2, <1>3, Quiet DEF Doing
  <2>2. at'["client"] = at["client"] \/ (at["client"] = "write" /\ at'["client"] = "mark")
    BY <1>2, <2>1, Threads
  <2>3. AtStep(k)' /\ CleanTo(k)'
    BY <1>1, <1>2, <1>3, <2>1, <2>2 DEF AtStep, CleanTo, Sending, Filling
  <2>4. QED
    BY <2>1, <2>3 DEF RtspInv
<1>4. CASE /\ server' = Append(server, sendBuf) /\ earned' = Append(earned, oks)
           /\ sendBuf' = IF sendBuf = "mixed" THEN sendBuf ELSE "empty"
  <2>1. /\ at' \in [Thread -> Doing] /\ at'[t] = "mark"
        /\ \A u \in Thread : u # t => at'[u] = at[u]
    BY <1>2 DEF RtspInv, RtspForm, Go, Doing
  <2>2. PICK l \in Nat : l = Len(server)
    BY <1>0
  <2>3. /\ server' \in Seq(Buffer) /\ Len(server') = l + 1 /\ server'[l + 1] = sendBuf
        /\ \A i \in 1 .. l : server'[i] = server[i]
        /\ earned' \in Seq(Nat) /\ Len(earned') = l + 1 /\ earned'[l + 1] = oks
        /\ \A i \in 1 .. l : earned'[i] = earned[i]
    BY <1>0, <1>4, <2>2
  <2>4. sendBuf' \in {"mixed", "empty"} /\ sendBuf' \in Buffer /\ sendBuf' \notin Steps
    BY <1>4 DEF Buffer, Steps
  <2>5. RtspForm'
    BY <1>0, <1>2, <2>1, <2>2, <2>3, <2>4 DEF RtspForm
  <2>6. OksAnswered'
    BY <1>0, <1>2 DEF OksAnswered, OkComes
  <2>7. at'["client"] = at["client"] \/ (at["client"] = "write" /\ at'["client"] = "mark")
    BY <1>2, <2>1, Threads
  <2>8. AtStep(k)'
    BY <1>1, <1>2, <2>7 DEF AtStep, Sending
  <2>9. Clean' => /\ Clean /\ sendBuf = Name(k) /\ l = k - 1 /\ at["client"] \notin Filling
    <3> SUFFICES ASSUME Clean' PROVE /\ Clean /\ sendBuf = Name(k) /\ l = k - 1 /\ at["client"] \notin Filling
      OBVIOUS
    <3>1. \A j \in 1 .. l + 1 : server'[j] \in Steps
      BY <2>3 DEF Clean
    <3>2. sendBuf \in Steps
      BY <3>1, <2>3, <2>2
    <3>3. Clean
      BY <3>1, <2>2, <2>3 DEF Clean
    <3>4. QED
      BY <1>1, <2>2, <3>2, <3>3 DEF CleanTo
  <2>10. \A i \in 1 .. l : Clean => server[i] = Handshake[i]
    BY <1>1, <2>2 DEF CleanTo
  <2>11. CleanTo(k)'
    <3> SUFFICES ASSUME Clean' PROVE CleanTo(k)'
      BY DEF CleanTo
    <3>1. Clean /\ sendBuf = Name(k) /\ l = k - 1 /\ at["client"] \notin Filling
      BY <2>9
    <3>2. k \in 1 .. 4 /\ sendBuf = Handshake[k]
      BY <3>1, <2>2, NamesApart
    <3>3. \A i \in 1 .. l + 1 : server'[i] = Handshake[i]
      BY <3>1, <3>2, <2>2, <2>3, <2>10
    <3>4. at'["client"] \notin Filling
      BY <3>1, <2>7 DEF Filling
    <3>5. QED
      BY <3>1, <3>2, <3>3, <3>4, <2>2, <2>3, <2>4 DEF CleanTo
  <2>12. HandshakeInOrder'
    <3> SUFFICES ASSUME NEW i \in 1 .. l + 1,
                        \A j \in 1 .. i : server'[j] \in Range(Handshake)
                 PROVE  i <= 4 /\ server'[i] = Handshake[i] /\ earned'[i] >= i - 1
      BY <2>2, <2>3, HandshakeIs DEF HandshakeInOrder
    <3>1. CASE i = l + 1
      <4>1. Clean'
        BY <3>1, <2>3, HandshakeIs DEF Clean
      <4>2. i = k /\ k \in 1 .. 4 /\ sendBuf = Handshake[k]
        BY <3>1, <4>1, <2>9, <2>2, NamesApart
      <4>3. oks >= k - 1
        BY <1>1 DEF AtStep
      <4>4. QED
        BY <3>1, <4>2, <4>3, <2>3
    <3>2. CASE i # l + 1
      <4>1. i \in 1 .. l
        BY <3>2, <2>2
      <4>2. \A j \in 1 .. i : server[j] \in Range(Handshake)
        BY <4>1, <2>2, <2>3
      <4>3. i <= 4 /\ server[i] = Handshake[i] /\ earned[i] >= i - 1
        <5>1. i \in DOMAIN server
          BY <1>0, <4>1, <2>2
        <5>2. QED
          BY <1>0, <4>2, <5>1, HandshakeIs DEF HandshakeInOrder
      <4>4. QED
        BY <4>1, <4>3, <2>3
    <3>3. QED
      BY <3>1, <3>2
  <2>13. QED
    BY <2>5, <2>6, <2>8, <2>11, <2>12 DEF RtspInv
<1>5. QED
  BY <1>3, <1>4 DEF Write

(* The request is marked as sent.                                          *)
LEMMA MarkKeeps == ASSUME RtspInv, NEW t \in Thread, MarkSent(t) PROVE RtspInv'
<1>0. /\ RtspForm /\ OksAnswered /\ HandshakeInOrder
      /\ doing \in [Thread -> Steps \cup {"none", "TEARDOWN"}] /\ doing["app"] = "TEARDOWN"
      /\ sendBuf \in Buffer
  BY DEF RtspInv, RtspForm
<1>1. PICK k \in 0 .. 4 : AtStep(k) /\ CleanTo(k)
  BY DEF RtspInv
<1>2. PICK spot \in Doing :
        /\ at[t] = "mark" /\ Go(t, spot) /\ spot \in {"shutdown", "select"} /\ isSended'
        /\ sysStatus' = sysStatus /\ sendBuf' = sendBuf /\ doing' = doing
        /\ server' = server /\ earned' = earned /\ oks' = oks /\ answered' = answered
        /\ inbound' = inbound /\ tail' = tail
  BY DEF MarkSent, Done, camera, okhistory, Doing
<1>3. /\ RtspForm' /\ OksAnswered' /\ HandshakeInOrder' /\ Clean' = Clean
      /\ at'[t] = spot /\ \A u \in Thread : u # t => at'[u] = at[u]
  BY <1>0, <1>2, Quiet
<1>4. \/ at'["client"] = at["client"]
      \/ at["client"] = "mark" /\ at'["client"] \in {"shutdown", "select"}
  BY <1>2, <1>3, Threads
<1>5. AtStep(k)'
  BY <1>1, <1>2, <1>4 DEF AtStep, Sending
<1>6. CleanTo(k)'
  BY <1>1, <1>2, <1>3, <1>4 DEF CleanTo, Filling
<1>7. QED
  BY <1>3, <1>5, <1>6 DEF RtspInv

(* The client's thread listens: what it is to ask for next.                *)
LEMMA ListenKeeps ==
  ASSUME RtspInv, Listen, at["client"] \in {"run", "read", "listen"},
         UNCHANGED <<status, sendBuf, camera, okhistory>>
  PROVE  RtspInv'
<1>0. /\ RtspForm /\ OksAnswered /\ HandshakeInOrder
      /\ doing \in [Thread -> Steps \cup {"none", "TEARDOWN"}] /\ doing["app"] = "TEARDOWN"
      /\ sendBuf \in Buffer
  BY DEF RtspInv, RtspForm
<1>1. PICK k \in 0 .. 4 : AtStep(k) /\ CleanTo(k)
  BY DEF RtspInv
<1>2. /\ sysStatus' = sysStatus /\ (isSended' <=> isSended) /\ sendBuf' = sendBuf
      /\ server' = server /\ earned' = earned /\ oks' = oks /\ answered' = answered
      /\ inbound' = inbound /\ tail' = tail
  BY DEF status, camera, okhistory
<1>3. PICK next : next = Following(sysStatus)
  OBVIOUS
<1>4. next \in Steps \cup {"none"} /\ (next # "none" => k < 4 /\ next = Handshake[k + 1])
  <2>1. CASE sysStatus = "TEARDOWN"
    BY <2>1, <1>3, NamesApart
  <2>2. CASE sysStatus = Name(k) /\ k = 4
    BY <2>2, <1>3, NamesApart
  <2>3. CASE sysStatus = Name(k) /\ k # 4
    <3>1. k \in 0 .. 3 /\ k + 1 \in 1 .. 4
      BY <2>3
    <3>2. QED
      BY <3>1, <2>3, <1>3, NamesApart
  <2>4. QED
    BY <1>1, <2>1, <2>2, <2>3 DEF AtStep
<1>5. /\ doing' \in [Thread -> Steps \cup {"none", "TEARDOWN"}] /\ doing'["app"] = "TEARDOWN"
      /\ doing'["client"] = next
  BY <1>0, <1>3, <1>4, Threads DEF Listen
<1>6. PICK spot \in {"select", "check"} :
        Go("client", spot) /\ (spot = "check" => next # "none")
  <2> DEFINE spot == IF doing'["client"] = "none" THEN "select" ELSE "check"
  <2>1. Go("client", spot)
    BY DEF Listen
  <2>2. spot \in {"select", "check"} /\ (spot = "check" => next # "none")
    BY <1>5
  <2> HIDE DEF spot
  <2>3. QED
    BY <2>1, <2>2
<1>7. /\ RtspForm' /\ OksAnswered' /\ HandshakeInOrder' /\ Clean' = Clean
      /\ at'["client"] = spot
  BY <1>0, <1>2, <1>5, <1>6, Threads, Quiet DEF Doing
<1>8. AtStep(k)'
  BY <1>1, <1>2, <1>4, <1>5, <1>6, <1>7 DEF AtStep, Sending
<1>9. CleanTo(k)'
  BY <1>1, <1>2, <1>6, <1>7 DEF CleanTo, Filling
<1>10. QED
  BY <1>7, <1>8, <1>9 DEF RtspInv

(* A thread goes on and sends nothing.                                     *)
LEMMA GoesOn ==
  ASSUME RtspInv, NEW t \in Thread, NEW spot \in Doing, Go(t, spot),
         t = "client" => /\ at["client"] \in {"run", "select", "read"}
                         /\ spot \in {"run", "select", "read"},
         doing' = doing, UNCHANGED <<status, sendBuf, camera, okhistory>>
  PROVE  RtspInv'
<1>0. /\ RtspForm /\ OksAnswered /\ HandshakeInOrder
      /\ doing \in [Thread -> Steps \cup {"none", "TEARDOWN"}] /\ doing["app"] = "TEARDOWN"
      /\ sendBuf \in Buffer
  BY DEF RtspInv, RtspForm
<1>1. PICK k \in 0 .. 4 : AtStep(k) /\ CleanTo(k)
  BY DEF RtspInv
<1>2. /\ sysStatus' = sysStatus /\ (isSended' <=> isSended) /\ sendBuf' = sendBuf /\ doing' = doing
      /\ server' = server /\ earned' = earned /\ oks' = oks /\ answered' = answered
      /\ inbound' = inbound /\ tail' = tail
  BY DEF status, camera, okhistory
<1>3. /\ RtspForm' /\ OksAnswered' /\ HandshakeInOrder' /\ Clean' = Clean
      /\ at'[t] = spot /\ \A u \in Thread : u # t => at'[u] = at[u]
  BY <1>0, <1>2, Quiet
<1>4. \/ at'["client"] = at["client"]
      \/ at["client"] \in {"run", "select", "read"} /\ at'["client"] \in {"run", "select", "read"}
  BY <1>3, Threads
<1>5. AtStep(k)'
  BY <1>1, <1>2, <1>4 DEF AtStep, Sending
<1>6. CleanTo(k)'
  BY <1>1, <1>2, <1>3, <1>4 DEF CleanTo, Filling
<1>7. QED
  BY <1>3, <1>5, <1>6 DEF RtspInv

(* What the loop of the client does between reads and writes.              *)
LEMMA RoundKeeps ==
  ASSUME RtspInv, run \/ select \/ ReadFails \/ ReadsNothing \/ callListener \/ finiRtsp \/ shutdown
  PROVE  RtspInv'
<1>1. CASE run
  <2>1. CASE sysStatus = "INIT"
    BY <1>1, <2>1, ListenKeeps DEF run
  <2>2. CASE sysStatus # "INIT"
    BY <1>1, <2>2, GoesOn, Threads DEF run, Doing
  <2>3. QED
    BY <2>1, <2>2
<1>2. CASE select
  <2>1. PICK spot \in {"run", "read"} : Go("client", spot)
    BY <1>2 DEF select
  <2>2. at["client"] = "select" /\ doing' = doing /\ UNCHANGED <<status, sendBuf, camera, okhistory>>
    BY <1>2 DEF select
  <2>3. QED
    BY <2>1, <2>2, GoesOn, Threads DEF Doing
<1>3. CASE ReadFails
  BY <1>3, ListenKeeps DEF ReadFails
<1>4. CASE ReadsNothing
  BY <1>4, GoesOn, Threads DEF ReadsNothing, Doing
<1>5. CASE callListener
  BY <1>5, ListenKeeps DEF callListener
<1>6. CASE finiRtsp
  BY <1>6, GoesOn, Threads DEF finiRtsp, Doing
<1>7. CASE shutdown
  BY <1>7, GoesOn, Threads DEF shutdown, Doing
<1>8. QED
  BY <1>1, <1>2, <1>3, <1>4, <1>5, <1>6, <1>7

(* A piece of an answer is read, with its OK or without.                   *)
LEMMA ReadKeeps == ASSUME RtspInv, read PROVE RtspInv'
<1>0. /\ RtspForm /\ OksAnswered /\ HandshakeInOrder
      /\ server \in Seq(Buffer) /\ oks \in Nat /\ answered \in Nat /\ answered <= Len(server)
      /\ inbound \in Seq(Piece)
  BY DEF RtspInv, RtspForm
<1>1. PICK k \in 0 .. 4 : AtStep(k) /\ CleanTo(k)
  BY DEF RtspInv
<1>2. /\ sysStatus' = sysStatus /\ sendBuf' = sendBuf /\ doing' = doing
      /\ server' = server /\ earned' = earned /\ answered' = answered /\ tail' = tail
      /\ at["client"] = "read" /\ inbound # <<>> /\ inbound' = <<>>
  BY DEF read
<1>3. /\ inbound[1].ok => oks' = oks + 1
      /\ ~inbound[1].ok => oks' = oks /\ (isSended' <=> isSended)
  BY DEF read, handle
<1>4. PICK spot \in {"run", "listen"} : Go("client", spot)
  <2>1. CASE inbound[1].ok
    BY <2>1 DEF read, handle, AnsweredBy
  <2>2. CASE ~inbound[1].ok
    BY <2>2 DEF read, handle
  <2>3. QED
    BY <2>1, <2>2
<1>5. oks' \in Nat /\ oks' >= oks /\ oks' <= answered
  <2>1. CASE inbound[1].ok
    <3>1. 1 \in DOMAIN inbound
      BY <1>0, <1>2
    <3>2. OkComes
      BY <2>1, <3>1 DEF OkComes
    <3>3. QED
      BY <2>1, <3>2, <1>0, <1>3 DEF OksAnswered
  <2>2. CASE ~inbound[1].ok
    BY <2>2, <1>0, <1>3 DEF OksAnswered
  <2>3. QED
    BY <2>1, <2>2
<1>6. /\ at' \in [Thread -> Doing] /\ at'["client"] = spot
  BY <1>0, <1>4, Threads DEF RtspForm, Go, Doing
<1>7. RtspForm'
  BY <1>0, <1>2, <1>5, <1>6 DEF RtspForm
<1>8. ~OkComes'
  BY <1>2 DEF OkComes
<1>9. OksAnswered'
  BY <1>0, <1>2, <1>5, <1>8 DEF OksAnswered
<1>10. HandshakeInOrder' /\ Clean' = Clean
  BY <1>0, <1>2 DEF HandshakeInOrder, Clean
<1>11. oks' >= k - 1 /\ (~isSended' => oks' >= k)
  <2>1. CASE inbound[1].ok
    BY <2>1, <1>0, <1>1, <1>3 DEF AtStep
  <2>2. CASE ~inbound[1].ok
    BY <2>2, <1>0, <1>1, <1>2, <1>3 DEF AtStep, Sending
  <2>3. QED
    BY <2>1, <2>2
<1>12. AtStep(k)'
  BY <1>1, <1>2, <1>6, <1>11 DEF AtStep, Sending
<1>13. CleanTo(k)'
  BY <1>1, <1>2, <1>6, <1>10 DEF CleanTo, Filling
<1>14. QED
  BY <1>7, <1>9, <1>10, <1>12, <1>13 DEF RtspInv

(* The camera answers a request, in one piece or two.                      *)
LEMMA CameraKeeps ==
  ASSUME RtspInv, CameraAnswers \/ SecondPieceComes \/ CameraCloses PROVE RtspInv'
<1>0. /\ RtspForm /\ OksAnswered /\ HandshakeInOrder
      /\ server \in Seq(Buffer) /\ oks \in Nat /\ answered \in Nat /\ answered <= Len(server)
      /\ inbound \in Seq(Piece) /\ tail \in Seq(Piece)
  BY DEF RtspInv, RtspForm
<1>1. PICK k \in 0 .. 4 : AtStep(k) /\ CleanTo(k)
  BY DEF RtspInv
<1>2. /\ sysStatus' = sysStatus /\ (isSended' <=> isSended) /\ sendBuf' = sendBuf
      /\ at' = at /\ doing' = doing /\ server' = server /\ earned' = earned /\ oks' = oks
  BY DEF CameraAnswers, SecondPieceComes, CameraCloses, status, okhistory
<1>3. /\ inbound' \in Seq(Piece) /\ tail' \in Seq(Piece) /\ answered' \in Nat
      /\ answered' <= Len(server) /\ OksAnswered'
  <2>1. CASE CameraAnswers
    <3>0. PICK keys : keys = Tells(server[answered'])
      OBVIOUS
    <3>1. PICK first \in {[ok |-> TRUE, keys |-> keys], [ok |-> TRUE, keys |-> {}],
                           [ok |-> FALSE, keys |-> {}]} :
            /\ inbound' = Append(inbound, first)
            /\ tail' = IF first = [ok |-> TRUE, keys |-> keys] \/ ~first.ok THEN <<>>
                       ELSE <<[ok |-> FALSE, keys |-> keys]>>
      BY <2>1, <3>0 DEF CameraAnswers
    <3>2. answered < Len(server) /\ tail = <<>> /\ answered' = answered + 1
      BY <2>1 DEF CameraAnswers
    <3>3. keys \in SUBSET {"track", "session"}
      BY <3>0 DEF Tells
    <3>4. first \in Piece /\ [ok |-> FALSE, keys |-> keys] \in Piece
      <4>1. \A b \in BOOLEAN, names \in SUBSET {"track", "session"} : [ok |-> b, keys |-> names] \in Piece
        BY DEF Piece
      <4>2. QED
        BY <3>1, <3>3, <4>1
    <3>5. inbound' \in Seq(Piece)
      BY <3>1, <3>4, <1>0
    <3>6. tail' = <<>> \/ tail' = <<[ok |-> FALSE, keys |-> keys]>>
      BY <3>1
    <3>7. tail' \in Seq(Piece) /\ \A i \in DOMAIN tail' : ~tail'[i].ok
      <4>1. CASE tail' = <<>>
        BY <4>1
      <4>2. CASE tail' = <<[ok |-> FALSE, keys |-> keys]>>
        <5>1. PICK piece \in Piece : piece = [ok |-> FALSE, keys |-> keys] /\ ~piece.ok
          BY <3>4
        <5>2. tail' = <<piece>>
          BY <4>2, <5>1
        <5>3. QED
          BY <5>1, <5>2
      <4>3. QED
        BY <3>6, <4>1, <4>2
    <3>8. oks < answered'
      BY <1>0, <3>2 DEF OksAnswered
    <3>9. answered' \in Nat /\ answered' <= Len(server)
      BY <1>0, <3>2
    <3>10. oks' <= answered' /\ oks' < answered'
      BY <1>0, <1>2, <3>8, <3>9
    <3>11. QED
      BY <3>5, <3>7, <3>9, <3>10 DEF OksAnswered
  <2>2. CASE SecondPieceComes
    <3>1. inbound' = inbound \o tail /\ tail' = <<>> /\ answered' = answered
      BY <2>2 DEF SecondPieceComes
    <3>2. inbound' \in Seq(Piece) /\ tail' \in Seq(Piece)
      BY <1>0, <3>1
    <3>3. OkComes' => OkComes
      <4> SUFFICES ASSUME NEW i \in DOMAIN inbound', inbound'[i].ok PROVE OkComes
        BY DEF OkComes
      <4>1. i \in 1 .. Len(inbound) + Len(tail) /\ Len(inbound) \in Nat /\ Len(tail) \in Nat
        BY <1>0, <3>1
      <4>2. CASE i <= Len(inbound)
        <5>1. i \in DOMAIN inbound /\ inbound'[i] = inbound[i]
          BY <4>1, <4>2, <1>0, <3>1
        <5>2. QED
          BY <5>1 DEF OkComes
      <4>3. CASE i > Len(inbound)
        <5>1. i - Len(inbound) \in DOMAIN tail /\ inbound'[i] = tail[i - Len(inbound)]
          BY <4>1, <4>3, <1>0, <3>1
        <5>2. QED
          BY <5>1, <1>0 DEF OksAnswered
      <4>4. QED
        BY <4>1, <4>2, <4>3
    <3>4. OksAnswered'
      BY <1>0, <1>2, <3>1, <3>3 DEF OksAnswered
    <3>5. QED
      BY <1>0, <3>1, <3>2, <3>4
  <2>3. CASE CameraCloses
    BY <2>3, <1>0, <1>2 DEF CameraCloses, OksAnswered, OkComes
  <2>4. QED
    BY <2>1, <2>2, <2>3
<1>4. RtspForm'
  BY <1>0, <1>2, <1>3 DEF RtspForm
<1>5. HandshakeInOrder' /\ AtStep(k)' /\ CleanTo(k)'
  BY <1>0, <1>1, <1>2 DEF HandshakeInOrder, AtStep, CleanTo, Clean
<1>6. QED
  BY <1>3, <1>4, <1>5 DEF RtspInv

(* While no TEARDOWN is written over a request, the camera gets OPTIONS,   *)
(* DESCRIBE, SETUP and PLAY in this order, none twice, and each after the  *)
(* answer OK to the one before, however the two threads of RtspClient run. *)
THEOREM HandshakeAlwaysInOrder == RtspSpec => []HandshakeInOrder
<1>1. RtspInit => RtspInv
  <2> SUFFICES ASSUME RtspInit PROVE RtspInv
    OBVIOUS
  <2>1. /\ at = [client |-> "run", app |-> "idle"]
        /\ doing = [client |-> "none", app |-> "TEARDOWN"]
        /\ server = <<>> /\ answered = 0 /\ inbound = <<>> /\ tail = <<>>
        /\ sysStatus = "INIT" /\ sendBuf = "empty" /\ oks = 0 /\ earned = <<>>
    BY DEF RtspInit
  <2>2. at \in [Thread -> Doing] /\ at["client"] = "run"
    BY <2>1 DEF Thread, Doing
  <2>3. doing \in [Thread -> Steps \cup {"none", "TEARDOWN"}] /\ doing["app"] = "TEARDOWN"
    BY <2>1 DEF Thread
  <2>4. RtspForm
    BY <2>1, <2>2, <2>3 DEF RtspForm, Buffer
  <2>5. OksAnswered /\ HandshakeInOrder
    BY <2>1 DEF OksAnswered, OkComes, HandshakeInOrder
  <2>6. AtStep(0) /\ CleanTo(0)
    BY <2>1, <2>2, NamesApart DEF AtStep, CleanTo, Sending, Filling, Steps
  <2>7. QED
    BY <2>4, <2>5, <2>6 DEF RtspInv
<1>2. RtspInv /\ [RtspNext]_rtspvars => RtspInv'
  <2> SUFFICES ASSUME RtspInv, [RtspNext]_rtspvars PROVE RtspInv'
    OBVIOUS
  <2>1. CASE UNCHANGED rtspvars
    BY <2>1 DEF rtspvars, status, camera, okhistory, RtspInv, RtspForm, OksAnswered, OkComes,
         HandshakeInOrder, AtStep, CleanTo, Clean
  <2>2. CASE RtspNext
    BY <2>2, CheckKeeps, SetKeeps, PutKeeps, WriteKeeps, MarkKeeps, RoundKeeps, ReadKeeps, CameraKeeps
       DEF RtspNext, Request
  <2>3. QED
    BY <2>1, <2>2
<1>3. RtspInv => HandshakeInOrder
  BY DEF RtspInv
<1>4. QED
  BY <1>1, <1>2, <1>3, PTL DEF RtspSpec

-----------------------------------------------------------------------------
(* The two together, as the runs check them.                               *)

(* A stream is shown in full over any pauses, and the messages that are    *)
(* published are whole, for any number of frames, threads and pushes.      *)
THEOREM FramesAlwaysWhole == PauseSpec /\ PusherSpec => []FramesWhole
<1>1. FramesInFull /\ PusherSound => FramesWhole
  BY DEF FramesWhole
<1>2. QED
  BY <1>1, FramesAlwaysInFull, MessagesAlwaysWhole, PTL

(* The calls of an RTMP session and the requests of an RTSP client go out  *)
(* in order, for any number of calls and of sessions.                      *)
THEOREM CallsAlwaysInOrder == RtmpSpec /\ RtspSpec => []CallsInOrder
<1>1. RtmpCallsSound /\ HandshakeInOrder => CallsInOrder
  BY DEF CallsInOrder
<1>2. QED
  BY <1>1, CallsAlwaysSound, HandshakeAlwaysInOrder, PTL
=============================================================================
