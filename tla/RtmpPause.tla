------------------------------ MODULE RtmpPause ------------------------------
(***************************************************************************)
(* How librtmp makes a server send faster (rtmp.c): when the server says   *)
(* that a buffer's worth of media is out (BufferEmpty), or when nothing    *)
(* comes, it pauses the stream and at once resumes it, and leaves out the  *)
(* frames that the server sends a second time.  Frame n has timestamp n.   *)
(* The server is outside; after BufferEmpty it is idle until it is asked   *)
(* or goes on by itself.                                                   *)
(***************************************************************************)
EXTENDS Integers, Sequences

CONSTANTS
  BufferFrames,    \* frames of one buffer
  MaxFrame         \* bound: frames of the stream

ASSUME BufferAssumption == BufferFrames \in Nat \ {0, 1, 2}

VARIABLES
  pausing,         \* m_pausing
  mediaStamp, pauseStamp, channelStamp,
  toPlayer, fromPlayer,
  nextFrame, budget, idle, \* the server
  played,         \* history: frames handed to the application
  unasked          \* history: the server has begun a buffer by itself

pauseState == <<pausing, mediaStamp, pauseStamp, channelStamp>>
serverPart == <<nextFrame, budget, idle>>
pausevars == <<pauseState, toPlayer, fromPlayer, serverPart, played,
               unasked>>

PauseInit ==
  /\ pausing = 0 /\ mediaStamp = 0 /\ pauseStamp = 0 /\ channelStamp = 0
  /\ toPlayer = <<>> /\ fromPlayer = <<>>
  /\ nextFrame = 1 /\ budget = BufferFrames /\ idle = FALSE
  /\ played = <<>> /\ unasked = FALSE

Arrived(kind) == toPlayer # <<>> /\ Head(toPlayer).kind = kind
SendPause(pause, stamp) ==
  fromPlayer' = Append(fromPlayer, [pause |-> pause, stamp |-> stamp])

SkippedButOne(n) == pausing = 3 /\ n < mediaStamp

(* While the server resumes it may send again what was played already.     *)
Skipped(n) == pausing = 3 /\ n <= mediaStamp

(* A frame, in RTMP_ClientPacket and then in RTMP_GetNextMediaPacket.      *)
NextMediaPacket ==
  LET n == Head(toPlayer).frame IN
  /\ Arrived("frame")
  /\ channelStamp' = n
  /\ mediaStamp' = IF pausing = 0 THEN n ELSE mediaStamp
  /\ pausing' = IF pausing = 3 /\ ~Skipped(n) THEN 0 ELSE pausing
  /\ played' = IF Skipped(n) THEN played ELSE Append(played, n)
  /\ toPlayer' = Tail(toPlayer)
  /\ UNCHANGED <<pauseStamp, fromPlayer, serverPart, unasked>>

BufferEmpty ==
  /\ Arrived("empty")
  /\ \/ /\ pausing = 0
        /\ pauseStamp' = channelStamp
        /\ SendPause(TRUE, channelStamp)
        /\ pausing' = 1
     \/ /\ pausing = 2
        /\ SendPause(FALSE, pauseStamp)
        /\ pausing' = 3
        /\ UNCHANGED pauseStamp
     \/ /\ pausing \in {1, 3}
        /\ UNCHANGED <<pausing, pauseStamp, fromPlayer>>
  /\ toPlayer' = Tail(toPlayer)
  /\ UNCHANGED <<mediaStamp, channelStamp, serverPart, played,
                 unasked>>

StreamEOF ==
  /\ Arrived("eof")
  /\ pausing' = IF pausing = 1 THEN 2 ELSE pausing
  /\ toPlayer' = Tail(toPlayer)
  /\ UNCHANGED <<mediaStamp, pauseStamp, channelStamp, fromPlayer, serverPart,
                 played, unasked>>

PauseNotify ==
  /\ Arrived("paused")
  /\ IF pausing \in {1, 2}
       THEN SendPause(FALSE, pauseStamp) /\ pausing' = 3
       ELSE UNCHANGED <<pausing, fromPlayer>>
  /\ toPlayer' = Tail(toPlayer)
  /\ UNCHANGED <<mediaStamp, pauseStamp, channelStamp, serverPart, played,
                 unasked>>

(* A read that times out leaves RTMP_GetNextMediaPacket with the time of   *)
(* the last frame, and the application calls RTMP_ToggleStream.            *)
ToggleStream ==
  /\ toPlayer = <<>> /\ fromPlayer = <<>> /\ idle
  /\ LET stamp == IF pausing = 0 THEN channelStamp ELSE pauseStamp IN
       /\ pauseStamp' = stamp
       /\ fromPlayer' =
            (IF pausing = 0 THEN <<[pause |-> TRUE, stamp |-> stamp]>> ELSE <<>>)
              \o <<[pause |-> FALSE, stamp |-> stamp]>>
  /\ pausing' = 3
  /\ UNCHANGED <<mediaStamp, channelStamp, toPlayer, serverPart, played,
                 unasked>>

(* The server.                                                             *)
ServerSendsFrame ==
  /\ ~idle /\ nextFrame <= MaxFrame
  /\ toPlayer' = toPlayer \o <<[kind |-> "frame", frame |-> nextFrame]>>
                   \o IF budget = 1 THEN <<[kind |-> "empty"]>> ELSE <<>>
  /\ idle' = (budget = 1)
  /\ budget' = budget - 1
  /\ nextFrame' = nextFrame + 1
  /\ UNCHANGED <<pauseState, fromPlayer, played, unasked>>

ServerPauses ==
  /\ fromPlayer # <<>> /\ Head(fromPlayer).pause
  /\ idle' = TRUE
  /\ \E ends \in {<<>>, <<[kind |-> "eof"]>>} :
       toPlayer' = toPlayer \o ends \o <<[kind |-> "paused"]>>
  /\ fromPlayer' = Tail(fromPlayer)
  /\ UNCHANGED <<nextFrame, budget, pauseState, played, unasked>>

(* It goes back to the frame named and may send a whole buffer again.      *)
ServerResumes ==
  /\ fromPlayer # <<>> /\ ~Head(fromPlayer).pause
  /\ nextFrame' = IF Head(fromPlayer).stamp = 0 THEN 1
                  ELSE Head(fromPlayer).stamp
  /\ budget' = BufferFrames /\ idle' = FALSE
  /\ fromPlayer' = Tail(fromPlayer)
  /\ UNCHANGED <<toPlayer, pauseState, played, unasked>>

ServerGoesOn ==
  /\ idle /\ budget = 0
  /\ unasked' = TRUE
  /\ idle' = FALSE /\ budget' = BufferFrames
  /\ UNCHANGED <<nextFrame, toPlayer, fromPlayer, pauseState, played>>

PauseNext ==
  \/ NextMediaPacket \/ BufferEmpty \/ StreamEOF \/ PauseNotify \/ ToggleStream
  \/ ServerSendsFrame \/ ServerPauses \/ ServerResumes \/ ServerGoesOn

PauseSpec == PauseInit /\ [][PauseNext]_pausevars

PauseTypeOK ==
  /\ pausing \in 0 .. 3
  /\ {mediaStamp, pauseStamp, channelStamp} \subseteq 0 .. MaxFrame
  /\ budget \in 0 .. BufferFrames

(* However pauses, their answers and the frames overlap, no frame is left  *)
(* out; and as long as the server begins no buffer unasked, while a pause  *)
(* is on its way, none is seen twice: the frames it repeats are those that *)
(* RTMP_GetNextMediaPacket skips.  A resume has to bring two new frames:   *)
(* the time of the first is not kept in m_mediaStamp.                      *)
FramesInFull ==
  \A i \in DOMAIN played :
    /\ \A n \in 1 .. played[i] : \E j \in 1 .. i : played[j] = n
    /\ ~unasked => played[i] = i
=============================================================================
