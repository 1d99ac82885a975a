----------------------------- MODULE RtspClient -----------------------------
(***************************************************************************)
(* RTSPClient and the listener of IpCameraHelper: one thread selects,      *)
(* reads answers and, through the listener, sends the next request; the    *)
(* thread of the user interface ends it all (fini: TEARDOWN, then          *)
(* close). The fields are plain, so the two may step between each          *)
(* other's reads and writes. doPause, which nobody calls, and CSeq are     *)
(* left out. The camera is outside: it answers in order, with 200 OK or    *)
(* not, in one piece or two, and may close its side.                       *)
(***************************************************************************)
EXTENDS Naturals, Sequences, SequencesExt

VARIABLES
  sysStatus, isSended,
  sessionid, trackInfo, \* have they been read
  channel,              \* of socketChannel: pending, connected, closed
  selected,             \* the key of the channel is still registered
  errorTimes,
  sendBuf,              \* the request in it, or "empty", or "mixed"
  at, doing,            \* of each thread: its place, the request it is about
  server,               \* requests the camera got, in order
  answered,             \* how many it has answered
  inbound, tail,        \* pieces of answers, [ok, keys]: come, and under way
  ended,                \* the camera has closed
  oks, earned           \* history: OKs read; and read when each was written

status == <<sysStatus, isSended>>
info == <<sessionid, trackInfo>>
link == <<channel, selected, errorTimes>>
camera == <<server, answered, inbound, tail, ended>>
okhistory == <<oks, earned>>
rtspvars == <<status, info, link, sendBuf, at, doing, camera, okhistory>>

Handshake == <<"OPTIONS", "DESCRIBE", "SETUP", "PLAY">>
Thread == {"client", "app"}

RtspInit ==
  /\ sysStatus = "INIT" /\ isSended = FALSE
  /\ sessionid = FALSE /\ trackInfo = FALSE
  /\ channel = "pending" /\ selected = TRUE /\ errorTimes = 0
  /\ sendBuf = "empty"
  /\ at = [client |-> "run", app |-> "idle"]
  /\ doing = [client |-> "none", app |-> "TEARDOWN"]
  /\ server = <<>> /\ answered = 0 /\ inbound = <<>> /\ tail = <<>>
  /\ ended = FALSE
  /\ oks = 0 /\ earned = <<>>

isConnected == channel = "connected"
Go(t, place) == at' = [at EXCEPT ![t] = place]

-----------------------------------------------------------------------------
(* A request, on either thread.                                            *)

(* The status a request may be sent in; doOption and doDescribe ask        *)
(* none.                                                                   *)
Fits(req) ==
  CASE req = "SETUP" -> sysStatus = "DESCRIBE"
    [] req = "PLAY" -> sysStatus = "SETUP" /\ sessionid
    [] req = "TEARDOWN" -> sysStatus \notin {"INIT", "TEARDOWN"}
    [] OTHER -> TRUE

Done(t) == IF t = "app" THEN "shutdown" ELSE "select"

CheckRequest(t) ==
  /\ at[t] = "check"
  /\ Go(t, IF isConnected /\ ~isSended /\ Fits(doing[t]) THEN "set" ELSE Done(t))
  /\ UNCHANGED <<status, info, link, sendBuf, doing, camera, okhistory>>

SetStatus(t) ==
  /\ at[t] = "set" /\ Go(t, "put")
  /\ sysStatus' = doing[t]
  /\ UNCHANGED <<isSended, info, link, sendBuf, doing, camera, okhistory>>

(* send: the buffer is filled under its lock and written without it.       *)
PutBegins(t) ==
  /\ at[t] = "put" /\ \A u \in Thread : at[u] # "putting"
  /\ Go(t, "putting") /\ sendBuf' = "mixed"
  /\ UNCHANGED <<status, info, link, doing, camera, okhistory>>

PutEnds(t) ==
  /\ at[t] = "putting" /\ Go(t, "write") /\ sendBuf' = doing[t]
  /\ UNCHANGED <<status, info, link, doing, camera, okhistory>>

(* An error of the write is ignored, and an empty buffer writes nothing.   *)
Write(t) ==
  /\ at[t] = "write" /\ Go(t, "mark")
  /\ \/ /\ isConnected /\ sendBuf # "empty"
        /\ server' = Append(server, sendBuf)
        /\ earned' = Append(earned, oks)
        /\ sendBuf' = IF sendBuf = "mixed" THEN sendBuf ELSE "empty"
     \/ UNCHANGED <<server, earned, sendBuf>>
  /\ UNCHANGED <<status, info, link, doing, answered, inbound, tail, ended, oks>>

MarkSent(t) ==
  /\ at[t] = "mark" /\ Go(t, Done(t)) /\ isSended' = TRUE
  /\ UNCHANGED <<sysStatus, info, link, sendBuf, doing, camera, okhistory>>

Request(t) ==
  \/ CheckRequest(t) \/ SetStatus(t) \/ PutBegins(t) \/ PutEnds(t)
  \/ Write(t) \/ MarkSent(t)

-----------------------------------------------------------------------------
(* The client's thread.                                                    *)

(* setOnRtspEventListener of the helper: the request that follows a        *)
(* status.                                                                 *)
Following(stat) ==
  CASE stat = "INIT" -> "OPTIONS"
    [] stat = "OPTIONS" -> "DESCRIBE"
    [] stat = "DESCRIBE" -> "SETUP"
    [] stat = "SETUP" -> "PLAY"
    [] OTHER -> "none"

Listen ==
  /\ doing' = [doing EXCEPT !.client = Following(sysStatus)]
  /\ Go("client", IF doing'.client = "none" THEN "select" ELSE "check")

run ==
  /\ at.client = "run"
  /\ IF sysStatus = "INIT" THEN Listen
     ELSE Go("client", "select") /\ UNCHANGED doing
  /\ UNCHANGED <<status, info, link, sendBuf, camera, okhistory>>

(* A round of select finds the connection made or refused, something to    *)
(* read, or nothing.                                                       *)
select ==
  /\ at.client = "select"
  /\ \/ Go("client", "run") /\ UNCHANGED <<channel, selected>>
     \/ /\ channel = "pending" /\ selected /\ Go("client", "run")
        /\ \/ channel' = "connected" /\ UNCHANGED selected
           \/ selected' = FALSE /\ UNCHANGED channel
     \/ /\ isConnected /\ selected /\ (inbound # <<>> \/ ended)
        /\ Go("client", "read") /\ UNCHANGED <<channel, selected>>
  /\ UNCHANGED <<status, info, errorTimes, sendBuf, doing, camera, okhistory>>

(* Nothing came for the third time, or the channel is closed: the          *)
(* listener hears of it as of an answer.                                   *)
ReadFails ==
  /\ at.client = "read"
  /\ ~isConnected \/ (inbound = <<>> /\ errorTimes > 1)
  /\ selected' = FALSE /\ Listen
  /\ UNCHANGED <<status, info, channel, errorTimes, sendBuf, camera, okhistory>>

ReadsNothing ==
  /\ at.client = "read" /\ isConnected /\ inbound = <<>> /\ errorTimes <= 1
  /\ errorTimes' = errorTimes + 1 /\ Go("client", "run")
  /\ UNCHANGED <<status, info, channel, selected, sendBuf, doing, camera, okhistory>>

Has(key) == \E i \in DOMAIN inbound : key \in inbound[i].keys

(* Both keys are looked for in any answer that is read for one.            *)
obtainKeyData ==
  /\ sessionid' = (sessionid \/ Has("session"))
  /\ trackInfo' = (trackInfo \/ Has("track"))

(* What has come is one message.  It counts if it begins as an OK; the     *)
(* next request may go out then, if it has what that needs.                *)
AnsweredBy(pieces) ==
  /\ isSended' = FALSE
  /\ CASE sysStatus = "INIT" -> sessionid' = FALSE /\ trackInfo' = FALSE
       [] sysStatus \in {"DESCRIBE", "SETUP"} -> obtainKeyData
       [] OTHER -> UNCHANGED info
  /\ Go("client",
        IF \/ sysStatus = "DESCRIBE" /\ ~trackInfo'
           \/ sysStatus = "SETUP" /\ ~sessionid'
        THEN "run" ELSE "listen")

handleAny(pieces) == AnsweredBy(pieces)

handle(pieces) ==
  IF pieces[1].ok THEN AnsweredBy(pieces)
  ELSE Go("client", "run") /\ UNCHANGED <<isSended, info>>

read ==
  /\ at.client = "read" /\ isConnected /\ inbound # <<>>
  /\ inbound' = <<>> /\ handle(inbound)
  /\ oks' = IF inbound[1].ok THEN oks + 1 ELSE oks
  /\ UNCHANGED <<sysStatus, link, sendBuf, doing, server, answered, tail, ended,
                 earned>>

(* The status is read again for the call.                                  *)
callListener ==
  /\ at.client = "listen" /\ Listen
  /\ UNCHANGED <<status, info, link, sendBuf, camera, okhistory>>

-----------------------------------------------------------------------------
(* The app's thread: IpCameraHelper.fini.                                  *)

finiRtsp ==
  /\ at.app = "idle" /\ Go("app", "check")
  /\ UNCHANGED <<status, info, link, sendBuf, doing, camera, okhistory>>

(* A channel that is not connected yet stays as it is.                     *)
shutdown ==
  /\ at.app = "shutdown" /\ Go("app", "over")
  /\ channel' = IF isConnected THEN "closed" ELSE channel
  /\ UNCHANGED <<status, info, selected, errorTimes, sendBuf, doing, camera,
                 okhistory>>

-----------------------------------------------------------------------------
(* The camera.                                                             *)

Tells(req) == CASE req = "DESCRIBE" -> {"track"} [] req = "SETUP" -> {"session"}
                [] OTHER -> {}

CameraAnswers ==
  /\ answered < Len(server) /\ tail = <<>> /\ ~ended
  /\ answered' = answered + 1
  /\ LET keys == Tells(server[answered'])
         piece(ok, k) == [ok |-> ok, keys |-> k]
     IN  \E first \in {piece(TRUE, keys), piece(TRUE, {}), piece(FALSE, {})} :
           /\ inbound' = Append(inbound, first)
           /\ tail' = IF first = piece(TRUE, keys) \/ ~first.ok THEN <<>>
                      ELSE <<piece(FALSE, keys)>>
  /\ UNCHANGED <<status, info, link, sendBuf, at, doing, server, ended, okhistory>>

SecondPieceComes ==
  /\ tail # <<>> /\ inbound' = inbound \o tail /\ tail' = <<>>
  /\ UNCHANGED <<status, info, link, sendBuf, at, doing, server, answered, ended,
                 okhistory>>

CameraCloses ==
  /\ ~ended /\ ended' = TRUE /\ channel # "pending"
  /\ UNCHANGED <<status, info, link, sendBuf, at, doing, server, answered,
                 inbound, tail, okhistory>>

RtspNext ==
  \/ \E t \in Thread : Request(t)
  \/ run \/ select \/ ReadFails \/ ReadsNothing \/ read \/ callListener
  \/ finiRtsp \/ shutdown
  \/ CameraAnswers \/ SecondPieceComes \/ CameraCloses

RtspSpec == RtspInit /\ [][RtspNext]_rtspvars

-----------------------------------------------------------------------------

RtspTypeOK ==
  /\ sysStatus \in Range(Handshake) \cup {"INIT", "TEARDOWN"}
  /\ isSended \in BOOLEAN /\ sessionid \in BOOLEAN /\ trackInfo \in BOOLEAN
  /\ sendBuf \in Range(Handshake) \cup {"empty", "mixed", "TEARDOWN"}
  /\ answered <= Len(server) /\ Len(earned) = Len(server)

(* What the camera sees before a TEARDOWN, or before two requests mixed    *)
(* in the buffer, is the handshake in its order, each step once and        *)
(* after the OK to the one before, however answers are cut and whoever     *)
(* closes.                                                                 *)
HandshakeInOrder ==
  \A i \in DOMAIN server :
    (\A j \in 1 .. i : server[j] \in Range(Handshake)) =>
      i <= Len(Handshake) /\ server[i] = Handshake[i] /\ earned[i] >= i - 1
=============================================================================
