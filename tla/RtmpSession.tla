----------------------------- MODULE RtmpSession -----------------------------
(***************************************************************************)
(* How librtmp gets from a connection to a stream (rtmp.c): the remote     *)
(* calls it makes, the calls it keeps in m_methodCalls until an answer     *)
(* comes, and what HandleInvoke does with what the server invokes.  The    *)
(* server is outside: it answers each request in turn, refuses some, and   *)
(* may stop the stream.  Control messages and bandwidth carry no state of  *)
(* this kind and are left out; what a send that fails does to RTMP_Close   *)
(* is left out too.                                                        *)
(***************************************************************************)
EXTENDS Integers, Sequences, SequencesExt, FiniteSetsExt

CONSTANTS
  MaxInvokes,   \* bound: calls of one connection
  MaxMail       \* bound: server messages in flight

VARIABLES
  role,         \* "publish" with RTMP_FEATURE_WRITE, "live" with
                \* RTMP_LF_LIVE, else "play"
  connected,    \* RTMP_IsConnected
  inConnectStream, \* the thread is in RTMP_ConnectStream
  numInvokes, methodCalls, streamId, playing, bwChecks, \* m_... of RTMP
  toServer, toClient,
  streams, active  \* the server: streams created, the one in use or 0

rtmpState ==
  <<role, connected, inConnectStream, numInvokes, methodCalls, streamId, playing,
    bwChecks>>
serverState == <<streams, active>>
rtmpvars == <<rtmpState, toServer, toClient, serverState>>

RtmpInit ==
  /\ role = "play" /\ connected = FALSE /\ inConnectStream = FALSE
  /\ numInvokes = 0 /\ methodCalls = <<>> /\ streamId = 0
  /\ playing = FALSE /\ bwChecks = 0
  /\ toServer = <<>> /\ toClient = <<>>
  /\ streams = 0 /\ active = 0

(* The functions that send one call, ++m_numInvokes for each; with its     *)
(* argument queue RTMP_SendPacket also keeps the call.                     *)
Requests(methods, before, stream) ==
  [i \in DOMAIN methods |->
     [method |-> methods[i], txn |-> before + i, stream |-> stream]]

Invoke(once, queued, stream, kept) ==
  LET waiting == Requests(queued, numInvokes + Len(once), stream)
  IN  /\ numInvokes + Len(once) + Len(queued) <= MaxInvokes
      /\ numInvokes' = numInvokes + Len(once) + Len(queued)
      /\ toServer' = toServer \o Requests(once, numInvokes, stream) \o waiting
      /\ methodCalls' = kept \o waiting

Connect ==
  /\ ~connected
  /\ role' \in {"publish", "play", "live"}
  /\ connected' = TRUE /\ inConnectStream' = TRUE
  /\ Invoke(<<>>, <<"connect">>, 0, <<>>)
  /\ UNCHANGED <<streamId, playing, bwChecks, toClient, serverState>>

RTMPCloseKeepingCalls ==
  /\ connected' = FALSE /\ inConnectStream' = FALSE
  /\ streamId' = -1 /\ playing' = FALSE /\ bwChecks' = 0
  /\ numInvokes' = 0
  /\ toServer' = <<>> /\ toClient' = <<>>
  /\ streams' = 0 /\ active' = 0
  /\ UNCHANGED <<role, methodCalls>>

(* The socket goes, and with it what is under way.                         *)
RTMPClose ==
  /\ connected' = FALSE /\ inConnectStream' = FALSE
  /\ streamId' = -1 /\ playing' = FALSE /\ bwChecks' = 0
  /\ numInvokes' = 0 /\ methodCalls' = <<>>
  /\ toServer' = <<>> /\ toClient' = <<>>
  /\ streams' = 0 /\ active' = 0
  /\ UNCHANGED role

Answer == Head(toClient)
Read == toClient' = Tail(toClient)

Erase(calls, i) == RemoveAt(calls, i)
First(found) == IF found = {} THEN 0 ELSE Min(found)

ResultOf(call, rest) ==
  \/ /\ call.method = "connect"
     /\ Invoke(IF role = "publish" THEN <<"releaseStream", "FCPublish">> ELSE <<>>,
               IF role = "live" THEN <<"createStream", "FCSubscribe">>
               ELSE <<"createStream">>,
               0, rest)
     /\ UNCHANGED <<streamId, playing>>
  \/ /\ call.method = "createStream"
     /\ streamId' = Answer.stream
     /\ Invoke(<<>>, <<IF role = "publish" THEN "publish" ELSE "play">>, Answer.stream, rest)
     /\ UNCHANGED playing
  \/ /\ call.method \in {"publish", "play"}
     /\ playing' = TRUE /\ methodCalls' = rest
     /\ UNCHANGED <<streamId, numInvokes, toServer>>
  \/ /\ call.method = "FCSubscribe"
     /\ methodCalls' = rest
     /\ UNCHANGED <<streamId, playing, numInvokes, toServer>>

Result ==
  LET i == First({k \in DOMAIN methodCalls : methodCalls[k].txn = Answer.txn}) IN
  /\ Answer.kind = "_result"
  /\ IF i = 0
       THEN UNCHANGED <<numInvokes, methodCalls, streamId, playing, toServer>>
       ELSE ResultOf(methodCalls[i], Erase(methodCalls, i))
  /\ UNCHANGED bwChecks

Start ==
  LET i == First({k \in DOMAIN methodCalls : methodCalls[k].method = Answer.of}) IN
  /\ Answer.kind = "Start"
  /\ playing' = TRUE
  /\ methodCalls' = IF i = 0 THEN methodCalls ELSE Erase(methodCalls, i)
  /\ UNCHANGED <<numInvokes, streamId, bwChecks, toServer>>

Bandwidth ==
  /\ \/ /\ Answer.kind = "onBWDone"
        /\ IF bwChecks = 0 THEN Invoke(<<"_checkbw">>, <<>>, 0, methodCalls)
           ELSE UNCHANGED <<numInvokes, methodCalls, toServer>>
        /\ UNCHANGED bwChecks
     \/ /\ Answer.kind = "_onbwcheck"
        /\ bwChecks' = bwChecks + 1
        /\ UNCHANGED <<numInvokes, methodCalls, toServer>>
  /\ UNCHANGED <<streamId, playing>>

(* Logged and no more.                                                     *)
NoEffect ==
  /\ Answer.kind \in {"_error", "onFCSubscribe"}
  /\ UNCHANGED <<numInvokes, methodCalls, streamId, playing, bwChecks, toServer>>

HandleInvoke ==
  /\ connected /\ toClient # <<>>
  /\ \/ /\ Read
        /\ Result \/ Start \/ Bandwidth \/ NoEffect
        /\ inConnectStream' = (inConnectStream /\ ~playing')
        /\ UNCHANGED <<role, connected, serverState>>
     \/ /\ Answer.kind \in {"Failed", "Stop", "close"}
        /\ RTMPClose

(* The server hangs up, or the application closes the stream.              *)
Disconnect == connected /\ RTMPClose

(* RTMP_DeleteStream and createStream again, from the thread that reads.   *)
ReconnectStream ==
  /\ connected /\ ~inConnectStream
  /\ Invoke(IF streamId < 0 THEN <<>> ELSE <<"deleteStream">>, <<"createStream">>,
            streamId, methodCalls)
  /\ playing' = IF streamId < 0 THEN playing ELSE FALSE
  /\ streamId' = -1
  /\ inConnectStream' = TRUE
  /\ UNCHANGED <<role, connected, bwChecks, toClient, serverState>>

(* The server, from what librtmp expects of it.                            *)
Reply(messages) ==
  /\ Len(toClient) + Len(messages) <= MaxMail
  /\ toClient' = toClient \o messages

ServerAnswers ==
  /\ connected /\ toServer # <<>>
  /\ toServer' = Tail(toServer)
  /\ LET r == Head(toServer)
         result(stream) == [kind |-> "_result", txn |-> r.txn, stream |-> stream]
     IN
     \/ /\ r.method = "connect"
        /\ \/ Reply(<<result(0)>>)
           \/ Reply(<<[kind |-> "onBWDone"], result(0)>>)
           \/ Reply(<<[kind |-> "_error"]>>)
        /\ UNCHANGED serverState
     \/ /\ r.method = "createStream"
        /\ streams' = streams + 1
        /\ Reply(<<result(streams + 1)>>)
        /\ UNCHANGED active
     \/ /\ r.method \in {"publish", "play"}
        /\ \/ /\ active' = r.stream
              /\ \/ Reply(<<[kind |-> "Start", of |-> r.method]>>)
                 \/ Reply(<<result(0)>>)
           \/ /\ Reply(<<[kind |-> "Failed"]>>) /\ UNCHANGED active
        /\ UNCHANGED streams
     \/ /\ r.method \in {"releaseStream", "FCPublish"}
        /\ Reply(<<result(0)>>)
        /\ UNCHANGED serverState
     \/ /\ r.method \in {"FCSubscribe", "_checkbw"}
        /\ Reply(<<[kind |-> IF r.method = "_checkbw" THEN "_onbwcheck"
                              ELSE "onFCSubscribe"]>>)
        /\ UNCHANGED serverState
     \/ /\ r.method = "deleteStream"
        /\ active' = IF active = r.stream THEN 0 ELSE active
        /\ UNCHANGED <<streams, toClient>>
  /\ UNCHANGED rtmpState

ServerStops ==
  /\ connected /\ active # 0
  /\ active' = 0
  /\ \E kind \in {"Stop", "close"} : Reply(<<[kind |-> kind]>>)
  /\ UNCHANGED <<streams, rtmpState, toServer>>

RtmpNext ==
  \/ Connect \/ HandleInvoke \/ Disconnect \/ ReconnectStream
  \/ ServerAnswers \/ ServerStops

RtmpSpec == RtmpInit /\ [][RtmpNext]_rtmpvars

RtmpTypeOK ==
  /\ connected \in BOOLEAN /\ playing \in BOOLEAN
  /\ numInvokes \in 0 .. MaxInvokes
  /\ streamId \in -1 .. MaxInvokes
  /\ Len(toClient) <= MaxMail

(* When RTMP_ConnectStream says that the stream plays, the server has the  *)
(* stream with this number in use, or its word that it stopped is on the   *)
(* way: no answer to an earlier call is taken for one to this.             *)
PlaysItsStream ==
  connected /\ playing =>
    /\ streamId > 0
    /\ active = streamId
       \/ \E i \in DOMAIN toClient : toClient[i].kind \in {"Stop", "close"}

(* A call stays queued only as long as its answer can still come; a        *)
(* refused connect and FCSubscribe, which onFCSubscribe does not match,    *)
(* are the calls that stay.                                                *)
Awaited(call) ==
  \/ \E i \in DOMAIN toServer : toServer[i].txn = call.txn
  \/ \E i \in DOMAIN toClient :
       \/ toClient[i].kind = "_result" /\ toClient[i].txn = call.txn
       \/ toClient[i].kind = "Start" /\ toClient[i].of = call.method
       \/ toClient[i].kind = "Failed"
CallsAwaited ==
  \A i \in DOMAIN methodCalls :
    methodCalls[i].method \notin {"connect", "FCSubscribe"} => Awaited(methodCalls[i])

RtmpCallsSound == PlaysItsStream /\ CallsAwaited
=============================================================================
