----------------------------- MODULE RtmpPusher -----------------------------
(***************************************************************************)
(* RtmpHandle and RtmpUtils, the RTMP publisher that the app calls: every  *)
(* push fills the one packet of the handle and sends it under a mutex      *)
(* that all handles share; release ends the handle without it.             *)
(* pushFlvFile has a connection of its own and sends the tags of a file at *)
(* their times. Threads push with the handle they were given; after        *)
(* release nobody is given it any more, but who has it may still be in a   *)
(* push. The connection is outside: it takes a message or breaks. A file   *)
(* and a handle share nothing: a behaviour has one or the other.           *)
(***************************************************************************)
EXTENDS Integers, Sequences, SequencesExt, FiniteSets

CONSTANTS
  Pusher,       \* threads that push
  Tag,          \* tags a file may hold: [type, time]
  Step,         \* 40 milliseconds, in units of the model
  NoThread,     \* nobody holds the mutex
  MaxPushes,    \* bound: pushes
  MaxTags,      \* bound: tags in a file
  MaxClock      \* bound: time a file is sent for

ASSUME ThreadAssumption == NoThread \notin Pusher /\ IsFiniteSet(Pusher)
ASSUME StepAssumption == Step \in Nat \ {0}

VARIABLES
  rtmpHandle,   \* none, live, released or freed
  rtmp,         \* its connection: none, connected or broken
  packet,       \* its packet: whose data is in it, and the numbers
  mTimestamp,
  mute_x,       \* the thread that has it
  pushing,      \* of each pusher: its place and the number of its push
  asked,        \* the kinds of the pushes
  messages,     \* messages sent
  loose,        \* history: uses of a handle that was given back
  file,         \* of pushFlvFile: where it is, what is left, is it open
  playTime,     \* time since it began to send
  shown,        \* history: tags it has sent, [tag, at]
  tags          \* history: what was in the file

handlevars == <<rtmpHandle, rtmp, packet, mTimestamp>>
callvars == <<mute_x, pushing, asked, messages, loose>>
filevars == <<file, playTime, shown, tags>>
pushervars == <<handlevars, callvars, filevars>>

EmptyPacket == [body |-> 0, kind |-> "none", time |-> 0]

PusherInit ==
  /\ rtmpHandle = "none" /\ rtmp = "none"
  /\ packet = EmptyPacket /\ mTimestamp = 0
  /\ mute_x = NoThread /\ pushing = [p \in Pusher |-> [at |-> "idle", n |-> 0]]
  /\ asked = <<>> /\ messages = <<>> /\ loose = 0
  /\ file = [at |-> "idle", left |-> <<>>, open |-> FALSE]
  /\ playTime = 0 /\ shown = <<>> /\ tags = <<>>

-----------------------------------------------------------------------------
(* The handle.                                                             *)

(* The address, the connection and the stream are set up; if one fails the *)
(* connection is given back and there is no handle.                        *)
initRtmpHandle ==
  /\ rtmpHandle = "none" /\ file.at = "idle"
  /\ \/ rtmpHandle' = "live" /\ rtmp' = "connected"
     \/ rtmpHandle' = "failed" /\ rtmp' = "none"
  /\ packet' = EmptyPacket /\ mTimestamp' = 0
  /\ UNCHANGED <<callvars, filevars>>

(* releaseRtmpHandle: the connection, then the packet and the object, and  *)
(* all without the mutex.                                                  *)
ReleaseConnection ==
  /\ rtmpHandle = "live" /\ rtmpHandle' = "released" /\ rtmp' = "none"
  /\ UNCHANGED <<packet, mTimestamp, callvars, filevars>>

ReleasePacket ==
  /\ rtmpHandle = "released" /\ rtmpHandle' = "freed" /\ packet' = EmptyPacket
  /\ UNCHANGED <<rtmp, mTimestamp, callvars, filevars>>

-----------------------------------------------------------------------------
(* pushSPSPPS_, pushH264Data_ and pushFlvData_.                            *)

At(p, place) == pushing[p].at = place
To(p, place) == pushing' = [pushing EXCEPT ![p].at = place]

BeginPush(p, kind) ==
  /\ At(p, "idle") /\ rtmpHandle = "live" /\ Len(asked) < MaxPushes
  /\ asked' = Append(asked, kind)
  /\ pushing' = [pushing EXCEPT ![p] = [at |-> "lock", n |-> Len(asked')]]
  /\ UNCHANGED <<handlevars, mute_x, messages, loose, filevars>>

LockSkipped(p) ==
  /\ At(p, "lock") /\ To(p, "fill")
  /\ UNCHANGED <<handlevars, mute_x, asked, messages, loose, filevars>>

LockMutex(p) ==
  /\ At(p, "lock") /\ mute_x = NoThread /\ mute_x' = p /\ To(p, "fill")
  /\ UNCHANGED <<handlevars, asked, messages, loose, filevars>>

(* What a push does with what was given back is anyone's guess: here it    *)
(* ends.                                                                   *)
EndPush(p) == To(p, "idle") /\ mute_x' = IF mute_x = p THEN NoThread ELSE mute_x
Stray(p) ==
  EndPush(p) /\ loose' = loose + 1
  /\ UNCHANGED <<handlevars, asked, messages, filevars>>

(* The data is copied into the packet; a tag whose length or type is       *)
(* wrong is refused.                                                       *)
Fill(p) ==
  /\ At(p, "fill")
  /\ IF rtmpHandle = "freed" THEN Stray(p)
     ELSE /\ \/ packet' = [packet EXCEPT !.body = pushing[p].n]
                /\ To(p, "number") /\ UNCHANGED mute_x
             \/ asked[pushing[p].n] = "tag" /\ EndPush(p) /\ UNCHANGED packet
          /\ UNCHANGED <<rtmpHandle, rtmp, mTimestamp, asked, messages, loose, filevars>>

(* Parameters have the time 0, a frame one Step more than the frame        *)
(* before, whether that was sent or not, and a tag brings its own, for     *)
(* which its number stands.                                                *)
Number(p) ==
  LET n == pushing[p].n IN
  /\ At(p, "number")
  /\ IF rtmpHandle = "freed" THEN Stray(p)
     ELSE /\ packet' = [packet EXCEPT !.kind = asked[n],
                          !.time = CASE asked[n] = "parameters" -> 0
                                     [] asked[n] = "frame" -> mTimestamp
                                     [] asked[n] = "tag" -> n]
          /\ mTimestamp' = IF asked[n] = "frame" THEN mTimestamp + Step ELSE mTimestamp
          /\ To(p, "send")
          /\ UNCHANGED <<rtmpHandle, rtmp, mute_x, asked, messages, loose, filevars>>

(* RTMP_SendPacket closes a connection that breaks.                        *)
SendIt(p) ==
  /\ At(p, "send")
  /\ IF rtmp = "none" THEN Stray(p)
     ELSE /\ EndPush(p)
          /\ \/ rtmp = "connected" /\ messages' = Append(messages, packet) /\ UNCHANGED rtmp
             \/ rtmp' = "broken" /\ UNCHANGED messages
          /\ UNCHANGED <<rtmpHandle, packet, mTimestamp, asked, loose, filevars>>

-----------------------------------------------------------------------------
(* pushFlvFile.                                                            *)

(* If it does not get its connection the file stays open.                  *)
OpenFile ==
  /\ file.at = "idle" /\ rtmpHandle = "none"
  /\ \E n \in 0 .. MaxTags : \E content \in [1 .. n -> Tag] :
       /\ tags' = content
       /\ \E at \in {"tags", "over"} :
            file' = [at |-> at, left |-> content, open |-> TRUE]
  /\ UNCHANGED <<handlevars, callvars, playTime, shown>>

Media(tag) == tag.type \in {"audio", "video"}

SkipTag ==
  /\ file.at = "tags" /\ file.left # <<>> /\ ~Media(Head(file.left))
  /\ file' = [file EXCEPT !.left = Tail(@)]
  /\ UNCHANGED <<handlevars, callvars, playTime, shown, tags>>

EarlySendTag ==
  /\ file.at = "tags" /\ file.left # <<>> /\ Media(Head(file.left))
  /\ shown' = Append(shown, [tag |-> Head(file.left), at |-> playTime])
  /\ file' = [file EXCEPT !.left = Tail(@)]
  /\ UNCHANGED <<handlevars, callvars, playTime, tags>>

(* It sleeps up to the time of the tag, reckoned from the start.           *)
SendTag ==
  /\ file.at = "tags" /\ file.left # <<>> /\ Media(Head(file.left))
  /\ playTime >= Head(file.left).time
  /\ shown' = Append(shown, [tag |-> Head(file.left), at |-> playTime])
  /\ file' = [file EXCEPT !.left = Tail(@)]
  /\ UNCHANGED <<handlevars, callvars, playTime, tags>>

(* The file is over, cut off in a tag, or the connection broke.            *)
EndFile ==
  /\ file.at = "tags" /\ file' = [file EXCEPT !.at = "over", !.open = FALSE]
  /\ UNCHANGED <<handlevars, callvars, playTime, shown, tags>>

Passes ==
  /\ file.at = "tags" /\ playTime < MaxClock /\ playTime' = playTime + 1
  /\ UNCHANGED <<handlevars, callvars, file, shown, tags>>

PusherNext ==
  \/ initRtmpHandle \/ ReleaseConnection \/ ReleasePacket
  \/ \E p \in Pusher :
       \/ \E kind \in {"parameters", "frame", "tag"} : BeginPush(p, kind)
       \/ LockMutex(p) \/ Fill(p) \/ Number(p) \/ SendIt(p)
  \/ OpenFile \/ SkipTag \/ SendTag \/ EndFile \/ Passes

PusherSpec == PusherInit /\ [][PusherNext]_pushervars

-----------------------------------------------------------------------------

PusherTypeOK ==
  /\ rtmpHandle \in {"none", "failed", "live", "released", "freed"}
  /\ rtmp \in {"none", "connected", "broken"}
  /\ mute_x \in Pusher \cup {NoThread} /\ packet.body \in 0 .. MaxPushes
  /\ loose \in Nat /\ playTime \in 0 .. MaxClock

(* A message is the data of one push with that push's type and time,       *)
(* whatever other threads push at once; frames go out with times that      *)
(* ascend, and nothing twice.                                              *)
MessagesWhole ==
  /\ \A i \in DOMAIN messages :
       LET x == messages[i] IN
       /\ x.kind = asked[x.body]
       /\ x.kind = "parameters" => x.time = 0
       /\ x.kind = "tag" => x.time = x.body
  /\ \A i, j \in DOMAIN messages :
       i < j => /\ messages[i].body # messages[j].body
                /\ messages[i].kind = "frame" /\ messages[j].kind = "frame" =>
                     messages[i].time < messages[j].time

(* Each thread uses what release gave back once at most, if it was in a    *)
(* push then.                                                              *)
StraysFew == loose <= Cardinality(Pusher)

(* The tags of the file go out in their order, audio and video only, and   *)
(* none before its time.                                                   *)
FileInOrder ==
  LET read == 1 .. Len(tags) - Len(file.left) IN
  /\ \E from \in [DOMAIN shown -> read] :
       /\ \A i, j \in DOMAIN shown : i < j => from[i] < from[j]
       /\ {from[i] : i \in DOMAIN shown} = {k \in read : Media(tags[k])}
       /\ \A i \in DOMAIN shown : shown[i].tag = tags[from[i]]
  /\ \A i \in DOMAIN shown : shown[i].at >= shown[i].tag.time

PusherSound == MessagesWhole /\ StraysFew /\ FileInOrder
=============================================================================
