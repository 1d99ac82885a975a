------------------------------ MODULE IpCamera ------------------------------
(***************************************************************************)
(* IpCameraHelper over RtpHandle.  A worker thread makes a handle with a   *)
(* sender and a receiver, and passes on what the receiver's poll thread    *)
(* puts into a queue; the threads of Closer end it (fini): the user        *)
(* interface, the thread of its stop button, the RTSP client on an error.  *)
(* Nothing orders them but the fields of the helper.  Packets are numbered *)
(* as they come.                                                           *)
(***************************************************************************)
EXTENDS Naturals, Sequences, SequencesExt

CONSTANTS
  queueSize, Closer,
  MaxReceived   \* bound: packets that come

ASSUME CameraAssumption ==
  queueSize \in Nat \ {0} /\ MaxReceived \in Nat /\ Closer # {}

VARIABLES
  isRunning, rtpHandle, mRtpHandle,  \* of the helper; FALSE for null and for 0
  native,                       \* the handle: [is: none, live or freed; parts]
  deleted, running,             \* parts whose object is gone, whose session runs
  rtpDataQueue, rtpData,        \* and the packet that was taken, or 0
  worker, closer, poller,       \* where the threads are
  received, passed,
  failed, early, undone,        \* history: an init failed; who saw no handle
                                \* yet; the worker began after a fini
  overlapped, clashed, strays   \* finis overlapped, or used what was freed;
                                \* packets whose sendByte did

helper == <<isRunning, rtpHandle, mRtpHandle>>
objects == <<native, deleted, running>>
sendside == <<worker, rtpData, passed>>
queueside == <<rtpDataQueue, poller, received>>
closeside == <<closer, early, overlapped, clashed>>
camerahistory == <<failed, undone, strays>>
cameravars == <<helper, objects, sendside, queueside, closeside,
                camerahistory>>

On(step, p) == [at |-> step, part |-> p]
Just(step) == On(step, "none")

CameraInit ==
  /\ isRunning = FALSE /\ rtpHandle = FALSE /\ mRtpHandle = FALSE
  /\ native = [is |-> "none", parts |-> {}] /\ deleted = {} /\ running = {}
  /\ rtpDataQueue = <<>> /\ rtpData = 0
  /\ worker = "start" /\ closer = [c \in Closer |-> Just("idle")] /\ poller = "idle"
  /\ received = 0 /\ passed = <<>> /\ failed = FALSE /\ early = {} /\ undone = FALSE
  /\ overlapped = FALSE /\ clashed = FALSE /\ strays = {}

-----------------------------------------------------------------------------
(* The worker: initData, with initReceiveAndSendHandle_ and sendByte_.     *)

StartWorker ==
  /\ worker = "start" /\ worker' = "sender"
  /\ isRunning' = TRUE /\ rtpHandle' = TRUE
  /\ native' = [is |-> "live", parts |-> {}]
  /\ undone' = (\E c \in Closer : closer[c] # Just("idle"))
  /\ UNCHANGED <<mRtpHandle, deleted, running, rtpData, passed, queueside, closeside,
                 failed, strays>>

(* A part that cannot be made ends it, and what was made before stays:     *)
(* the helper gets 0 and forgets it.                                       *)
Make(p, next) ==
  \/ /\ native' = [native EXCEPT !.parts = @ \cup {p}] /\ running' = running \cup {p}
     /\ worker' = next /\ UNCHANGED <<failed, rtpHandle>>
  \/ worker' = "over" /\ failed' = TRUE /\ rtpHandle' = FALSE
     /\ UNCHANGED <<native, running>>

initParam ==
  /\ worker = "sender" /\ Make("sender", "receiver")
  /\ UNCHANGED <<isRunning, mRtpHandle, deleted, rtpData, passed, queueside, closeside,
                 undone, strays>>

init ==
  /\ worker = "receiver" /\ Make("receiver", "assign")
  /\ UNCHANGED <<isRunning, mRtpHandle, deleted, rtpData, passed, queueside, closeside,
                 undone, strays>>

Assign ==
  /\ worker = "assign" /\ worker' = "loop" /\ mRtpHandle' = TRUE
  /\ UNCHANGED <<isRunning, rtpHandle, objects, rtpData, passed, queueside, closeside,
                 camerahistory>>

Loop ==
  /\ worker = "loop" /\ worker' = IF isRunning THEN "take" ELSE "over"
  /\ UNCHANGED <<helper, objects, rtpData, passed, queueside, closeside, camerahistory>>

take ==
  /\ worker = "take" /\ rtpDataQueue # <<>> /\ worker' = "check"
  /\ rtpData' = Head(rtpDataQueue) /\ rtpDataQueue' = Tail(rtpDataQueue)
  /\ UNCHANGED <<helper, objects, passed, poller, received, closeside, camerahistory>>

(* The worker goes on to the next step, or drops its packet.               *)
GoOn(ok, next) ==
  /\ worker' = IF ok THEN next ELSE "loop"
  /\ rtpData' = IF ok THEN rtpData ELSE 0

CheckHandle ==
  /\ worker = "check" /\ GoOn(rtpHandle /\ mRtpHandle, "call")
  /\ UNCHANGED <<helper, objects, passed, queueside, closeside, camerahistory>>

(* mRtpHandle is read once more for the call; 0 makes it return.           *)
sendByte ==
  /\ worker = "call" /\ GoOn(mRtpHandle, "read")
  /\ UNCHANGED <<helper, objects, passed, queueside, closeside, camerahistory>>

(* What stands in a freed handle is anyone's guess.                        *)
Reads(p, seen) == native.is = "live" => seen = (p \in native.parts)

Astray(if) == strays' = IF if THEN strays \cup {rtpData} ELSE strays

ReadSender ==
  /\ worker = "read"
  /\ \E seen \in BOOLEAN : Reads("sender", seen) /\ GoOn(seen, "send")
  /\ Astray(native.is = "freed")
  /\ UNCHANGED <<helper, objects, passed, queueside, closeside, failed, undone>>

(* SendRtpData finds the session created, or gives up; a sender that is    *)
(* deleted cannot be asked.                                                *)
SendBegun ==
  /\ worker = "send" /\ GoOn("sender" \in running, "sending")
  /\ Astray("sender" \in deleted)
  /\ UNCHANGED <<helper, objects, passed, queueside, closeside, failed, undone>>

(* The session may have been destroyed under the call.                     *)
SendDone ==
  /\ worker = "sending" /\ worker' = "loop" /\ rtpData' = 0
  /\ passed' = IF "sender" \in running THEN Append(passed, rtpData) ELSE passed
  /\ Astray("sender" \notin running)
  /\ UNCHANGED <<helper, objects, queueside, closeside, failed, undone>>

-----------------------------------------------------------------------------
(* The poll thread of the receiver: receiveRtpData, addDataToQueue.        *)

receiveRtpData ==
  /\ poller = "idle" /\ "receiver" \in running /\ received < MaxReceived
  /\ received' = received + 1
  /\ poller' = IF Len(rtpDataQueue) >= queueSize THEN "poll" ELSE "offer"
  /\ UNCHANGED <<helper, objects, sendside, rtpDataQueue, closeside, camerahistory>>

pollTwice ==
  /\ poller = "poll" /\ poller' = "offer"
  /\ rtpDataQueue' = IF Len(rtpDataQueue) <= 1 THEN <<>>
                     ELSE SubSeq(rtpDataQueue, 1, Len(rtpDataQueue) - 1)
  /\ UNCHANGED <<helper, objects, sendside, received, closeside, camerahistory>>

(* The oldest goes, if the worker has not emptied the queue meanwhile.     *)
poll ==
  /\ poller = "poll" /\ poller' = "offer"
  /\ rtpDataQueue' = IF rtpDataQueue = <<>> THEN <<>> ELSE Tail(rtpDataQueue)
  /\ UNCHANGED <<helper, objects, sendside, received, closeside, camerahistory>>

offer ==
  /\ poller = "offer" /\ poller' = "idle"
  /\ rtpDataQueue' = IF Len(rtpDataQueue) < queueSize
                     THEN Append(rtpDataQueue, received) ELSE rtpDataQueue
  /\ UNCHANGED <<helper, objects, sendside, received, closeside, camerahistory>>

-----------------------------------------------------------------------------
(* A closer: fini, with finiHandle_.                                       *)

InFiniHandle == {"read", "destroy", "delete", "zero", "free"}
Goes(c, to) == closer' = [closer EXCEPT ![c] = to]

finiRunningOn(c) ==
  /\ closer[c] = Just("idle") /\ Goes(c, Just("check"))
  /\ UNCHANGED <<helper, objects, sendside, queueside, early, overlapped, clashed,
                 camerahistory>>

fini(c) ==
  /\ closer[c] = Just("idle") /\ isRunning' = FALSE /\ Goes(c, Just("check"))
  /\ UNCHANGED <<rtpHandle, mRtpHandle, objects, sendside, queueside, early, overlapped,
                 clashed, camerahistory>>

CheckFini(c) ==
  /\ closer[c] = Just("check")
  /\ Goes(c, Just(IF rtpHandle /\ mRtpHandle THEN "call" ELSE "over"))
  /\ early' = IF worker \in {"start", "sender", "receiver", "assign"}
              THEN early \cup {c} ELSE early
  /\ UNCHANGED <<helper, objects, sendside, queueside, overlapped, clashed,
                 camerahistory>>

(* The handle is read once more for the call.                              *)
finiHandle(c) ==
  /\ closer[c] = Just("call")
  /\ Goes(c, IF mRtpHandle THEN On("read", "sender") ELSE Just("forget"))
  /\ overlapped' = (overlapped \/ (mRtpHandle /\ \E d \in Closer \ {c} :
                      closer[d].at \in InFiniHandle \cup {"forget", "reset"}))
  /\ UNCHANGED <<helper, objects, sendside, queueside, early, clashed, camerahistory>>

PartAfter(p) == IF p = "sender" THEN On("read", "receiver") ELSE Just("free")

ReadPart(c, p) ==
  /\ closer[c] = On("read", p)
  /\ \E seen \in BOOLEAN :
       Reads(p, seen) /\ Goes(c, IF seen THEN On("destroy", p) ELSE PartAfter(p))
  /\ clashed' = (clashed \/ native.is = "freed")
  /\ UNCHANGED <<helper, objects, sendside, queueside, early, overlapped, camerahistory>>

BYEDestroyLater(c, p) ==
  /\ closer[c] = On("destroy", p) /\ Goes(c, On("delete", p))
  /\ clashed' = (clashed \/ p \in deleted)
  /\ UNCHANGED <<helper, objects, sendside, queueside, early, overlapped, camerahistory>>

(* BYEDestroy ends the poll thread, which is not in a callback by then; it *)
(* is not made for two threads, nor for an object that is gone.            *)
BYEDestroy(c, p) ==
  /\ closer[c] = On("destroy", p) /\ Goes(c, On("delete", p))
  /\ p = "receiver" /\ p \in running => poller = "idle"
  /\ running' = running \ {p}
  /\ clashed' = (clashed \/ p \in deleted
                   \/ \E d \in Closer \ {c} : closer[d] = On("destroy", p))
  /\ UNCHANGED <<helper, native, deleted, sendside, queueside, early, overlapped,
                 camerahistory>>

DeletePart(c, p) ==
  /\ closer[c] = On("delete", p) /\ Goes(c, On("zero", p))
  /\ deleted' = deleted \cup {p} /\ clashed' = (clashed \/ p \in deleted)
  /\ UNCHANGED <<helper, native, running, sendside, queueside, early, overlapped,
                 camerahistory>>

ZeroPart(c, p) ==
  /\ closer[c] = On("zero", p) /\ Goes(c, PartAfter(p))
  /\ native' = [native EXCEPT !.parts = IF native.is = "live" THEN @ \ {p} ELSE @]
  /\ clashed' = (clashed \/ native.is = "freed")
  /\ UNCHANGED <<helper, deleted, running, sendside, queueside, early, overlapped,
                 camerahistory>>

FreeHandle(c) ==
  /\ closer[c] = Just("free") /\ Goes(c, Just("forget"))
  /\ native' = [native EXCEPT !.is = "freed"]
  /\ clashed' = (clashed \/ native.is = "freed")
  /\ UNCHANGED <<helper, deleted, running, sendside, queueside, early, overlapped,
                 camerahistory>>

ForgetHandle(c) ==
  /\ closer[c] = Just("forget") /\ Goes(c, Just("reset")) /\ rtpHandle' = FALSE
  /\ UNCHANGED <<isRunning, mRtpHandle, objects, sendside, queueside, early, overlapped,
                 clashed, camerahistory>>

ResetHandle(c) ==
  /\ closer[c] = Just("reset") /\ Goes(c, Just("over")) /\ mRtpHandle' = FALSE
  /\ UNCHANGED <<isRunning, rtpHandle, objects, sendside, queueside, early, overlapped,
                 clashed, camerahistory>>

EndHelper(c) ==
  \/ fini(c) \/ CheckFini(c) \/ finiHandle(c)
  \/ \E p \in {"sender", "receiver"} :
       ReadPart(c, p) \/ BYEDestroy(c, p) \/ DeletePart(c, p) \/ ZeroPart(c, p)
  \/ FreeHandle(c) \/ ForgetHandle(c) \/ ResetHandle(c)

CameraNext ==
  \/ StartWorker \/ initParam \/ init \/ Assign
  \/ Loop \/ take \/ CheckHandle \/ sendByte \/ ReadSender \/ SendBegun \/ SendDone
  \/ receiveRtpData \/ poll \/ offer
  \/ \E c \in Closer : EndHelper(c)

CameraSpec == CameraInit /\ [][CameraNext]_cameravars
-----------------------------------------------------------------------------

CameraTypeOK ==
  /\ \A field \in {isRunning, rtpHandle, mRtpHandle} : field \in BOOLEAN
  /\ running \subseteq {"sender", "receiver"} /\ early \subseteq Closer
  /\ native.is \in {"none", "live", "freed"}
  /\ Len(rtpDataQueue) <= queueSize

(* A session runs only while a live handle points to it.  When all have    *)
(* closed, sessions run on in just two cases, in which the code drops the  *)
(* handle: an init that failed after the sender was made, and closers who  *)
(* all came before the worker had the handle.                              *)
SessionsHeld ==
  /\ running \subseteq native.parts /\ (native.is # "live" => running = {})
  /\ (\A c \in Closer : closer[c] = Just("over")) =>
       running = IF failed \/ early = Closer THEN native.parts ELSE {}

(* The queue holds the last packets without a gap, whatever the worker     *)
(* takes while the poll thread makes room; packets are sent on in the      *)
(* order in which they came, each once.                                    *)
LatestKept ==
  /\ \A i \in DOMAIN rtpDataQueue :
       rtpDataQueue[i] + Len(rtpDataQueue) - i =
         (IF poller = "idle" THEN received ELSE received - 1)
  /\ \A i, j \in DOMAIN passed : i < j => passed[i] < passed[j]

(* Freed memory is used: a closer ends the handle under a worker that is   *)
(* past its checks, but for one packet and no more, unless that worker     *)
(* began after the fini and took its stop back; and closers use what is    *)
(* freed only when two of them overlap.                                    *)
FreedUseFew ==
  /\ undone \/ \A m, n \in strays : m = n
  /\ strays # {} => \E c \in Closer : closer[c].at # "idle"
  /\ clashed => overlapped

CameraSound == SessionsHeld /\ LatestKept /\ FreedUseFew
=============================================================================
