---------------------------- MODULE SessionLocks ----------------------------
(***************************************************************************)
(* The order in which RTPSession and its transmitter take their mutexes.   *)
(* An API call is the set of the sequences of lock steps that its paths    *)
(* make, failures included; a thread picks one and takes its steps.        *)
(***************************************************************************)
EXTENDS Naturals, Sequences, FiniteSets

CONSTANTS
  User,           \* the application's threads
  Poller,         \* the poll thread
  Nobody,
  UsePollThread   \* RTPSessionParams::SetUsePollThread

ASSUME LocksAssumption ==
  Poller \notin User /\ Nobody \notin User \cup {Poller}

VARIABLES
  owner,  \* who holds each mutex
  inside, \* which sections each thread is in
  todo    \* the rest of the lock steps of a thread's call

lockvars == <<owner, inside, todo>>

SessionMutex == {"sources", "builder", "sched", "packsent"}
Mutex == SessionMutex \cup {"main", "wait"}
Worker == User \cup (IF UsePollThread THEN {Poller} ELSE {})

Enter(m) == [take |-> TRUE, mutex |-> m]
Leave(m) == [take |-> FALSE, mutex |-> m]

(* The paths of a section around the paths of its body, and one after      *)
(* another.  A failure ends a call early.                                  *)
Under(m, paths) == {<<Enter(m)>> \o p \o <<Leave(m)>> : p \in paths}
Then(P, Q) == {p \o q : p \in P, q \in Q}
Nothing == {<<>>}
OrNot(P) == P \cup Nothing
Only(m) == Under(m, Nothing)

-----------------------------------------------------------------------------
(* The transmitter.                                                        *)

TransmitterCall == Only("main")
WaitForIncomingData ==
  {<<Enter("main"), Enter("wait"), Leave("main"),
     Enter("main"), Leave("main"), Leave("wait")>>} \cup TransmitterCall

-----------------------------------------------------------------------------
(* Calls of the application.                                               *)

GetLocalSSRC == Only("builder")

(* Mutant: the packet builder stays locked to the end of the call.         *)
SendPacketLockedThroughout ==
  Under("builder",
        OrNot(Then(TransmitterCall,
                   OrNot(Then(Only("sources"), Only("packsent"))))))

SendPacket ==
  Then(Under("builder", OrNot(TransmitterCall)),
       OrNot(Then(Only("sources"), Only("packsent"))))

SendRTCPAPPPacket ==
  Then(Only("builder"),
       OrNot(Then(Only("builder"),
                  OrNot(Then(TransmitterCall, OrNot(Only("packsent")))))))

SendUnknownPacket ==
  Then(Only("builder"),
       OrNot(Then(Only("builder"),
                  OrNot(Then(TransmitterCall, OrNot(Only("packsent")))))))

SendRawData == TransmitterCall
PacketSettings == Only("builder")
ReportSettings == Only("builder")
TransmitterSettings == TransmitterCall

SetMaximumPacketSize ==
  Then(TransmitterCall,
       OrNot(Then(Only("builder"), OrNot(TransmitterCall))))

SetSessionBandwidth == Only("sched")

(* Without a poll thread only: with one the call returns zero at once.     *)
GetRTCPDelay ==
  IF UsePollThread THEN Nothing ELSE Under("sources", Only("sched"))

(* Between BeginDataAccess and EndDataAccess the application holds the      *)
(* lock of the table, and nothing keeps it from making any of its calls.   *)
(* BeginDataAccess and SendPacket lock the table again, and JMutex is not  *)
(* recursive: where the locks are real, such a call does not get further.  *)
LockTableAgain == {<<Enter("sources")>>}
SendPacketInside ==
  Then(Under("builder", OrNot(TransmitterCall)),
       OrNot(IF UsePollThread THEN LockTableAgain ELSE Only("packsent")))

DataAccess ==
  Under("sources",
        UNION {Nothing, PacketSettings, TransmitterSettings,
               SetSessionBandwidth, SetMaximumPacketSize, SendRTCPAPPPacket,
               SendUnknownPacket, SendPacketInside,
               IF UsePollThread THEN LockTableAgain ELSE Nothing})

-----------------------------------------------------------------------------
(* The poll thread, or Poll when there is none.                            *)

LoopDelay == Under("sched", Only("sources"))

(* The table asks the transmitter whether the packet is its own, and calls *)
(* back into the application, under both locks.                            *)
RawPacket == Then(TransmitterCall, Under("sched", OrNot(TransmitterCall)))

BYEForCollision == Then(Only("builder"), OrNot(Only("sched")))

Collision ==
  Then(Only("packsent"),
       Then(OrNot(BYEForCollision), Then(Only("builder"), Only("packsent"))))

Packets == {TransmitterCall} \cup {Then(RawPacket, OrNot(Collision))}

TimeoutsAndTimer == Then(Only("sched"), Only("sched"))

Report ==
  Then(Only("builder"),
       OrNot(Then(TransmitterCall,
                  OrNot(Then(Only("packsent"), Only("sched"))))))

BYE ==
  Then(TransmitterCall,
       OrNot(Then(Only("packsent"),
                  Then(OrNot(Only("sched")), Only("sched")))))

ProcessPolledData ==
  Under("sources",
        (UNION Packets)
          \cup Then(UNION Packets,
                    Then(TimeoutsAndTimer, Nothing \cup Report \cup BYE)))

PollRound ==
  Then(LoopDelay,
       Then(WaitForIncomingData, Then(TransmitterCall, ProcessPolledData)))

UserPoll == Then(TransmitterCall, ProcessPolledData)

Calls ==
  (UNION {GetLocalSSRC, SendPacket, SendRTCPAPPPacket, SendUnknownPacket,
          SendRawData, PacketSettings, ReportSettings, TransmitterSettings,
          SetMaximumPacketSize, SetSessionBandwidth, GetRTCPDelay, DataAccess,
          IF UsePollThread THEN {} ELSE UserPoll})
    \ Nothing

-----------------------------------------------------------------------------

LocksTypeOK ==
  /\ owner \in [Mutex -> Worker \cup {Nobody}]
  /\ inside \in [Worker -> SUBSET Mutex]
  /\ todo \in [Worker -> Seq([take : BOOLEAN, mutex : Mutex])]

LocksInit ==
  /\ owner = [m \in Mutex |-> Nobody]
  /\ inside = [t \in Worker |-> {}]
  /\ todo = [t \in Worker |-> <<>>]

(* InternalCreate initialises the session's mutexes only with a poll       *)
(* thread, and Lock does nothing on a mutex that is not initialised.       *)
Initialised(m) == UsePollThread \/ m \notin SessionMutex

Call(t) ==
  /\ todo[t] = <<>>
  /\ \E p \in (IF t = Poller THEN PollRound ELSE Calls) :
       todo' = [todo EXCEPT ![t] = p]
  /\ UNCHANGED <<owner, inside>>

Pending(t, take) == todo[t] # <<>> /\ Head(todo[t]).take = take
Blocked(t) ==
  /\ Pending(t, TRUE) /\ Initialised(Head(todo[t]).mutex)
  /\ owner[Head(todo[t]).mutex] # Nobody

Lock(t) ==
  /\ Pending(t, TRUE) /\ ~Blocked(t)
  /\ LET m == Head(todo[t]).mutex IN
       /\ owner' = [owner EXCEPT ![m] = IF Initialised(m) THEN t ELSE @]
       /\ inside' = [inside EXCEPT ![t] = @ \cup {m}]
  /\ todo' = [todo EXCEPT ![t] = Tail(@)]

Unlock(t) ==
  /\ Pending(t, FALSE)
  /\ LET m == Head(todo[t]).mutex IN
       /\ owner' = [owner EXCEPT ![m] = Nobody]
       /\ inside' = [inside EXCEPT ![t] = @ \ {m}]
  /\ todo' = [todo EXCEPT ![t] = Tail(@)]

LocksNext == \E t \in Worker : Call(t) \/ Lock(t) \/ Unlock(t)

LocksSpec == LocksInit /\ [][LocksNext]_lockvars

-----------------------------------------------------------------------------

(* An application's call between BeginDataAccess and EndDataAccess that    *)
(* needs the lock of the scheduler, which the poll thread takes before the *)
(* table's, or the table's a second time.                                  *)
InDataAccess(t) ==
  /\ t \in User /\ "sources" \in inside[t]
  /\ Head(todo[t]).mutex \in {"sched", "sources"}

(* Threads come to wait for one another for ever in these calls and in no  *)
(* others: apart from them no set of threads does so, though the poll      *)
(* thread takes the scheduler's lock before the table's in its loop and    *)
(* the other way round in ProcessPolledData, where the builder's comes     *)
(* inside the table's, and though an application that has the table        *)
(* locked may set and send what it likes.                                  *)
NoDeadlock ==
  \A S \in (SUBSET Worker) \ {{}} :
    (\A t \in S : Blocked(t) /\ owner[Head(todo[t]).mutex] \in S)
      => UsePollThread /\ \E t \in S : InDataAccess(t)

(* "if s is true, the session will use mutexes in case multiple threads    *)
(* are at work" (SetNeedThreadSafety): no two threads are in sections of   *)
(* one mutex.                                                              *)
SectionsExclude ==
  \A t, u \in Worker : inside[t] \cap inside[u] # {} => t = u
=============================================================================
