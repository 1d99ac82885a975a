--------------------------- MODULE SessionProofs ---------------------------
(***************************************************************************)
(* Proofs about Session, for any number of threads, addresses, SSRCs and   *)
(* packets.  The inductive invariant says what holds in the middle of a    *)
(* change of SSRC, which is where the locks are needed.                    *)
(***************************************************************************)
EXTENDS Session, SequenceTheorems, TLAPS

(* In the middle of a change the packet that caused it is still to be      *)
(* taken off the batch, and another SSRC can be drawn; in the middle of a  *)
(* SendPacket call the thread carries an SSRC.                             *)
Midway ==
  /\ pc[Poll] \in {"collided", "byebuilt", "newssrc"} => batch > 0
  /\ pc[Poll] \in {"collided", "byebuilt"} => ssrc < MaxSSRC
  /\ \A t \in Thread : pc[t] # "idle" => carried[t] # 0

(* No SSRC is in use before it was drawn.                                  *)
Drawn ==
  /\ \A t \in Thread : carried[t] <= ssrc
  /\ \A g \in returned : g <= ssrc

(* The flag stands for the calls that have returned: between the draw of a *)
(* new SSRC and the reset of the flag no call that used it can return,     *)
(* because it would need SOURCES_LOCK.                                     *)
FlagCovers ==
  /\ (pc[Poll] # "newssrc" /\ ssrc \in returned) => sentpackets
  /\ pc[Poll] = "newssrc" =>
       /\ ssrc \notin returned
       /\ \A t \in Thread : pc[t] = "counted" => carried[t] # ssrc
  /\ (pc[Poll] = "collided" /\ ssrc \in owed) =>
       \/ hassent
       \/ ssrc \in Queued \cup said \cup lost

(* The BYE packets in the order of their SSRCs, all of earlier ones unless *)
(* the poll thread is between BuildBYE and CreateNewSSRC or the session is *)
(* over.                                                                   *)
QueueOrdered ==
  /\ \A g \in Queued : /\ g <= ssrc
                       /\ pc[Poll] \notin {"byebuilt", "leaving"} => g < ssrc
  /\ \A g \in said \cup lost :
       /\ g <= ssrc
       /\ pc[Poll] \notin {"leaving", "closed"} => g < ssrc
  /\ OneByeEach

(* The backoff runs exactly when a BYE packet waits, as long as the poll   *)
(* thread is alive.                                                        *)
Scheduled ==
  /\ pc[Poll] \notin {"dead", "leaving"} =>
       (byescheduled <=> byepackets # <<>>)
  /\ pc[Poll] = "closed" => byepackets = <<>>

(* The entry of an address in the collision list has the age of its last   *)
(* collision; an address without one has been quiet for the whole delay.   *)
ListExact ==
  \A a \in Addr :
    IF collisions[a] = Absent
    THEN pc[Poll] # "closed" => heard[a] > CollDelay
    ELSE pc[Poll] # "closed" /\ collisions[a] = heard[a]

(***************************************************************************)
(* What the queue operations do to the set of queued SSRCs.                *)
(***************************************************************************)
LEMMA PushQueue ==
  ASSUME NEW S, NEW q \in Seq(S), NEW x \in S
  PROVE  /\ Append(q, x) \in Seq(S)
         /\ Append(q, x) # <<>>
         /\ Range(Append(q, x)) = Range(q) \cup {x}
<1>1. /\ Append(q, x) \in Seq(S)
      /\ Len(Append(q, x)) = Len(q) + 1
      /\ \A i \in 1 .. Len(q) : Append(q, x)[i] = q[i]
      /\ Append(q, x)[Len(q) + 1] = x
      /\ DOMAIN Append(q, x) = 1 .. Len(q) + 1
      /\ DOMAIN q = 1 .. Len(q)
      /\ Len(q) \in Nat
  OBVIOUS
<1>2. Range(Append(q, x)) = Range(q) \cup {x}
  <2>1. ASSUME NEW y \in Range(Append(q, x)) PROVE y \in Range(q) \cup {x}
    BY <1>1, <2>1 DEF Range
  <2>2. ASSUME NEW y \in Range(q) PROVE y \in Range(Append(q, x))
    <3>1. PICK i \in 1 .. Len(q) : y = q[i]
      BY <1>1, <2>2 DEF Range
    <3>2. i \in DOMAIN Append(q, x) /\ Append(q, x)[i] = y
      BY <1>1, <3>1
    <3> QED BY <3>2 DEF Range
  <2>3. x \in Range(Append(q, x))
    <3>1. Len(q) + 1 \in DOMAIN Append(q, x)
      BY <1>1
    <3> QED BY <1>1, <3>1 DEF Range
  <2> QED BY <2>1, <2>2, <2>3
<1>3. Append(q, x) # <<>>
  BY <1>1
<1> QED BY <1>1, <1>2, <1>3

LEMMA PopQueue ==
  ASSUME NEW S, NEW q \in Seq(S), q # <<>>
  PROVE  /\ Head(q) \in S
         /\ Tail(q) \in Seq(S)
         /\ Range(q) = Range(Tail(q)) \cup {Head(q)}
<1>1. /\ Len(q) \in Nat \ {0}
      /\ Head(q) = q[1]
      /\ Head(q) \in S
      /\ Tail(q) \in Seq(S)
      /\ DOMAIN q = 1 .. Len(q)
      /\ DOMAIN Tail(q) = 1 .. Len(q) - 1
      /\ \A i \in 1 .. Len(q) - 1 : Tail(q)[i] = q[i + 1]
  OBVIOUS
<1>2. ASSUME NEW y \in Range(q) PROVE y \in Range(Tail(q)) \cup {Head(q)}
  <2>1. PICK i \in 1 .. Len(q) : y = q[i]
    BY <1>1, <1>2 DEF Range
  <2>2. CASE i = 1
    BY <1>1, <2>1, <2>2
  <2>3. CASE i # 1
    <3>1. i - 1 \in DOMAIN Tail(q) /\ Tail(q)[i - 1] = y
      BY <1>1, <2>1, <2>3
    <3> QED BY <3>1 DEF Range
  <2> QED BY <2>2, <2>3
<1>3. ASSUME NEW y \in Range(Tail(q)) PROVE y \in Range(q)
  <2>1. PICK i \in 1 .. Len(q) - 1 : y = Tail(q)[i]
    BY <1>1, <1>3 DEF Range
  <2>2. i + 1 \in DOMAIN q /\ q[i + 1] = y
    BY <1>1, <2>1
  <2> QED BY <2>2 DEF Range
<1>4. Head(q) \in Range(q)
  <2>1. 1 \in DOMAIN q
    BY <1>1
  <2> QED BY <1>1, <2>1 DEF Range
<1> QED BY <1>1, <1>2, <1>3, <1>4

LEMMA QueueRange ==
  /\ Range(<<>>) = {}
  /\ \A S : \A q \in Seq(S) : Range(q) \subseteq S
BY DEF Range

-----------------------------------------------------------------------------
(* Type correctness, part by part.                                         *)

LEMMA InitTypes == Init => TypeOK /\ Midway
<1> SUFFICES ASSUME Init PROVE TypeOK /\ Midway
  OBVIOUS
<1>1. SSRCsOK /\ GhostsOK
  BY SessionAssumption DEF Init, SSRCsOK, GhostsOK, SSRCs
<1>5. FlagsOK
  BY DEF Init, FlagsOK
<1>6. QueueOK
  BY DEF Init, QueueOK
<1>2. PlacesOK
  BY SessionAssumption DEF Init, PlacesOK, PollPlaces, ThreadPlaces
<1>3. ListOK
  BY SessionAssumption DEF Init, ListOK, Ages, Absent
<1>4. Midway
  BY SessionAssumption DEF Init, Midway
<1> QED BY <1>1, <1>2, <1>3, <1>4, <1>5, <1>6 DEF TypeOK

(* The SSRCs in use and the batch. *)
LEMMA SSRCsStep ==
  ASSUME TypeOK, Midway, [Next]_vars
  PROVE  SSRCsOK'
<1>1. ASSUME NEW t \in Thread, BuildAndSend(t)
      PROVE  SSRCsOK'
  BY <1>1 DEF BuildAndSend, Go, TypeOK, SSRCsOK
<1>2. ASSUME NEW t \in Thread, MarkSent(t)
      PROVE  SSRCsOK'
  BY <1>2 DEF MarkSent, Go, TypeOK, SSRCsOK
<1>3. ASSUME NEW n \in 0 .. MaxBatch, GetPackets(n)
      PROVE  SSRCsOK'
  BY <1>3 DEF GetPackets, Go, TypeOK, SSRCsOK
<1>4. CASE OrdinaryPacket
  BY <1>4, SessionAssumption DEF OrdinaryPacket, Go, TypeOK, SSRCsOK
<1>5. ASSUME NEW a \in Addr, KnownCollision(a)
      PROVE  SSRCsOK'
  BY <1>5, SessionAssumption DEF KnownCollision, Go, TypeOK, SSRCsOK
<1>6. CASE CreateNewSSRC
  BY <1>6, SessionAssumption DEF CreateNewSSRC, Go, At, TypeOK, SSRCsOK,
     Midway, SSRCs
<1>7. CASE ChangeOwnEntry
  BY <1>7, SessionAssumption DEF ChangeOwnEntry, Go, At, TypeOK, SSRCsOK,
     Midway
<1>8. CASE Destroy
  BY <1>8 DEF Destroy, Go, TypeOK, SSRCsOK
<1>9. CASE Create
  BY <1>9, SessionAssumption DEF Create, Go, TypeOK, SSRCsOK, SSRCs
<1>10. CASE UNCHANGED vars \/ (\E t \in Thread : SentRTPPacket(t))
             \/ (\E a \in Addr : NewCollision(a)) \/ BuildBYE
             \/ BuildBYEFails \/ NotTime \/ SendReport \/ SendBYE
             \/ SendFails \/ PollError \/ BYEDestroy \/ LeaveSend \/ Tick
  BY <1>10 DEF vars, SentRTPPacket, NewCollision, BuildBYE, BuildBYEFails,
     NotTime, SendReport, SendBYE, SendFails, PollError, BYEDestroy,
     LeaveSend, Tick, Go, TypeOK, SSRCsOK
<1> QED
  BY <1>1, <1>2, <1>3, <1>4, <1>5, <1>6, <1>7, <1>8, <1>9, <1>10 DEF Next,
     SendPacket, PollStep, TakePacket

(* The flags. *)
LEMMA FlagsStep ==
  ASSUME TypeOK, [Next]_vars
  PROVE  FlagsOK'
<1>1. CASE BuildBYE
  BY <1>1 DEF BuildBYE, QueueBYE, Go, leaving, TypeOK, FlagsOK
<1>2. CASE NotTime
  BY <1>2 DEF NotTime, Timeouts, Go, leaving, TypeOK, FlagsOK
<1>3. CASE SendReport
  BY <1>3 DEF SendReport, Timeouts, Go, TypeOK, FlagsOK
<1>4. CASE SendBYE
  BY <1>4 DEF SendBYE, Timeouts, Go, TypeOK, FlagsOK
<1>5. CASE SendFails
  BY <1>5 DEF SendFails, Timeouts, Go, TypeOK, FlagsOK
<1>6. CASE BYEDestroy
  BY <1>6 DEF BYEDestroy, QueueBYE, Go, leaving, TypeOK, FlagsOK
<1>7. CASE LeaveSend
  BY <1>7 DEF LeaveSend, Go, TypeOK, FlagsOK
<1>8. CASE UNCHANGED vars \/ (\E t \in Thread : BuildAndSend(t))
             \/ (\E t \in Thread : SentRTPPacket(t))
             \/ (\E t \in Thread : MarkSent(t))
             \/ (\E n \in 0 .. MaxBatch : GetPackets(n)) \/ OrdinaryPacket
             \/ (\E a \in Addr : KnownCollision(a))
             \/ (\E a \in Addr : NewCollision(a)) \/ BuildBYEFails
             \/ CreateNewSSRC \/ ChangeOwnEntry \/ PollError \/ Destroy
             \/ Create \/ Tick
  BY <1>8 DEF vars, BuildAndSend, SentRTPPacket, MarkSent, GetPackets,
     OrdinaryPacket, KnownCollision, NewCollision, BuildBYEFails,
     CreateNewSSRC, ChangeOwnEntry, PollError, Destroy, Create, Tick, Go,
     leaving, TypeOK, FlagsOK
<1> QED
  BY <1>1, <1>2, <1>3, <1>4, <1>5, <1>6, <1>7, <1>8 DEF Next, SendPacket,
     PollStep, TakePacket

(* The queue. *)
LEMMA QueueStep ==
  ASSUME TypeOK, [Next]_vars
  PROVE  QueueOK'
<1>1. CASE BuildBYE
  <2>1. QueueBYE \/ UNCHANGED leaving
    BY <1>1 DEF BuildBYE
  <2> QED BY <2>1, PushQueue DEF QueueBYE, leaving, TypeOK, QueueOK, SSRCsOK
<1>2. CASE SendBYE
  BY <1>2, PopQueue DEF SendBYE, Go, TypeOK, QueueOK
<1>3. CASE SendFails
  BY <1>3, PopQueue DEF SendFails, Go, TypeOK, QueueOK
<1>4. CASE BYEDestroy
  <2>1. QueueBYE \/ UNCHANGED leaving
    BY <1>4 DEF BYEDestroy
  <2> QED BY <2>1, PushQueue DEF QueueBYE, leaving, TypeOK, QueueOK, SSRCsOK
<1>5. CASE LeaveSend
  BY <1>5, PopQueue DEF LeaveSend, Go, TypeOK, QueueOK
<1>6. CASE Destroy
  BY <1>6 DEF Destroy, Go, QueueOK
<1>7. CASE UNCHANGED vars \/ (\E t \in Thread : BuildAndSend(t))
             \/ (\E t \in Thread : SentRTPPacket(t))
             \/ (\E t \in Thread : MarkSent(t))
             \/ (\E n \in 0 .. MaxBatch : GetPackets(n)) \/ OrdinaryPacket
             \/ (\E a \in Addr : KnownCollision(a))
             \/ (\E a \in Addr : NewCollision(a)) \/ BuildBYEFails
             \/ CreateNewSSRC \/ ChangeOwnEntry \/ NotTime \/ SendReport
             \/ PollError \/ Create \/ Tick
  BY <1>7 DEF vars, BuildAndSend, SentRTPPacket, MarkSent, GetPackets,
     OrdinaryPacket, KnownCollision, NewCollision, BuildBYEFails,
     CreateNewSSRC, ChangeOwnEntry, NotTime, SendReport, PollError, Create,
     Tick, Go, leaving, TypeOK, QueueOK
<1> QED
  BY <1>1, <1>2, <1>3, <1>4, <1>5, <1>6, <1>7 DEF Next, SendPacket, PollStep,
     TakePacket

(* The collision list and what was heard. *)
LEMMA ListStep ==
  ASSUME TypeOK, [Next]_vars
  PROVE  ListOK'
<1>1. ASSUME NEW a \in Addr, KnownCollision(a)
      PROVE  ListOK'
  BY <1>1, SessionAssumption DEF KnownCollision, Go, TypeOK, ListOK, Ages,
     Absent
<1>2. ASSUME NEW a \in Addr, NewCollision(a)
      PROVE  ListOK'
  BY <1>2, SessionAssumption DEF NewCollision, Go, TypeOK, ListOK, Ages,
     Absent
<1>3. CASE NotTime
  BY <1>3 DEF NotTime, Timeouts, Go, ghosts, TypeOK, ListOK, Ages, Absent
<1>4. CASE SendReport
  BY <1>4 DEF SendReport, Timeouts, Go, ghosts, TypeOK, ListOK, Ages, Absent
<1>5. CASE SendBYE
  BY <1>5 DEF SendBYE, Timeouts, Go, ghosts, TypeOK, ListOK, Ages, Absent
<1>6. CASE SendFails
  BY <1>6 DEF SendFails, Timeouts, Go, ghosts, TypeOK, ListOK, Ages, Absent
<1>7. CASE Destroy
  BY <1>7 DEF Destroy, Go, ghosts, TypeOK, ListOK, Ages, Absent
<1>8. CASE Create
  BY <1>8, SessionAssumption DEF Create, Go, TypeOK, ListOK, Ages, Absent
<1>9. CASE Tick
  BY <1>9, SessionAssumption DEF Tick, Older, Go, TypeOK, ListOK, Ages, Absent
<1>10. CASE UNCHANGED vars \/ (\E t \in Thread : BuildAndSend(t))
             \/ (\E t \in Thread : SentRTPPacket(t))
             \/ (\E t \in Thread : MarkSent(t))
             \/ (\E n \in 0 .. MaxBatch : GetPackets(n)) \/ OrdinaryPacket
             \/ BuildBYE \/ BuildBYEFails \/ CreateNewSSRC
             \/ ChangeOwnEntry \/ PollError \/ BYEDestroy \/ LeaveSend
  BY <1>10 DEF vars, BuildAndSend, SentRTPPacket, MarkSent, GetPackets,
     OrdinaryPacket, BuildBYE, BuildBYEFails, CreateNewSSRC, ChangeOwnEntry,
     PollError, BYEDestroy, LeaveSend, Go, ghosts, TypeOK, ListOK, Ages,
     Absent
<1> QED
  BY <1>1, <1>2, <1>3, <1>4, <1>5, <1>6, <1>7, <1>8, <1>9, <1>10 DEF Next,
     SendPacket, PollStep, TakePacket

(* The places of the threads. *)
LEMMA PlacesStep ==
  ASSUME TypeOK, [Next]_vars
  PROVE  PlacesOK'
<1>1. ASSUME NEW t \in Thread, BuildAndSend(t)
      PROVE  PlacesOK'
  BY <1>1 DEF BuildAndSend, Go, TypeOK, PlacesOK, PollPlaces, ThreadPlaces
<1>2. ASSUME NEW t \in Thread, SentRTPPacket(t)
      PROVE  PlacesOK'
  BY <1>2 DEF SentRTPPacket, Go, TypeOK, PlacesOK, PollPlaces, ThreadPlaces
<1>3. ASSUME NEW t \in Thread, MarkSent(t)
      PROVE  PlacesOK'
  BY <1>3 DEF MarkSent, Go, TypeOK, PlacesOK, PollPlaces, ThreadPlaces
<1>4. ASSUME NEW n \in 0 .. MaxBatch, GetPackets(n)
      PROVE  PlacesOK'
  BY <1>4 DEF GetPackets, Go, TypeOK, PlacesOK, PollPlaces, ThreadPlaces
<1>5. ASSUME NEW a \in Addr, NewCollision(a)
      PROVE  PlacesOK'
  BY <1>5 DEF NewCollision, Go, TypeOK, PlacesOK, PollPlaces, ThreadPlaces
<1>6. CASE BuildBYE
  BY <1>6 DEF BuildBYE, Go, TypeOK, PlacesOK, PollPlaces, ThreadPlaces
<1>7. CASE BuildBYEFails
  BY <1>7 DEF BuildBYEFails, Go, TypeOK, PlacesOK, PollPlaces, ThreadPlaces
<1>8. CASE CreateNewSSRC
  BY <1>8 DEF CreateNewSSRC, Go, TypeOK, PlacesOK, PollPlaces, ThreadPlaces
<1>9. CASE ChangeOwnEntry
  BY <1>9 DEF ChangeOwnEntry, Go, TypeOK, PlacesOK, PollPlaces, ThreadPlaces
<1>10. CASE NotTime
  BY <1>10 DEF NotTime, Go, TypeOK, PlacesOK, PollPlaces, ThreadPlaces
<1>11. CASE SendReport
  BY <1>11 DEF SendReport, Go, TypeOK, PlacesOK, PollPlaces, ThreadPlaces
<1>12. CASE SendBYE
  BY <1>12 DEF SendBYE, Go, TypeOK, PlacesOK, PollPlaces, ThreadPlaces
<1>13. CASE SendFails
  BY <1>13 DEF SendFails, Go, TypeOK, PlacesOK, PollPlaces, ThreadPlaces
<1>14. CASE PollError
  BY <1>14 DEF PollError, Go, TypeOK, PlacesOK, PollPlaces, ThreadPlaces
<1>15. CASE BYEDestroy
  BY <1>15 DEF BYEDestroy, Go, TypeOK, PlacesOK, PollPlaces, ThreadPlaces
<1>16. CASE Destroy
  BY <1>16 DEF Destroy, Go, TypeOK, PlacesOK, PollPlaces, ThreadPlaces
<1>17. CASE Create
  BY <1>17 DEF Create, Go, TypeOK, PlacesOK, PollPlaces, ThreadPlaces
<1>18. CASE UNCHANGED vars \/ OrdinaryPacket
             \/ (\E a \in Addr : KnownCollision(a)) \/ LeaveSend \/ Tick
  BY <1>18 DEF vars, OrdinaryPacket, KnownCollision, LeaveSend, Tick, Go,
     TypeOK, PlacesOK, PollPlaces, ThreadPlaces
<1> QED
  BY <1>1, <1>2, <1>3, <1>4, <1>5, <1>6, <1>7, <1>8, <1>9, <1>10, <1>11, 
     <1>12, <1>13, <1>14, <1>15, <1>16, <1>17, <1>18
  DEF Next, SendPacket, PollStep, TakePacket

(* What was observed. *)
LEMMA GhostsStep ==
  ASSUME TypeOK, Midway, [Next]_vars
  PROVE  GhostsOK'
<1>1. ASSUME NEW t \in Thread, BuildAndSend(t)
      PROVE  GhostsOK'
  BY <1>1 DEF BuildAndSend, Go, ghosts, TypeOK, GhostsOK, SSRCsOK
<1>2. ASSUME NEW t \in Thread, MarkSent(t)
      PROVE  GhostsOK'
  BY <1>2 DEF MarkSent, Go, At, network, TypeOK, GhostsOK, SSRCsOK, Midway
<1>3. ASSUME NEW a \in Addr, NewCollision(a)
      PROVE  GhostsOK'
  BY <1>3 DEF NewCollision, Go, network, TypeOK, GhostsOK
<1>4. CASE BuildBYEFails
  BY <1>4 DEF BuildBYEFails, Go, network, TypeOK, GhostsOK
<1>5. CASE SendReport
  BY <1>5 DEF SendReport, Go, ghosts, TypeOK, GhostsOK, SSRCsOK
<1>6. CASE SendBYE
  BY <1>6, PopQueue DEF SendBYE, Go, ghosts, TypeOK, GhostsOK, QueueOK
<1>7. CASE SendFails
  BY <1>7, PopQueue DEF SendFails, Go, ghosts, TypeOK, GhostsOK, QueueOK
<1>8. CASE BYEDestroy
  BY <1>8 DEF BYEDestroy, Go, network, TypeOK, GhostsOK
<1>9. CASE LeaveSend
  BY <1>9, PopQueue DEF LeaveSend, Go, ghosts, TypeOK, GhostsOK, QueueOK
<1>10. CASE Destroy
  BY <1>10, QueueRange DEF Destroy, Go, ghosts, TypeOK, GhostsOK, QueueOK,
     Queued
<1>11. CASE UNCHANGED vars \/ (\E t \in Thread : SentRTPPacket(t))
             \/ (\E n \in 0 .. MaxBatch : GetPackets(n)) \/ OrdinaryPacket
             \/ (\E a \in Addr : KnownCollision(a)) \/ BuildBYE
             \/ CreateNewSSRC \/ ChangeOwnEntry \/ NotTime \/ PollError
             \/ Create \/ Tick
  BY <1>11 DEF vars, SentRTPPacket, GetPackets, OrdinaryPacket,
     KnownCollision, BuildBYE, CreateNewSSRC, ChangeOwnEntry, NotTime,
     PollError, Create, Tick, Go, network, ghosts, TypeOK, GhostsOK
<1> QED
  BY <1>1, <1>2, <1>3, <1>4, <1>5, <1>6, <1>7, <1>8, <1>9, <1>10, <1>11 DEF
     Next, SendPacket, PollStep, TakePacket

(* The middle of a change. *)
LEMMA MidwayStep ==
  ASSUME TypeOK, Midway, [Next]_vars
  PROVE  Midway'
<1>1. ASSUME NEW t \in Thread, BuildAndSend(t)
      PROVE  Midway'
  BY <1>1 DEF BuildAndSend, Go, TypeOK, SSRCsOK, Midway, SSRCs
<1>2. ASSUME NEW t \in Thread, SentRTPPacket(t)
      PROVE  Midway'
  BY <1>2 DEF SentRTPPacket, Go, At, Midway
<1>3. ASSUME NEW t \in Thread, MarkSent(t)
      PROVE  Midway'
  BY <1>3 DEF MarkSent, Go, TypeOK, PlacesOK, Midway
<1>4. ASSUME NEW n \in 0 .. MaxBatch, GetPackets(n)
      PROVE  Midway'
  BY <1>4, SessionAssumption DEF GetPackets, Go, TypeOK, PlacesOK, Midway
<1>5. CASE OrdinaryPacket
  BY <1>5 DEF OrdinaryPacket, Go, At, Midway
<1>6. ASSUME NEW a \in Addr, KnownCollision(a)
      PROVE  Midway'
  BY <1>6 DEF KnownCollision, Go, At, Midway
<1>7. ASSUME NEW a \in Addr, NewCollision(a)
      PROVE  Midway'
  BY <1>7, SessionAssumption DEF NewCollision, Go, Midway
<1>8. CASE BuildBYE
  BY <1>8 DEF BuildBYE, Go, At, Midway
<1>9. CASE BuildBYEFails
  BY <1>9, SessionAssumption DEF BuildBYEFails, Go, Midway
<1>10. CASE CreateNewSSRC
  BY <1>10 DEF CreateNewSSRC, Go, At, TypeOK, PlacesOK, Midway
<1>11. CASE ChangeOwnEntry
  BY <1>11, SessionAssumption DEF ChangeOwnEntry, Go, TypeOK, PlacesOK, Midway
<1>12. CASE NotTime
  BY <1>12, SessionAssumption DEF NotTime, Go, Midway
<1>13. CASE SendReport
  BY <1>13, SessionAssumption DEF SendReport, Go, Midway
<1>14. CASE SendBYE
  BY <1>14, SessionAssumption DEF SendBYE, Go, Midway
<1>15. CASE SendFails
  BY <1>15, SessionAssumption DEF SendFails, Go, Midway
<1>16. CASE PollError
  BY <1>16, SessionAssumption DEF PollError, Go, Midway
<1>17. CASE BYEDestroy
  BY <1>17, SessionAssumption DEF BYEDestroy, Go, Midway
<1>18. CASE LeaveSend
  BY <1>18 DEF LeaveSend, Go, Midway
<1>19. CASE Destroy
  BY <1>19, SessionAssumption DEF Destroy, Go, Midway
<1>20. CASE Create
  BY <1>20, SessionAssumption DEF Create, Go, TypeOK, PlacesOK, Midway
<1>21. CASE UNCHANGED vars \/ Tick
  BY <1>21 DEF vars, Tick, Go, Midway
<1> QED
  BY <1>1, <1>2, <1>3, <1>4, <1>5, <1>6, <1>7, <1>8, <1>9, <1>10, <1>11, 
     <1>12, <1>13, <1>14, <1>15, <1>16, <1>17, <1>18, <1>19, <1>20, <1>21
  DEF Next, SendPacket, PollStep, TakePacket

LEMMA TypeStep ==
  ASSUME TypeOK, Midway, [Next]_vars
  PROVE  TypeOK' /\ Midway'
<1>1. TypeOK'
  BY SSRCsStep, FlagsStep, QueueStep, ListStep, PlacesStep, GhostsStep DEF
     TypeOK
<1> QED BY <1>1, MidwayStep

LEMMA PushQueued ==
  ASSUME TypeOK, QueueBYE
  PROVE  Queued' = Queued \cup {ssrc}
BY PushQueue DEF QueueBYE, Queued, TypeOK, QueueOK, SSRCsOK

LEMMA PopQueued ==
  ASSUME TypeOK, byepackets # <<>>, byepackets' = Tail(byepackets)
  PROVE  /\ Queued = Queued' \cup {Head(byepackets)}
         /\ Head(byepackets) \in SSRCs
BY PopQueue DEF Queued, TypeOK, QueueOK

LEMMA QueuedSSRCs ==
  ASSUME TypeOK
  PROVE  Queued \subseteq SSRCs
BY QueueRange DEF Queued, TypeOK, QueueOK

LEMMA PushAscending ==
  ASSUME NEW S, S \subseteq Int, NEW q \in Seq(S), NEW x \in S, Ascending(q),
         \A g \in Range(q) : g < x
  PROVE  Ascending(Append(q, x))
<1>1. /\ DOMAIN q = 1 .. Len(q) /\ Len(q) \in Nat
      /\ DOMAIN Append(q, x) = 1 .. Len(q) + 1
      /\ \A i \in 1 .. Len(q) : Append(q, x)[i] = q[i]
      /\ Append(q, x)[Len(q) + 1] = x
  OBVIOUS
<1>2. \A i \in 1 .. Len(q) : q[i] < x
  BY <1>1 DEF Range
<1> QED BY <1>1, <1>2 DEF Ascending

LEMMA PopAscending ==
  ASSUME NEW S, S \subseteq Int, NEW q \in Seq(S), q # <<>>, Ascending(q)
  PROVE  /\ Ascending(Tail(q))
         /\ \A g \in Range(Tail(q)) : Head(q) < g
<1>1. /\ Len(q) \in Nat \ {0} /\ DOMAIN q = 1 .. Len(q)
      /\ Head(q) = q[1]
      /\ DOMAIN Tail(q) = 1 .. Len(q) - 1
      /\ \A i \in 1 .. Len(q) - 1 : Tail(q)[i] = q[i + 1]
  OBVIOUS
<1>2. Ascending(Tail(q))
  BY <1>1 DEF Ascending
<1>3. ASSUME NEW g \in Range(Tail(q)) PROVE Head(q) < g
  <2>1. PICK i \in 1 .. Len(q) - 1 : g = q[i + 1]
    BY <1>1, <1>3 DEF Range
  <2>2. 1 \in DOMAIN q /\ i + 1 \in DOMAIN q /\ 1 < i + 1
    BY <1>1, <2>1
  <2> QED BY <1>1, <2>1, <2>2 DEF Ascending
<1> QED BY <1>2, <1>3

-----------------------------------------------------------------------------
(* The other parts of the inductive invariant.                             *)

(* No SSRC is in use before it was drawn. *)
LEMMA DrawnStep ==
  ASSUME TypeOK, Midway, Drawn, [Next]_vars
  PROVE  Drawn'
<1>1. ASSUME NEW t \in Thread, BuildAndSend(t)
      PROVE  Drawn'
  BY <1>1 DEF BuildAndSend, Go, ghosts, TypeOK, SSRCsOK, SSRCs, Drawn
<1>2. ASSUME NEW t \in Thread, MarkSent(t)
      PROVE  Drawn'
  BY <1>2 DEF MarkSent, Go, TypeOK, SSRCsOK, SSRCs, Drawn
<1>3. CASE CreateNewSSRC
  BY <1>3 DEF CreateNewSSRC, Go, ghosts, TypeOK, SSRCsOK, GhostsOK, SSRCs,
     Drawn
<1>4. CASE Create
  BY <1>4 DEF Create, Go, TypeOK, SSRCsOK, GhostsOK, SSRCs, Drawn
<1>5. CASE UNCHANGED vars \/ (\E t \in Thread : SentRTPPacket(t))
             \/ (\E n \in 0 .. MaxBatch : GetPackets(n)) \/ OrdinaryPacket
             \/ (\E a \in Addr : KnownCollision(a))
             \/ (\E a \in Addr : NewCollision(a)) \/ BuildBYE
             \/ BuildBYEFails \/ ChangeOwnEntry \/ NotTime \/ SendReport
             \/ SendBYE \/ SendFails \/ PollError \/ BYEDestroy
             \/ LeaveSend \/ Destroy \/ Tick
  BY <1>5 DEF vars, SentRTPPacket, GetPackets, OrdinaryPacket, KnownCollision,
     NewCollision, BuildBYE, BuildBYEFails, ChangeOwnEntry, NotTime,
     SendReport, SendBYE, SendFails, PollError, BYEDestroy, LeaveSend,
     Destroy, Tick, Go, ghosts, Drawn
<1> QED
  BY <1>1, <1>2, <1>3, <1>4, <1>5 DEF Next, SendPacket, PollStep, TakePacket

(* OneIdentity. *)
LEMMA OneIdentityStep ==
  ASSUME TypeOK, Midway, OneIdentity, [Next]_vars
  PROVE  OneIdentity'
<1>1. ASSUME NEW t \in Thread, BuildAndSend(t)
      PROVE  OneIdentity'
  BY <1>1, SessionAssumption DEF BuildAndSend, Go, OneIdentity
<1>2. ASSUME NEW t \in Thread, SentRTPPacket(t)
      PROVE  OneIdentity'
  BY <1>2, SessionAssumption DEF SentRTPPacket, Go, OneIdentity
<1>3. ASSUME NEW t \in Thread, MarkSent(t)
      PROVE  OneIdentity'
  BY <1>3, SessionAssumption DEF MarkSent, Go, OneIdentity
<1>4. ASSUME NEW n \in 0 .. MaxBatch, GetPackets(n)
      PROVE  OneIdentity'
  BY <1>4 DEF GetPackets, Go, At, OneIdentity
<1>5. ASSUME NEW a \in Addr, NewCollision(a)
      PROVE  OneIdentity'
  BY <1>5 DEF NewCollision, Go, At, OneIdentity
<1>6. CASE BuildBYE
  BY <1>6 DEF BuildBYE, Go, At, OneIdentity
<1>7. CASE BuildBYEFails
  BY <1>7 DEF BuildBYEFails, Go, At, OneIdentity
<1>8. CASE CreateNewSSRC
  BY <1>8 DEF CreateNewSSRC, Go, TypeOK, PlacesOK, OneIdentity
<1>9. CASE ChangeOwnEntry
  BY <1>9 DEF ChangeOwnEntry, Go, OneIdentity
<1>10. CASE NotTime
  BY <1>10 DEF NotTime, Timeouts, Go, At, OneIdentity
<1>11. CASE SendReport
  BY <1>11 DEF SendReport, Timeouts, Go, At, OneIdentity
<1>12. CASE SendBYE
  BY <1>12 DEF SendBYE, Timeouts, Go, At, OneIdentity
<1>13. CASE SendFails
  BY <1>13 DEF SendFails, Timeouts, Go, At, OneIdentity
<1>14. CASE PollError
  BY <1>14 DEF PollError, Go, At, OneIdentity
<1>15. CASE BYEDestroy
  BY <1>15 DEF BYEDestroy, Stoppable, SourcesFree, Go, OneIdentity
<1>16. CASE Destroy
  BY <1>16 DEF Destroy, Go, TypeOK, PlacesOK, OneIdentity
<1>17. CASE Create
  BY <1>17 DEF Create, Go, OneIdentity
<1>18. CASE UNCHANGED vars \/ OrdinaryPacket
             \/ (\E a \in Addr : KnownCollision(a)) \/ LeaveSend \/ Tick
  BY <1>18 DEF vars, OrdinaryPacket, KnownCollision, LeaveSend, Tick, Go,
     OneIdentity
<1> QED
  BY <1>1, <1>2, <1>3, <1>4, <1>5, <1>6, <1>7, <1>8, <1>9, <1>10, <1>11, 
     <1>12, <1>13, <1>14, <1>15, <1>16, <1>17, <1>18
  DEF Next, SendPacket, PollStep, TakePacket

(* FlagCovers. *)
LEMMA FlagCoversStep ==
  ASSUME TypeOK, Midway, Drawn, OwedByes, FlagCovers, [Next]_vars
  PROVE  FlagCovers'
<1>1. ASSUME NEW t \in Thread, BuildAndSend(t)
      PROVE  FlagCovers'
  BY <1>1 DEF BuildAndSend, Go, leaving, ghosts, TypeOK, PlacesOK, FlagCovers,
     OwedByes, Queued
<1>2. ASSUME NEW t \in Thread, SentRTPPacket(t)
      PROVE  FlagCovers'
  BY <1>2 DEF SentRTPPacket, SourcesFree, Go, ghosts, FlagCovers, OwedByes
<1>3. ASSUME NEW t \in Thread, MarkSent(t)
      PROVE  FlagCovers'
  BY <1>3 DEF MarkSent, Go, At, leaving, network, TypeOK, PlacesOK,
     FlagCovers, OwedByes, Queued
<1>4. ASSUME NEW n \in 0 .. MaxBatch, GetPackets(n)
      PROVE  FlagCovers'
  BY <1>4 DEF GetPackets, Go, ghosts, TypeOK, PlacesOK, FlagCovers, OwedByes
<1>5. ASSUME NEW a \in Addr, NewCollision(a)
      PROVE  FlagCovers'
  BY <1>5 DEF NewCollision, Go, At, leaving, network, FlagCovers, OwedByes,
     Queued
<1>6. CASE BuildBYE
  BY <1>6, PushQueue DEF BuildBYE, Go, ghosts, TypeOK, PlacesOK, FlagCovers,
     OwedByes
<1>7. CASE BuildBYEFails
  BY <1>7 DEF BuildBYEFails, Go, FlagCovers, OwedByes
<1>8. CASE CreateNewSSRC
  BY <1>8 DEF CreateNewSSRC, Go, ghosts, TypeOK, SSRCsOK, PlacesOK, SSRCs,
     Drawn, FlagCovers, OwedByes
<1>9. CASE ChangeOwnEntry
  BY <1>9 DEF ChangeOwnEntry, Go, At, ghosts, FlagCovers, OwedByes
<1>10. CASE NotTime
  BY <1>10 DEF NotTime, Go, ghosts, TypeOK, PlacesOK, FlagCovers, OwedByes
<1>11. CASE SendReport
  BY <1>11 DEF SendReport, Go, TypeOK, PlacesOK, FlagCovers, OwedByes
<1>12. CASE SendBYE
  BY <1>12, PopQueue DEF SendBYE, Go, TypeOK, PlacesOK, FlagCovers, OwedByes
<1>13. CASE SendFails
  BY <1>13, PopQueue DEF SendFails, Go, ghosts, TypeOK, PlacesOK, FlagCovers,
     OwedByes
<1>14. CASE PollError
  BY <1>14 DEF PollError, Go, ghosts, TypeOK, PlacesOK, FlagCovers, OwedByes
<1>15. CASE BYEDestroy
  BY <1>15, PushQueue DEF BYEDestroy, Go, TypeOK, PlacesOK, FlagCovers,
     OwedByes
<1>16. CASE LeaveSend
  BY <1>16, PopQueue DEF LeaveSend, Go, ghosts, TypeOK, QueueOK, FlagCovers,
     OwedByes, Queued
<1>17. CASE Destroy
  BY <1>17 DEF Destroy, Go, ghosts, FlagCovers, OwedByes
<1>18. CASE Create
  BY <1>18 DEF Create, Go, TypeOK, SSRCsOK, PlacesOK, SSRCs, Drawn,
     FlagCovers, OwedByes
<1>19. CASE UNCHANGED vars \/ OrdinaryPacket
             \/ (\E a \in Addr : KnownCollision(a)) \/ Tick
  BY <1>19 DEF vars, OrdinaryPacket, KnownCollision, Tick, Go, leaving,
     network, ghosts, FlagCovers, OwedByes, Queued
<1> QED
  BY <1>1, <1>2, <1>3, <1>4, <1>5, <1>6, <1>7, <1>8, <1>9, <1>10, <1>11, 
     <1>12, <1>13, <1>14, <1>15, <1>16, <1>17, <1>18, <1>19
  DEF Next, SendPacket, PollStep, TakePacket

(* OwedByes. *)
LEMMA OwedByesStep ==
  ASSUME TypeOK, Midway, FlagCovers, OwedByes, [Next]_vars
  PROVE  OwedByes'
<1>1. ASSUME NEW t \in Thread, BuildAndSend(t)
      PROVE  OwedByes'
  BY <1>1 DEF BuildAndSend, Go, At, leaving, ghosts, OwedByes, Queued
<1>2. ASSUME NEW t \in Thread, SentRTPPacket(t)
      PROVE  OwedByes'
  BY <1>2 DEF SentRTPPacket, Go, At, leaving, network, ghosts, OwedByes,
     Queued
<1>3. ASSUME NEW t \in Thread, MarkSent(t)
      PROVE  OwedByes'
  BY <1>3 DEF MarkSent, Go, At, leaving, network, OwedByes, Queued
<1>4. ASSUME NEW n \in 0 .. MaxBatch, GetPackets(n)
      PROVE  OwedByes'
  BY <1>4 DEF GetPackets, Go, At, leaving, network, ghosts, OwedByes, Queued
<1>5. ASSUME NEW a \in Addr, NewCollision(a)
      PROVE  OwedByes'
  BY <1>5 DEF NewCollision, Go, At, leaving, network, TypeOK, PlacesOK,
     OwedByes, Queued
<1>6. CASE BuildBYE
  <2>1. CASE hassent
    <3>1. QueueBYE
      BY <1>6, <2>1 DEF BuildBYE
    <3>2. said' = said /\ lost' = lost
      BY <1>6 DEF BuildBYE, network
    <3>3. owed' \subseteq owed \cup {ssrc}
      BY <1>6, <2>1 DEF BuildBYE, ghosts
    <3>4. ssrc' = ssrc
      BY <1>6 DEF BuildBYE
    <3> QED BY <3>1, <3>2, <3>3, <3>4, PushQueued DEF OwedByes
  <2>2. CASE ~hassent
    BY <1>6, <2>2 DEF BuildBYE, Go, At, leaving, network, ghosts, FlagCovers,
       OwedByes, Queued
  <2> QED BY <2>1, <2>2
<1>7. CASE BuildBYEFails
  BY <1>7 DEF BuildBYEFails, Go, leaving, network, OwedByes, Queued
<1>8. CASE CreateNewSSRC
  BY <1>8 DEF CreateNewSSRC, Go, At, leaving, network, ghosts, OwedByes,
     Queued
<1>9. CASE ChangeOwnEntry
  BY <1>9 DEF ChangeOwnEntry, Go, At, leaving, network, ghosts, OwedByes,
     Queued
<1>10. CASE NotTime
  BY <1>10 DEF NotTime, Timeouts, Go, At, leaving, network, ghosts, OwedByes,
     Queued
<1>11. CASE SendReport
  BY <1>11 DEF SendReport, Timeouts, Go, At, ghosts, OwedByes, Queued
<1>12. CASE SendBYE
  BY <1>12, PopQueue DEF SendBYE, Timeouts, Go, At, ghosts, TypeOK, QueueOK,
     OwedByes, Queued
<1>13. CASE SendFails
  BY <1>13, PopQueue DEF SendFails, Timeouts, Go, At, ghosts, TypeOK, QueueOK,
     OwedByes, Queued
<1>14. CASE PollError
  BY <1>14 DEF PollError, Go, At, leaving, network, ghosts, OwedByes, Queued
<1>15. CASE BYEDestroy
  <2>1. CASE sentpackets
    <3>1. QueueBYE
      BY <1>15, <2>1 DEF BYEDestroy
    <3>2. said' = said /\ lost' = lost
      BY <1>15 DEF BYEDestroy, network
    <3>3. owed' \subseteq owed \cup {ssrc}
      BY <1>15, <2>1 DEF BYEDestroy
    <3>4. ssrc' = ssrc
      BY <1>15 DEF BYEDestroy
    <3> QED BY <3>1, <3>2, <3>3, <3>4, PushQueued DEF OwedByes
  <2>2. CASE ~sentpackets
    BY <1>15, <2>2 DEF BYEDestroy, Go, At, leaving, network, OwedByes, Queued,
       Stoppable, SourcesFree
  <2> QED BY <2>1, <2>2
<1>16. CASE LeaveSend
  BY <1>16, PopQueue DEF LeaveSend, Go, At, ghosts, TypeOK, QueueOK, OwedByes,
     Queued
<1>17. CASE Destroy
  BY <1>17 DEF Destroy, Stoppable, SourcesFree, Go, At, ghosts, OwedByes
<1>18. CASE Create
  BY <1>18 DEF Create, Go, At, leaving, network, OwedByes, Queued
<1>19. CASE UNCHANGED vars \/ OrdinaryPacket
             \/ (\E a \in Addr : KnownCollision(a)) \/ Tick
  BY <1>19 DEF vars, OrdinaryPacket, KnownCollision, Tick, Go, At, leaving,
     network, ghosts, OwedByes, Queued
<1> QED
  BY <1>1, <1>2, <1>3, <1>4, <1>5, <1>6, <1>7, <1>8, <1>9, <1>10, <1>11, 
     <1>12, <1>13, <1>14, <1>15, <1>16, <1>17, <1>18, <1>19
  DEF Next, SendPacket, PollStep, TakePacket

(* Scheduled. *)
LEMMA ScheduledStep ==
  ASSUME TypeOK, Midway, Scheduled, [Next]_vars
  PROVE  Scheduled'
<1>1. ASSUME NEW t \in Thread, BuildAndSend(t)
      PROVE  Scheduled'
  BY <1>1, SessionAssumption DEF BuildAndSend, Go, leaving, Scheduled
<1>2. ASSUME NEW t \in Thread, SentRTPPacket(t)
      PROVE  Scheduled'
  BY <1>2, SessionAssumption DEF SentRTPPacket, Go, leaving, Scheduled
<1>3. ASSUME NEW t \in Thread, MarkSent(t)
      PROVE  Scheduled'
  BY <1>3, SessionAssumption DEF MarkSent, Go, leaving, Scheduled
<1>4. ASSUME NEW n \in 0 .. MaxBatch, GetPackets(n)
      PROVE  Scheduled'
  BY <1>4 DEF GetPackets, Go, At, leaving, Scheduled
<1>5. ASSUME NEW a \in Addr, NewCollision(a)
      PROVE  Scheduled'
  BY <1>5 DEF NewCollision, Go, At, leaving, Scheduled
<1>6. CASE BuildBYE
  BY <1>6, SessionAssumption, PushQueue DEF BuildBYE, QueueBYE, Go, At,
     leaving, TypeOK, PlacesOK, QueueOK, SSRCsOK, Scheduled
<1>7. CASE BuildBYEFails
  BY <1>7 DEF BuildBYEFails, Go, TypeOK, PlacesOK, Scheduled
<1>8. CASE CreateNewSSRC
  BY <1>8 DEF CreateNewSSRC, Go, At, leaving, Scheduled
<1>9. CASE ChangeOwnEntry
  BY <1>9 DEF ChangeOwnEntry, Go, At, leaving, Scheduled
<1>10. CASE NotTime
  BY <1>10 DEF NotTime, Timeouts, Go, At, leaving, Scheduled
<1>11. CASE SendReport
  BY <1>11 DEF SendReport, Go, Scheduled
<1>12. CASE SendBYE
  BY <1>12 DEF SendBYE, Go, TypeOK, PlacesOK, Scheduled
<1>13. CASE SendFails
  BY <1>13 DEF SendFails, Go, TypeOK, PlacesOK, Scheduled
<1>14. CASE PollError
  BY <1>14 DEF PollError, Go, TypeOK, PlacesOK, Scheduled
<1>15. CASE BYEDestroy
  BY <1>15, PushQueue DEF BYEDestroy, Go, TypeOK, PlacesOK, Scheduled
<1>16. CASE LeaveSend
  BY <1>16 DEF LeaveSend, Go, Scheduled
<1>17. CASE Destroy
  BY <1>17 DEF Destroy, Go, Scheduled
<1>18. CASE Create
  BY <1>18 DEF Create, Go, At, leaving, Scheduled
<1>19. CASE UNCHANGED vars \/ OrdinaryPacket
             \/ (\E a \in Addr : KnownCollision(a)) \/ Tick
  BY <1>19 DEF vars, OrdinaryPacket, KnownCollision, Tick, Go, leaving,
     Scheduled
<1> QED
  BY <1>1, <1>2, <1>3, <1>4, <1>5, <1>6, <1>7, <1>8, <1>9, <1>10, <1>11, 
     <1>12, <1>13, <1>14, <1>15, <1>16, <1>17, <1>18, <1>19
  DEF Next, SendPacket, PollStep, TakePacket

(* ListExact. *)
LEMMA ListExactStep ==
  ASSUME TypeOK, Midway, ListExact, [Next]_vars
  PROVE  ListExact'
<1>1. ASSUME NEW t \in Thread, BuildAndSend(t)
      PROVE  ListExact'
  BY <1>1, SessionAssumption DEF BuildAndSend, Go, ghosts, Ages, Absent,
     ListExact
<1>2. ASSUME NEW t \in Thread, SentRTPPacket(t)
      PROVE  ListExact'
  BY <1>2, SessionAssumption DEF SentRTPPacket, Go, ghosts, Ages, Absent,
     ListExact
<1>3. ASSUME NEW t \in Thread, MarkSent(t)
      PROVE  ListExact'
  BY <1>3, SessionAssumption DEF MarkSent, Go, Ages, Absent, ListExact
<1>4. ASSUME NEW n \in 0 .. MaxBatch, GetPackets(n)
      PROVE  ListExact'
  BY <1>4 DEF GetPackets, Go, At, ghosts, Ages, Absent, ListExact
<1>5. ASSUME NEW a \in Addr, KnownCollision(a)
      PROVE  ListExact'
  BY <1>5 DEF KnownCollision, Go, TypeOK, ListOK, Ages, Absent, ListExact
<1>6. ASSUME NEW a \in Addr, NewCollision(a)
      PROVE  ListExact'
  BY <1>6 DEF NewCollision, Go, At, TypeOK, ListOK, Ages, Absent, ListExact
<1>7. CASE BuildBYE
  BY <1>7 DEF BuildBYE, Go, At, ghosts, Ages, Absent, ListExact
<1>8. CASE BuildBYEFails
  BY <1>8 DEF BuildBYEFails, Go, At, Ages, Absent, ListExact
<1>9. CASE CreateNewSSRC
  BY <1>9 DEF CreateNewSSRC, Go, At, ghosts, Ages, Absent, ListExact
<1>10. CASE ChangeOwnEntry
  BY <1>10 DEF ChangeOwnEntry, Go, At, ghosts, Ages, Absent, ListExact
<1>11. CASE NotTime
  BY <1>11 DEF NotTime, Timeouts, Go, At, ghosts, Ages, Absent, ListExact
<1>12. CASE SendReport
  BY <1>12 DEF SendReport, Timeouts, Go, At, ghosts, Ages, Absent, ListExact
<1>13. CASE SendBYE
  BY <1>13 DEF SendBYE, Timeouts, Go, At, ghosts, Ages, Absent, ListExact
<1>14. CASE SendFails
  BY <1>14 DEF SendFails, Timeouts, Go, At, ghosts, Ages, Absent, ListExact
<1>15. CASE PollError
  BY <1>15 DEF PollError, Go, At, ghosts, Ages, Absent, ListExact
<1>16. CASE BYEDestroy
  BY <1>16 DEF BYEDestroy, Stoppable, SourcesFree, Go, Ages, Absent, ListExact
<1>17. CASE LeaveSend
  BY <1>17 DEF LeaveSend, Go, ghosts, Ages, Absent, ListExact
<1>18. CASE Destroy
  BY <1>18 DEF Destroy, Go, TypeOK, PlacesOK, Ages, Absent, ListExact
<1>19. CASE Create
  BY <1>19, SessionAssumption DEF Create, Go, At, Ages, Absent, ListExact
<1>20. CASE Tick
  BY <1>20, SessionAssumption DEF Tick, Older, Go, Ages, Absent, ListExact
<1>21. CASE UNCHANGED vars \/ OrdinaryPacket
  BY <1>21 DEF vars, OrdinaryPacket, Go, ghosts, Ages, Absent, ListExact
<1> QED
  BY <1>1, <1>2, <1>3, <1>4, <1>5, <1>6, <1>7, <1>8, <1>9, <1>10, <1>11, 
     <1>12, <1>13, <1>14, <1>15, <1>16, <1>17, <1>18, <1>19, <1>20, <1>21
  DEF Next, SendPacket, PollStep, TakePacket

(* A BYE packet for the current SSRC joins the queue.                      *)
LEMMA OrderedPush ==
  ASSUME TypeOK, QueueOrdered, QueueBYE, ssrc' = ssrc, said' = said,
         lost' = lost, pc[Poll] \notin {"byebuilt", "leaving", "closed"},
         pc'[Poll] \in {"byebuilt", "leaving"}
  PROVE  QueueOrdered'
<1>1. Queued' = Queued \cup {ssrc}
  BY PushQueued
<1>2. /\ \A g \in Queued : g < ssrc
      /\ \A g \in said \cup lost : g < ssrc
  BY DEF QueueOrdered
<1>3. Ascending(byepackets')
  <2>1. byepackets \in Seq(SSRCs) /\ ssrc \in SSRCs /\ SSRCs \subseteq Int
    BY DEF TypeOK, QueueOK, SSRCsOK, SSRCs
  <2> QED BY <1>2, <2>1, PushAscending DEF QueueBYE, Queued, QueueOrdered,
     OneByeEach
<1>4. \A g \in Queued', h \in (said \cup lost)' : h < g
  BY <1>1, <1>2 DEF QueueOrdered, OneByeEach
<1>5. OneByeEach'
  BY <1>3, <1>4 DEF QueueOrdered, OneByeEach
<1>6. \A g \in Queued' : g <= ssrc'
  BY <1>1, <1>2 DEF TypeOK, SSRCsOK, SSRCs, QueueOrdered
<1> QED BY <1>2, <1>5, <1>6 DEF QueueOrdered

(* The first one leaves it, to the network or to nowhere.                  *)
LEMMA OrderedPop ==
  ASSUME TypeOK, QueueOrdered, byepackets # <<>>,
         byepackets' = Tail(byepackets), ssrc' = ssrc,
         \/ said' = said \cup {Head(byepackets)} /\ lost' = lost
         \/ lost' = lost \cup {Head(byepackets)} /\ said' = said,
         \/ pc[Poll] = "packets" /\ pc'[Poll] \in {"wait", "dead"}
         \/ pc[Poll] = "leaving" /\ pc'[Poll] = "leaving"
  PROVE  QueueOrdered'
<1>1. /\ Queued = Queued' \cup {Head(byepackets)}
      /\ (said \cup lost)' = said \cup lost \cup {Head(byepackets)}
  BY PopQueued
<1>2. Ascending(byepackets') /\ \A g \in Queued' : Head(byepackets) < g
  <2>1. byepackets \in Seq(SSRCs) /\ SSRCs \subseteq Int
    BY DEF TypeOK, QueueOK, SSRCs
  <2> QED BY <2>1, PopAscending DEF Queued, QueueOrdered, OneByeEach
<1>3. \A g \in Queued', h \in (said \cup lost)' : h < g
  BY <1>1, <1>2 DEF QueueOrdered, OneByeEach
<1>4. Head(byepackets) \notin said \cup lost
  <2>1. \A h \in said \cup lost : h < Head(byepackets)
    BY <1>1 DEF QueueOrdered, OneByeEach
  <2>2. Head(byepackets) \in Int
    BY PopQueued DEF SSRCs
  <2> QED BY <2>1, <2>2
<1>5. said' \cap lost' = {}
  BY <1>4 DEF QueueOrdered, OneByeEach
<1>6. \A g \in Queued' : /\ g <= ssrc'
                         /\ pc'[Poll] \notin {"byebuilt", "leaving"} => g < ssrc'
  BY <1>1 DEF QueueOrdered
<1>7. \A g \in (said \cup lost)' :
        /\ g <= ssrc'
        /\ pc'[Poll] \notin {"leaving", "closed"} => g < ssrc'
  BY <1>1 DEF QueueOrdered
<1>8. OneByeEach'
  <2>1. ssrc' \in Queued' => pc'[Poll] \in {"byebuilt", "leaving"}
    BY <1>6 DEF TypeOK, SSRCsOK, SSRCs
  <2> QED BY <1>2, <1>3, <1>5, <2>1 DEF OneByeEach
<1> QED BY <1>6, <1>7, <1>8 DEF QueueOrdered

(* QueueOrdered. *)
LEMMA QueueOrderedStep ==
  ASSUME TypeOK, Midway, QueueOrdered, Scheduled, [Next]_vars
  PROVE  QueueOrdered'
<1>1. ASSUME NEW t \in Thread, BuildAndSend(t)
      PROVE  QueueOrdered'
  BY <1>1, SessionAssumption DEF BuildAndSend, Go, leaving, QueueOrdered,
     OneByeEach, Queued
<1>2. ASSUME NEW t \in Thread, SentRTPPacket(t)
      PROVE  QueueOrdered'
  BY <1>2, SessionAssumption DEF SentRTPPacket, Go, leaving, network,
     QueueOrdered, OneByeEach, Queued
<1>3. ASSUME NEW t \in Thread, MarkSent(t)
      PROVE  QueueOrdered'
  BY <1>3, SessionAssumption DEF MarkSent, Go, leaving, network, QueueOrdered,
     OneByeEach, Queued
<1>4. ASSUME NEW n \in 0 .. MaxBatch, GetPackets(n)
      PROVE  QueueOrdered'
  BY <1>4 DEF GetPackets, Go, At, leaving, network, QueueOrdered, OneByeEach,
     Queued
<1>5. ASSUME NEW a \in Addr, NewCollision(a)
      PROVE  QueueOrdered'
  BY <1>5 DEF NewCollision, Go, At, leaving, network, QueueOrdered,
     OneByeEach, Queued
<1>6. CASE BuildBYE
  <2>1. CASE hassent
    BY <1>6, <2>1, OrderedPush DEF BuildBYE, Go, At, network, TypeOK, PlacesOK
  <2>2. CASE ~hassent
    BY <1>6, <2>2 DEF BuildBYE, Go, At, leaving, network, QueueOrdered,
       OneByeEach, Queued
  <2> QED BY <2>1, <2>2
<1>7. CASE BuildBYEFails
  BY <1>7 DEF BuildBYEFails, Go, At, leaving, network, QueueOrdered,
     OneByeEach, Queued
<1>8. CASE CreateNewSSRC
  BY <1>8, QueuedSSRCs DEF CreateNewSSRC, Go, leaving, network, TypeOK,
     SSRCsOK, SSRCs, GhostsOK, QueueOrdered, OneByeEach, Queued
<1>9. CASE ChangeOwnEntry
  BY <1>9 DEF ChangeOwnEntry, Go, At, leaving, network, QueueOrdered,
     OneByeEach, Queued
<1>10. CASE NotTime
  BY <1>10 DEF NotTime, Timeouts, Go, At, leaving, network, QueueOrdered,
     OneByeEach, Queued
<1>11. CASE SendReport
  BY <1>11 DEF SendReport, Timeouts, Go, At, QueueOrdered, OneByeEach, Queued
<1>12. CASE SendBYE
  BY <1>12, OrderedPop DEF SendBYE, Timeouts, Go, At, TypeOK, PlacesOK
<1>13. CASE SendFails
  <2>1. CASE byepackets # <<>>
    BY <1>13, <2>1, OrderedPop DEF SendFails, Timeouts, Go, At, TypeOK,
       PlacesOK
  <2>2. CASE byepackets = <<>>
    BY <1>13, <2>2 DEF SendFails, Timeouts, Go, At, QueueOrdered, OneByeEach,
       Queued
  <2> QED BY <2>1, <2>2
<1>14. CASE PollError
  BY <1>14 DEF PollError, Go, At, leaving, network, QueueOrdered, OneByeEach,
     Queued
<1>15. CASE BYEDestroy
  <2>1. CASE sentpackets
    BY <1>15, <2>1, OrderedPush DEF BYEDestroy, Go, network, TypeOK, PlacesOK,
       Stoppable, SourcesFree
  <2>2. CASE ~sentpackets
    BY <1>15, <2>2 DEF BYEDestroy, Go, leaving, network, QueueOrdered,
       OneByeEach, Queued
  <2> QED BY <2>1, <2>2
<1>16. CASE LeaveSend
  BY <1>16, OrderedPop DEF LeaveSend, Go, At
<1>17. CASE Destroy
  <2>1. Queued' = {} /\ Ascending(byepackets')
    BY <1>17, QueueRange DEF Destroy, Queued, Ascending
  <2>2. said' \cap lost' = {}
    <3>1. \A g \in Queued : g \notin said
      BY QueuedSSRCs DEF QueueOrdered, OneByeEach, SSRCs
    <3> QED BY <1>17, <3>1 DEF Destroy, QueueOrdered, OneByeEach
  <2>3. \A g \in (said \cup lost)' : g <= ssrc'
    BY <1>17 DEF Destroy, QueueOrdered
  <2>4. pc'[Poll] = "closed"
    BY <1>17 DEF Destroy, Go, TypeOK, PlacesOK
  <2> QED BY <2>1, <2>2, <2>3, <2>4 DEF QueueOrdered, OneByeEach
<1>18. CASE Create
  BY <1>18, QueuedSSRCs DEF Create, Go, leaving, network, TypeOK, SSRCsOK,
     SSRCs, GhostsOK, QueueOrdered, OneByeEach, Queued
<1>19. CASE UNCHANGED vars \/ OrdinaryPacket
             \/ (\E a \in Addr : KnownCollision(a)) \/ Tick
  BY <1>19 DEF vars, OrdinaryPacket, KnownCollision, Tick, Go, leaving,
     network, QueueOrdered, OneByeEach, Queued
<1> QED
  BY <1>1, <1>2, <1>3, <1>4, <1>5, <1>6, <1>7, <1>8, <1>9, <1>10, <1>11, 
     <1>12, <1>13, <1>14, <1>15, <1>16, <1>17, <1>18, <1>19
  DEF Next, SendPacket, PollStep, TakePacket

-----------------------------------------------------------------------------
(* The inductive invariant and the theorems.                               *)

IInv ==
  /\ TypeOK /\ Midway /\ Drawn /\ OneIdentity
  /\ FlagCovers /\ OwedByes
  /\ QueueOrdered /\ Scheduled /\ ListExact

LEMMA InitIInv == Init => IInv
<1> SUFFICES ASSUME Init PROVE IInv
  OBVIOUS
<1>1. TypeOK /\ Midway
  BY InitTypes
<1>2. Drawn /\ OneIdentity
  BY DEF Init, Drawn, OneIdentity
<1>3. FlagCovers /\ OwedByes
  BY DEF Init, FlagCovers, OwedByes
<1>4. QueueOrdered
  <2>1. Queued = {} /\ said = {} /\ lost = {}
    BY QueueRange DEF Init, Queued
  <2>2. Ascending(byepackets)
    BY DEF Init, Ascending
  <2> QED BY <2>1, <2>2 DEF QueueOrdered, OneByeEach
<1>5. Scheduled
  BY DEF Init, Scheduled
<1>6. ListExact
  BY SessionAssumption DEF Init, ListExact
<1> QED BY <1>1, <1>2, <1>3, <1>4, <1>5, <1>6 DEF IInv

LEMMA NextIInv == IInv /\ [Next]_vars => IInv'
<1> SUFFICES ASSUME IInv, [Next]_vars PROVE IInv'
  OBVIOUS
<1> USE DEF IInv
<1>1. TypeOK' /\ Midway'
  BY TypeStep
<1>2. Drawn' /\ OneIdentity'
  BY DrawnStep, OneIdentityStep
<1>3. FlagCovers' /\ OwedByes'
  BY FlagCoversStep, OwedByesStep
<1>4. QueueOrdered' /\ Scheduled' /\ ListExact'
  BY QueueOrderedStep, ScheduledStep, ListExactStep
<1> QED BY <1>1, <1>2, <1>3, <1>4

LEMMA Invariance == Spec => []IInv
BY InitIInv, NextIInv, PTL DEF Spec

(* Type correctness.                                                       *)
THEOREM TypeCorrect == Spec => []TypeOK
<1>1. IInv => TypeOK
  BY DEF IInv
<1> QED BY <1>1, Invariance, PTL

(* The packet builder and the source table go by the same SSRC whenever    *)
(* no change is under way, although different locks guard them             *)
(* (ProcessPolledData).                                                    *)
THEOREM IdentityKept == Spec => []OneIdentity
<1>1. IInv => OneIdentity
  BY DEF IInv
<1> QED BY <1>1, Invariance, PTL

(* No SSRC that a completed SendPacket call used is given up without a BYE *)
(* packet, for any number of sending threads (SendPacket against           *)
(* ProcessPolledData).                                                     *)
THEOREM NoSilentLeave == Spec => []OwedByes
<1>1. IInv => OwedByes
  BY DEF IInv
<1> QED BY <1>1, Invariance, PTL

(* One BYE packet for an SSRC at most, in the order in which the SSRCs     *)
(* were given up (the queue byepackets).                                   *)
THEOREM ByesAreUnique == Spec => []OneByeEach
<1>1. IInv => OneByeEach
  BY DEF IInv, QueueOrdered
<1> QED BY <1>1, Invariance, PTL

(* The scheduler's BYE backoff runs exactly when a BYE packet waits        *)
(* (ScheduleBYEPacket and IsTime against the queue).                       *)
THEOREM BackoffMatchesQueue == Spec => []ScheduledWhenQueued
<1>1. IInv => ScheduledWhenQueued
  BY DEF IInv, Scheduled, ScheduledWhenQueued, At
<1> QED BY <1>1, Invariance, PTL

(* What a step puts on the wire. *)
LEMMA DataBeforeBye ==
  ASSUME IInv, [Next]_vars
  PROVE  \A t \in Thread : carried'[t] # carried[t] => carried'[t] \notin said
<1>1. ASSUME NEW t \in Thread, BuildAndSend(t)
      PROVE  \A u \in Thread : carried'[u] # carried[u] => carried'[u] \notin said
  BY <1>1 DEF BuildAndSend, Running, Go, IInv, TypeOK, SSRCsOK, SSRCs,
     QueueOrdered
<1>2. ASSUME NEW t \in Thread, MarkSent(t)
      PROVE  \A u \in Thread : carried'[u] # carried[u] => carried'[u] \notin said
  BY <1>2 DEF MarkSent, Go, IInv, TypeOK, GhostsOK, SSRCs
<1>3. CASE UNCHANGED vars \/ (\E t \in Thread : SentRTPPacket(t))
             \/ (\E n \in 0 .. MaxBatch : GetPackets(n)) \/ OrdinaryPacket
             \/ (\E a \in Addr : KnownCollision(a))
             \/ (\E a \in Addr : NewCollision(a)) \/ BuildBYE
             \/ BuildBYEFails \/ CreateNewSSRC \/ ChangeOwnEntry \/ NotTime
             \/ SendReport \/ SendBYE \/ SendFails \/ PollError
             \/ BYEDestroy \/ LeaveSend \/ Destroy \/ Create \/ Tick
  BY <1>3 DEF vars, SentRTPPacket, GetPackets, OrdinaryPacket, KnownCollision,
     NewCollision, BuildBYE, BuildBYEFails, CreateNewSSRC, ChangeOwnEntry,
     NotTime, SendReport, SendBYE, SendFails, PollError, BYEDestroy,
     LeaveSend, Destroy, Create, Tick, Go, IInv
<1> QED
  BY <1>1, <1>2, <1>3 DEF Next, SendPacket, PollStep, TakePacket

(* Threads go on sending while the poll thread changes the SSRC, and still *)
(* no RTP packet bears an SSRC that has said BYE (BUILDER_LOCK).           *)
THEOREM NoDataAfterBye == Spec => SilentAfterBye
<1>1. IInv /\ [Next]_vars =>
        [\A t \in Thread :
           carried'[t] # carried[t] => carried'[t] \notin said]_vars
  BY DataBeforeBye
<1> QED BY <1>1, Invariance, PTL DEF Spec, SilentAfterBye

(* What makes the SSRC change. *)
LEMMA ChangeAfterQuiet ==
  ASSUME IInv, [Next]_vars
  PROVE  (At(Poll, "packets") /\ pc'[Poll] = "collided") =>
           \E b \in Addr : heard[b] > CollDelay /\ heard'[b] = 0
<1>1. ASSUME NEW t \in Thread, BuildAndSend(t)
      PROVE  (At(Poll, "packets") /\ pc'[Poll] = "collided") =>
           \E b \in Addr : heard[b] > CollDelay /\ heard'[b] = 0
  BY <1>1 DEF BuildAndSend, Go, At, IInv, ListExact
<1>2. ASSUME NEW t \in Thread, SentRTPPacket(t)
      PROVE  (At(Poll, "packets") /\ pc'[Poll] = "collided") =>
           \E b \in Addr : heard[b] > CollDelay /\ heard'[b] = 0
  BY <1>2 DEF SentRTPPacket, Go, At, IInv, ListExact
<1>3. ASSUME NEW t \in Thread, MarkSent(t)
      PROVE  (At(Poll, "packets") /\ pc'[Poll] = "collided") =>
           \E b \in Addr : heard[b] > CollDelay /\ heard'[b] = 0
  BY <1>3 DEF MarkSent, Go, At, IInv, ListExact
<1>4. ASSUME NEW n \in 0 .. MaxBatch, GetPackets(n)
      PROVE  (At(Poll, "packets") /\ pc'[Poll] = "collided") =>
           \E b \in Addr : heard[b] > CollDelay /\ heard'[b] = 0
  BY <1>4 DEF GetPackets, Go, IInv, TypeOK, PlacesOK, ListExact
<1>5. ASSUME NEW a \in Addr, NewCollision(a)
      PROVE  (At(Poll, "packets") /\ pc'[Poll] = "collided") =>
           \E b \in Addr : heard[b] > CollDelay /\ heard'[b] = 0
  BY <1>5 DEF NewCollision, Go, At, IInv, TypeOK, ListOK, ListExact
<1>6. CASE BuildBYE
  BY <1>6 DEF BuildBYE, Go, IInv, TypeOK, PlacesOK, ListExact
<1>7. CASE BuildBYEFails
  BY <1>7 DEF BuildBYEFails, Go, IInv, TypeOK, PlacesOK, ListExact
<1>8. CASE CreateNewSSRC
  BY <1>8 DEF CreateNewSSRC, Go, IInv, TypeOK, PlacesOK, ListExact
<1>9. CASE ChangeOwnEntry
  BY <1>9 DEF ChangeOwnEntry, Go, IInv, TypeOK, PlacesOK, ListExact
<1>10. CASE NotTime
  BY <1>10 DEF NotTime, Go, IInv, TypeOK, PlacesOK, ListExact
<1>11. CASE SendReport
  BY <1>11 DEF SendReport, Go, IInv, TypeOK, PlacesOK, ListExact
<1>12. CASE SendBYE
  BY <1>12 DEF SendBYE, Go, IInv, TypeOK, PlacesOK, ListExact
<1>13. CASE SendFails
  BY <1>13 DEF SendFails, Go, IInv, TypeOK, PlacesOK, ListExact
<1>14. CASE PollError
  BY <1>14 DEF PollError, Go, IInv, TypeOK, PlacesOK, ListExact
<1>15. CASE BYEDestroy
  BY <1>15 DEF BYEDestroy, Go, IInv, TypeOK, PlacesOK, ListExact
<1>16. CASE Destroy
  BY <1>16 DEF Destroy, Go, IInv, TypeOK, PlacesOK, ListExact
<1>17. CASE Create
  BY <1>17 DEF Create, Go, IInv, TypeOK, PlacesOK, ListExact
<1>18. CASE UNCHANGED vars \/ OrdinaryPacket
             \/ (\E a \in Addr : KnownCollision(a)) \/ LeaveSend \/ Tick
  BY <1>18 DEF vars, OrdinaryPacket, KnownCollision, LeaveSend, Tick, Go, At,
     IInv, ListExact
<1> QED
  BY <1>1, <1>2, <1>3, <1>4, <1>5, <1>6, <1>7, <1>8, <1>9, <1>10, <1>11, 
     <1>12, <1>13, <1>14, <1>15, <1>16, <1>17, <1>18
  DEF Next, SendPacket, PollStep, TakePacket

(* However often an address collides, it makes us change the SSRC at most  *)
(* once per timeout of the collision list (UpdateAddress and Timeout).     *)
THEOREM LoopsAreIgnored == Spec => LoopsIgnored
<1>1. IInv /\ [Next]_vars =>
        [(At(Poll, "packets") /\ pc'[Poll] = "collided") =>
           \E a \in Addr : heard[a] > CollDelay /\ heard'[a] = 0]_vars
  BY ChangeAfterQuiet
<1> QED BY <1>1, Invariance, PTL DEF Spec, LoopsIgnored

=============================================================================
