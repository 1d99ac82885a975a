---------------------------- MODULE ThreadProofs ----------------------------
(***************************************************************************)
(* The threads around a session, for any number of them: what they lock,   *)
(* how one waits in the transmitter while others abort the wait or destroy *)
(* the transmitter, and how the poll thread is started and stopped; and    *)
(* what it makes of the sequence numbers of the packets that it polls.     *)
(***************************************************************************)
EXTENDS SessionLocks, TransmitterWait, PollThread, SourceData,
        SequenceTheorems, TLAPS

-----------------------------------------------------------------------------
(* The locks of a session.  A path of a call is followed by the sections a *)
(* thread is in: each step to a lock must be allowed in the sections it is *)
(* taken in.  R is the set of the pairs of sections and next lock that are *)
(* allowed.                                                                *)

LockStep == [take : BOOLEAN, mutex : Mutex]

(* One step leads from the sections a to the sections b.                   *)
Moves(s, a, b, R) ==
  IF s.take THEN <<a, s.mutex>> \in R /\ b = a \cup {s.mutex}
            ELSE s.mutex \in a /\ b = a \ {s.mutex}

(* The whole path p does; h are the sections after each of its steps.      *)
Path(p, a, b, R) ==
  /\ p \in Seq(LockStep)
  /\ \E h \in [0 .. Len(p) -> SUBSET Mutex] :
       /\ h[0] = a /\ h[Len(p)] = b
       /\ \A i \in 1 .. Len(p) : Moves(p[i], h[i - 1], h[i], R)

(* Every path of P leaves the thread in the sections where it started.     *)
Loops(P, a, R) == \A p \in P : Path(p, a, a, R)

-----------------------------------------------------------------------------
LEMMA PathEmpty ==
  ASSUME NEW a \in SUBSET Mutex, NEW R
  PROVE  Path(<<>>, a, a, R)
<1> DEFINE h == [i \in 0 .. 0 |-> a]
<1>1. <<>> \in Seq(LockStep) /\ Len(<<>>) = 0
  OBVIOUS
<1>2. h \in [0 .. 0 -> SUBSET Mutex] /\ h[0] = a
  OBVIOUS
<1>3. \A i \in 1 .. 0 : FALSE
  OBVIOUS
<1> HIDE DEF h
<1>4. QED
  BY <1>1, <1>2, <1>3 DEF Path

LEMMA PathStep ==
  ASSUME NEW a \in SUBSET Mutex, NEW b \in SUBSET Mutex, NEW R,
         NEW s \in LockStep, Moves(s, a, b, R)
  PROVE  Path(<<s>>, a, b, R)
<1> DEFINE h == [i \in 0 .. 1 |-> IF i = 0 THEN a ELSE b]
<1>1. <<s>> \in Seq(LockStep) /\ Len(<<s>>) = 1 /\ <<s>>[1] = s
  OBVIOUS
<1>2. h \in [0 .. 1 -> SUBSET Mutex] /\ h[0] = a /\ h[1] = b
  OBVIOUS
<1>3. \A i \in 1 .. 1 : i = 1 /\ i - 1 = 0
  OBVIOUS
<1> HIDE DEF h
<1>4. QED
  BY <1>1, <1>2, <1>3 DEF Path

LEMMA PathThen ==
  ASSUME NEW a, NEW b, NEW c, NEW R, NEW p, NEW q,
         Path(p, a, b, R), Path(q, b, c, R)
  PROVE  Path(p \o q, a, c, R)
<1>1. p \in Seq(LockStep) /\ q \in Seq(LockStep)
  BY DEF Path
<1>2. PICK g \in [0 .. Len(p) -> SUBSET Mutex] :
        /\ g[0] = a /\ g[Len(p)] = b
        /\ \A i \in 1 .. Len(p) : Moves(p[i], g[i - 1], g[i], R)
  BY DEF Path
<1>3. PICK k \in [0 .. Len(q) -> SUBSET Mutex] :
        /\ k[0] = b /\ k[Len(q)] = c
        /\ \A i \in 1 .. Len(q) : Moves(q[i], k[i - 1], k[i], R)
  BY DEF Path
<1> DEFINE n == Len(p)
           r == p \o q
           h == [i \in 0 .. n + Len(q) |-> IF i <= n THEN g[i] ELSE k[i - n]]
<1>4. /\ n \in Nat /\ Len(q) \in Nat
      /\ r \in Seq(LockStep) /\ Len(r) = n + Len(q)
      /\ \A i \in 1 .. Len(r) : r[i] = IF i <= n THEN p[i] ELSE q[i - n]
  BY <1>1
<1>5. h \in [0 .. Len(r) -> SUBSET Mutex]
  BY <1>4
<1>6. h[0] = a /\ h[Len(r)] = c
  BY <1>2, <1>3, <1>4
<1>7. ASSUME NEW i \in 1 .. Len(r)
      PROVE  Moves(r[i], h[i - 1], h[i], R)
  <2>1. CASE i <= n
    <3>1. r[i] = p[i] /\ h[i - 1] = g[i - 1] /\ h[i] = g[i] /\ i \in 1 .. n
      BY <1>4, <2>1
    <3>2. QED
      BY <1>2, <3>1
  <2>2. CASE i > n
    <3>1. /\ r[i] = q[i - n] /\ h[i] = k[i - n] /\ i - n \in 1 .. Len(q)
          /\ h[i - 1] = k[(i - n) - 1]
      BY <1>2, <1>3, <1>4, <2>2
    <3>2. QED
      BY <1>3, <3>1
  <2>3. QED
    BY <1>4, <2>1, <2>2
<1>8. QED
  BY <1>4, <1>5, <1>6, <1>7 DEF Path

(* A thread that follows a path keeps following one.                       *)
LEMMA PathTail ==
  ASSUME NEW a, NEW c, NEW R, NEW p, Path(p, a, c, R), p # <<>>
  PROVE  \E b \in SUBSET Mutex :
           Moves(Head(p), a, b, R) /\ Path(Tail(p), b, c, R)
<1>1. p \in Seq(LockStep) /\ Len(p) \in Nat \ {0}
  BY DEF Path
<1>2. PICK g \in [0 .. Len(p) -> SUBSET Mutex] :
        /\ g[0] = a /\ g[Len(p)] = c
        /\ \A i \in 1 .. Len(p) : Moves(p[i], g[i - 1], g[i], R)
  BY DEF Path
<1> DEFINE r == Tail(p)
           h == [i \in 0 .. Len(p) - 1 |-> g[i + 1]]
<1>3. /\ r \in Seq(LockStep) /\ Len(r) = Len(p) - 1 /\ Head(p) = p[1]
      /\ \A i \in 1 .. Len(r) : r[i] = p[i + 1]
  BY <1>1
<1>4. h \in [0 .. Len(r) -> SUBSET Mutex] /\ h[0] = g[1] /\ h[Len(r)] = c
  BY <1>1, <1>2, <1>3
<1>5. ASSUME NEW i \in 1 .. Len(r)
      PROVE  Moves(r[i], h[i - 1], h[i], R)
  <2>1. /\ r[i] = p[i + 1] /\ h[i - 1] = g[i] /\ h[i] = g[i + 1]
        /\ i + 1 \in 1 .. Len(p) /\ (i + 1) - 1 = i
    BY <1>1, <1>3
  <2>2. QED
    BY <1>2, <2>1
<1>6. Moves(Head(p), a, g[1], R) /\ g[1] \in SUBSET Mutex
  BY <1>1, <1>2, <1>3
<1>7. Path(r, g[1], c, R)
  BY <1>3, <1>4, <1>5 DEF Path
<1>8. QED
  BY <1>6, <1>7

-----------------------------------------------------------------------------
(* The combinators the calls are written with.                             *)

LEMMA LoopsNothing ==
  ASSUME NEW a \in SUBSET Mutex, NEW R
  PROVE  Loops(Nothing, a, R)
BY PathEmpty DEF Loops, Nothing

LEMMA LoopsThen ==
  ASSUME NEW a, NEW R, NEW P, NEW Q, Loops(P, a, R), Loops(Q, a, R)
  PROVE  Loops(Then(P, Q), a, R)
<1> SUFFICES ASSUME NEW r \in Then(P, Q) PROVE Path(r, a, a, R)
  BY DEF Loops
<1>1. PICK p \in P, q \in Q : r = p \o q
  BY DEF Then
<1>2. Path(p, a, a, R) /\ Path(q, a, a, R)
  BY DEF Loops
<1>3. QED
  BY <1>1, <1>2, PathThen

LEMMA LoopsOr ==
  ASSUME NEW a, NEW R, NEW P, NEW Q, Loops(P, a, R), Loops(Q, a, R)
  PROVE  Loops(P \cup Q, a, R)
BY DEF Loops

LEMMA LoopsOrNot ==
  ASSUME NEW a \in SUBSET Mutex, NEW R, NEW P, Loops(P, a, R)
  PROVE  Loops(OrNot(P), a, R)
BY LoopsNothing, LoopsOr DEF OrNot

LEMMA LoopsUnion ==
  ASSUME NEW a, NEW R, NEW PP, \A P \in PP : Loops(P, a, R)
  PROVE  Loops(UNION PP, a, R)
BY DEF Loops

LEMMA LoopsUnder ==
  ASSUME NEW a \in SUBSET Mutex, NEW R, NEW P, NEW m \in Mutex,
         m \notin a, <<a, m>> \in R, Loops(P, a \cup {m}, R)
  PROVE  Loops(Under(m, P), a, R)
<1>1. Path(<<Enter(m)>>, a, a \cup {m}, R)
  BY PathStep DEF Moves, Enter, LockStep
<1>2. Path(<<Leave(m)>>, a \cup {m}, a, R)
  BY PathStep DEF Moves, Leave, LockStep
<1>3. ASSUME NEW p \in P
      PROVE  Path(<<Enter(m)>> \o p \o <<Leave(m)>>, a, a, R)
  <2>1. Path(p, a \cup {m}, a \cup {m}, R)
    BY DEF Loops
  <2>2. Path(<<Enter(m)>> \o p, a, a \cup {m}, R)
    BY <1>1, <2>1, PathThen
  <2>3. QED
    BY <1>2, <2>2, PathThen
<1>4. QED
  BY <1>3 DEF Loops, Under

LEMMA LoopsOnly ==
  ASSUME NEW a \in SUBSET Mutex, NEW R, NEW m \in Mutex,
         m \notin a, <<a, m>> \in R
  PROVE  Loops(Only(m), a, R)
BY LoopsNothing, LoopsUnder DEF Only

-----------------------------------------------------------------------------
(* The order of the locks.                                                 *)

(* The table's lock comes before the others of the session, and the        *)
(* transmitter's last of all: this is all the application's threads need.  *)
AppPairs ==
  ({{}} \X (SessionMutex \cup {"main"}))
    \cup ({{"sources"}} \X {"builder", "main", "sched", "packsent"})
    \cup ({{"builder"}, {"sources", "builder"}} \X {"main"})

(* And calls that lock the table while they have it locked.                *)
AgainPairs == {<<{"sources"}, "sources">>}

(* ProcessPolledData, and GetRTCPDelay without a poll thread, take the     *)
(* others, the scheduler's among them, under the table's.                  *)
TablePairs ==
  ({{}} \X {"sources"})
    \cup ({{"sources"}} \X {"builder", "main", "sched", "packsent"})
    \cup {<<{"sources", "sched"}, "main">>}

(* In its loop the poll thread takes the scheduler's lock before the       *)
(* table's, and the transmitter's two locks one inside the other.          *)
PollerPairs ==
  TablePairs \cup ({{}} \X {"sched", "main"})
    \cup {<<{"sched"}, "sources">>, <<{"main"}, "wait">>, <<{"wait"}, "main">>}

(* Without a poll thread only the transmitter's locks are real.            *)
MainLast ==
  {s \in (SUBSET Mutex) \X (Mutex \ {"wait"}) :
     "main" \notin s[1] /\ "wait" \notin s[1] /\ s[2] \notin s[1]}

Order(t) ==
  IF t = Poller THEN PollerPairs
  ELSE IF UsePollThread THEN AppPairs \cup AgainPairs ELSE MainLast

LEMMA MutexNames ==
  /\ "sources" \in Mutex /\ "builder" \in Mutex /\ "sched" \in Mutex
  /\ "packsent" \in Mutex /\ "main" \in Mutex /\ "wait" \in Mutex
BY DEF Mutex, SessionMutex

LEMMA MainLastCovers == AppPairs \subseteq MainLast /\ TablePairs \subseteq MainLast
BY DEF AppPairs, TablePairs, MainLast, Mutex, SessionMutex

(* The pairs one by one.                                                   *)
LEMMA Pairs ==
  ASSUME NEW a, NEW m
  PROVE  /\ <<a, m>> \in AppPairs \cup AgainPairs <=>
              \/ a = {} /\ m \in SessionMutex \cup {"main"}
              \/ a = {"sources"} /\ m \in {"builder", "main", "sched", "packsent"}
              \/ a \in {{"builder"}, {"sources", "builder"}} /\ m = "main"
              \/ a = {"sources"} /\ m = "sources"
         /\ <<a, m>> \in PollerPairs <=>
              \/ a = {} /\ m \in {"sources", "sched", "main"}
              \/ a = {"sources"} /\ m \in {"builder", "main", "sched", "packsent"}
              \/ a = {"sources", "sched"} /\ m = "main"
              \/ a = {"sched"} /\ m = "sources"
              \/ a = {"main"} /\ m = "wait"
              \/ a = {"wait"} /\ m = "main"
BY DEF AppPairs, AgainPairs, PollerPairs, TablePairs

-----------------------------------------------------------------------------
(* The calls keep to it.                                                   *)

(* The calls that keep to the order wherever the thread is, in no section  *)
(* or in that of the table.                                                *)
LEMMA CallsLoopIn ==
  ASSUME NEW R, NEW in \in SUBSET Mutex, "builder" \notin in, "main" \notin in,
         "sched" \notin in, "packsent" \notin in,
         \A m \in {"builder", "main", "sched", "packsent"} : <<in, m>> \in R,
         <<in \cup {"builder"}, "main">> \in R
  PROVE  /\ Loops(Only("builder"), in, R) /\ Loops(Only("sched"), in, R)
         /\ Loops(Only("packsent"), in, R) /\ Loops(TransmitterCall, in, R)
         /\ Loops(Under("builder", OrNot(TransmitterCall)), in, R)
         /\ Loops(SendRTCPAPPPacket, in, R) /\ Loops(SendUnknownPacket, in, R)
         /\ Loops(SetMaximumPacketSize, in, R)
<1> USE MutexNames
<1>1. /\ Loops(Only("builder"), in, R) /\ Loops(Only("sched"), in, R)
      /\ Loops(Only("packsent"), in, R) /\ Loops(TransmitterCall, in, R)
  BY LoopsOnly DEF TransmitterCall
<1>2. Loops(Under("builder", OrNot(TransmitterCall)), in, R)
  <2>1. in \cup {"builder"} \in SUBSET Mutex /\ "main" \notin in \cup {"builder"}
    OBVIOUS
  <2>2. Loops(TransmitterCall, in \cup {"builder"}, R)
    BY <2>1, LoopsOnly DEF TransmitterCall
  <2>3. QED
    BY <2>1, <2>2, LoopsOrNot, LoopsUnder
<1>3. Loops(SendRTCPAPPPacket, in, R) /\ Loops(SendUnknownPacket, in, R)
  <2>1. Loops(OrNot(Only("packsent")), in, R)
    BY <1>1, LoopsOrNot
  <2>2. Loops(OrNot(Then(TransmitterCall, OrNot(Only("packsent")))), in, R)
    BY <1>1, <2>1, LoopsThen, LoopsOrNot
  <2>3. Loops(OrNot(Then(Only("builder"),
                 OrNot(Then(TransmitterCall, OrNot(Only("packsent")))))), in, R)
    BY <1>1, <2>2, LoopsThen, LoopsOrNot
  <2>4. QED
    BY <1>1, <2>3, LoopsThen DEF SendRTCPAPPPacket, SendUnknownPacket
<1>4. Loops(SetMaximumPacketSize, in, R)
  <2>1. Loops(OrNot(TransmitterCall), in, R)
    BY <1>1, LoopsOrNot
  <2>2. Loops(OrNot(Then(Only("builder"), OrNot(TransmitterCall))), in, R)
    BY <1>1, <2>1, LoopsThen, LoopsOrNot
  <2>3. QED
    BY <1>1, <2>2, LoopsThen DEF SetMaximumPacketSize
<1>5. QED
  BY <1>1, <1>2, <1>3, <1>4

(* A second Lock of the table's mutex is the last step of its thread.      *)
LEMMA AgainLoops ==
  ASSUME NEW R, UsePollThread => AgainPairs \subseteq R,
         Loops(Only("packsent"), {"sources"}, R)
  PROVE  /\ Loops(IF UsePollThread THEN LockTableAgain ELSE Nothing, {"sources"}, R)
         /\ Loops(IF UsePollThread THEN LockTableAgain ELSE Only("packsent"),
                  {"sources"}, R)
<1>1. {"sources"} \in SUBSET Mutex
  BY MutexNames
<1>2. UsePollThread => Loops(LockTableAgain, {"sources"}, R)
  <2> SUFFICES ASSUME UsePollThread
               PROVE  Path(<<Enter("sources")>>, {"sources"}, {"sources"}, R)
    BY DEF Loops, LockTableAgain
  <2>1. Enter("sources") \in LockStep
    BY MutexNames DEF Enter, LockStep
  <2>2. Moves(Enter("sources"), {"sources"}, {"sources"}, R)
    BY DEF Moves, Enter, AgainPairs
  <2>3. QED
    BY <1>1, <2>1, <2>2, PathStep
<1>3. QED
  BY <1>1, <1>2, LoopsNothing

LEMMA AppCallsLoop ==
  ASSUME NEW R, AppPairs \subseteq R, UsePollThread => AgainPairs \subseteq R
  PROVE  /\ Loops(GetLocalSSRC, {}, R) /\ Loops(SendPacket, {}, R)
         /\ Loops(SendRTCPAPPPacket, {}, R) /\ Loops(SendUnknownPacket, {}, R)
         /\ Loops(SendRawData, {}, R) /\ Loops(PacketSettings, {}, R)
         /\ Loops(ReportSettings, {}, R) /\ Loops(TransmitterSettings, {}, R)
         /\ Loops(SetMaximumPacketSize, {}, R)
         /\ Loops(SetSessionBandwidth, {}, R) /\ Loops(DataAccess, {}, R)
<1> USE MutexNames
<1> DEFINE in == {"sources"}
<1>1. /\ \A m \in SessionMutex \cup {"main"} : <<{}, m>> \in R
      /\ \A m \in {"builder", "main", "sched", "packsent"} : <<in, m>> \in R
      /\ <<in \cup {"builder"}, "main">> \in R
      /\ <<{} \cup {"builder"}, "main">> \in R
  <2>1. in \cup {"builder"} = {"sources", "builder"} /\ {} \cup {"builder"} = {"builder"}
    OBVIOUS
  <2>2. QED
    BY <2>1 DEF AppPairs
<1>2. /\ Loops(Only("builder"), {}, R) /\ Loops(Only("sched"), {}, R)
      /\ Loops(Only("packsent"), {}, R) /\ Loops(TransmitterCall, {}, R)
      /\ Loops(Under("builder", OrNot(TransmitterCall)), {}, R)
      /\ Loops(SendRTCPAPPPacket, {}, R) /\ Loops(SendUnknownPacket, {}, R)
      /\ Loops(SetMaximumPacketSize, {}, R)
  BY <1>1, CallsLoopIn DEF SessionMutex
<1>3. /\ Loops(Only("builder"), in, R) /\ Loops(Only("sched"), in, R)
      /\ Loops(Only("packsent"), in, R) /\ Loops(TransmitterCall, in, R)
      /\ Loops(Under("builder", OrNot(TransmitterCall)), in, R)
      /\ Loops(SendRTCPAPPPacket, in, R) /\ Loops(SendUnknownPacket, in, R)
      /\ Loops(SetMaximumPacketSize, in, R)
  BY <1>1, CallsLoopIn
<1>4. Loops(Only("sources"), {}, R)
  BY <1>1, LoopsOnly DEF SessionMutex
<1>5. Loops(SendPacket, {}, R)
  <2>1. Loops(OrNot(Then(Only("sources"), Only("packsent"))), {}, R)
    BY <1>2, <1>4, LoopsThen, LoopsOrNot
  <2>2. QED
    BY <1>2, <2>1, LoopsThen DEF SendPacket
<1>6. /\ Loops(IF UsePollThread THEN LockTableAgain ELSE Nothing, in, R)
      /\ Loops(SendPacketInside, in, R)
  <2>1. /\ Loops(IF UsePollThread THEN LockTableAgain ELSE Nothing, in, R)
        /\ Loops(IF UsePollThread THEN LockTableAgain ELSE Only("packsent"), in, R)
    BY <1>3, AgainLoops
  <2>2. Loops(OrNot(IF UsePollThread THEN LockTableAgain ELSE Only("packsent")), in, R)
    BY <2>1, LoopsOrNot
  <2>3. QED
    BY <1>3, <2>1, <2>2, LoopsThen DEF SendPacketInside
<1>7. Loops(DataAccess, {}, R)
  <2>1. PICK body :
          body = UNION {Nothing, PacketSettings, TransmitterSettings,
                        SetSessionBandwidth, SetMaximumPacketSize,
                        SendRTCPAPPPacket, SendUnknownPacket, SendPacketInside,
                        IF UsePollThread THEN LockTableAgain ELSE Nothing}
    OBVIOUS
  <2>2. Loops(Nothing, in, R)
    BY LoopsNothing
  <2>3. Loops(body, in, R)
    BY <1>3, <1>6, <2>1, <2>2
       DEF Loops, PacketSettings, TransmitterSettings, SetSessionBandwidth
  <2>4. {} \cup {"sources"} = in /\ <<{}, "sources">> \in R
    BY <1>1 DEF SessionMutex
  <2>5. Loops(Under("sources", body), {}, R)
    BY <2>3, <2>4, LoopsUnder
  <2>6. QED
    BY <2>1, <2>5 DEF DataAccess
<1>8. QED
  BY <1>2, <1>5, <1>7
     DEF GetLocalSSRC, SendRawData, PacketSettings, ReportSettings,
         TransmitterSettings, SetSessionBandwidth

LEMMA ProcessPolledDataLoops ==
  ASSUME NEW R, TablePairs \subseteq R
  PROVE  /\ Loops(ProcessPolledData, {}, R)
         /\ Loops(Under("sources", Only("sched")), {}, R)
<1> USE MutexNames
<1> DEFINE in == {"sources"}
<1>1. /\ <<{}, "sources">> \in R
      /\ <<in, "builder">> \in R /\ <<in, "main">> \in R
      /\ <<in, "sched">> \in R /\ <<in, "packsent">> \in R
      /\ <<in \cup {"sched"}, "main">> \in R
  <2>1. in \cup {"sched"} = {"sources", "sched"}
    OBVIOUS
  <2>2. QED
    BY <2>1 DEF TablePairs
<1>2. /\ {} \in SUBSET Mutex /\ in \in SUBSET Mutex
      /\ in \cup {"sched"} \in SUBSET Mutex /\ {} \cup in = in
      /\ "sources" \notin {} /\ "sched" \notin in
  OBVIOUS
<1>3. /\ Loops(Only("builder"), in, R) /\ Loops(Only("sched"), in, R)
      /\ Loops(Only("packsent"), in, R) /\ Loops(TransmitterCall, in, R)
      /\ Loops(TransmitterCall, in \cup {"sched"}, R)
  BY <1>1, <1>2, LoopsOnly DEF TransmitterCall
<1> HIDE DEF in
<1>4. Loops(UNION Packets, in, R)
  <2>1. Loops(OrNot(TransmitterCall), in \cup {"sched"}, R)
    BY <1>2, <1>3, LoopsOrNot
  <2>2. Loops(Under("sched", OrNot(TransmitterCall)), in, R)
    BY <1>1, <1>2, <2>1, LoopsUnder
  <2>3. Loops(RawPacket, in, R)
    BY <1>3, <2>2, LoopsThen DEF RawPacket
  <2>4. Loops(OrNot(Only("sched")), in, R)
    BY <1>2, <1>3, LoopsOrNot
  <2>5. Loops(OrNot(BYEForCollision), in, R)
    BY <1>2, <1>3, <2>4, LoopsThen, LoopsOrNot DEF BYEForCollision
  <2>6. Loops(Then(Only("builder"), Only("packsent")), in, R)
    BY <1>3, LoopsThen
  <2>7. Loops(Then(OrNot(BYEForCollision),
                   Then(Only("builder"), Only("packsent"))), in, R)
    BY <2>5, <2>6, LoopsThen
  <2>8. Loops(OrNot(Collision), in, R)
    BY <1>2, <1>3, <2>7, LoopsThen, LoopsOrNot DEF Collision
  <2>9. Loops(Then(RawPacket, OrNot(Collision)), in, R)
    BY <2>3, <2>8, LoopsThen
  <2>10. QED
    BY <1>3, <2>9, LoopsUnion DEF Packets
<1>5. Loops(Report, in, R)
  <2>1. Loops(OrNot(Then(Only("packsent"), Only("sched"))), in, R)
    BY <1>2, <1>3, LoopsThen, LoopsOrNot
  <2>2. Loops(OrNot(Then(TransmitterCall,
                    OrNot(Then(Only("packsent"), Only("sched"))))), in, R)
    BY <1>2, <1>3, <2>1, LoopsThen, LoopsOrNot
  <2>3. QED
    BY <1>3, <2>2, LoopsThen DEF Report
<1>6. Loops(BYE, in, R)
  <2>1. Loops(Then(OrNot(Only("sched")), Only("sched")), in, R)
    BY <1>2, <1>3, LoopsThen, LoopsOrNot
  <2>2. Loops(OrNot(Then(Only("packsent"),
                    Then(OrNot(Only("sched")), Only("sched")))), in, R)
    BY <1>2, <1>3, <2>1, LoopsThen, LoopsOrNot
  <2>3. QED
    BY <1>3, <2>2, LoopsThen DEF BYE
<1>7. Loops(Then(TimeoutsAndTimer, Nothing \cup Report \cup BYE), in, R)
  BY <1>2, <1>3, <1>5, <1>6, LoopsNothing, LoopsOr, LoopsThen
     DEF TimeoutsAndTimer
<1> DEFINE some == UNION Packets
           all == Then(some, Then(TimeoutsAndTimer, Nothing \cup Report \cup BYE))
           body == some \cup all
<1>8. Loops(body, in, R)
  <2>1. Loops(all, in, R)
    BY <1>4, <1>7, LoopsThen
  <2> HIDE DEF some, all
  <2>2. QED
    BY <1>4, <2>1, LoopsOr DEF some
<1>9. ASSUME NEW P, Loops(P, in, R)
      PROVE  Loops(Under("sources", P), {}, R)
  <2>1. Loops(P, {} \cup {"sources"}, R) /\ <<{}, "sources">> \in R
    BY <1>1, <1>2, <1>9 DEF in
  <2>2. QED
    BY <1>2, <2>1, LoopsUnder
<1>10. Under("sources", body) = ProcessPolledData
  BY DEF ProcessPolledData
<1> HIDE DEF body
<1>11. Loops(Under("sources", body), {}, R)
  BY <1>8, <1>9
<1>12. Loops(Under("sources", Only("sched")), {}, R)
  BY <1>3, <1>9
<1>13. QED
  BY <1>10, <1>11, <1>12

(* The one call whose locks are not nested: the wait goes on holding the   *)
(* second lock after the first is left.                                    *)
LEMMA WaitLoops == Loops(WaitForIncomingData, {}, PollerPairs)
<1> USE MutexNames DEF PollerPairs
<1> DEFINE p == <<Enter("main"), Enter("wait"), Leave("main"),
                  Enter("main"), Leave("main"), Leave("wait")>>
           h == [i \in 0 .. 6 |->
                   IF i \in {0, 6} THEN {}
                   ELSE IF i = 1 THEN {"main"}
                   ELSE IF i \in {2, 4} THEN {"main", "wait"} ELSE {"wait"}]
<1>1. p \in Seq(LockStep) /\ Len(p) = 6
  <2>1. /\ Enter("main") \in LockStep /\ Enter("wait") \in LockStep
        /\ Leave("main") \in LockStep /\ Leave("wait") \in LockStep
    BY DEF Enter, Leave, LockStep
  <2>2. QED
    BY <2>1
<1>2. h \in [0 .. 6 -> SUBSET Mutex] /\ h[0] = {} /\ h[6] = {}
  OBVIOUS
<1>3. \A i \in 1 .. 6 : Moves(p[i], h[i - 1], h[i], PollerPairs)
  <2>1. /\ h[0] = {} /\ h[1] = {"main"} /\ h[2] = {"main", "wait"}
        /\ h[3] = {"wait"} /\ h[4] = {"main", "wait"} /\ h[5] = {"wait"}
        /\ h[6] = {}
    OBVIOUS
  <2>2. /\ p[1] = Enter("main") /\ p[2] = Enter("wait") /\ p[3] = Leave("main")
        /\ p[4] = Enter("main") /\ p[5] = Leave("main") /\ p[6] = Leave("wait")
    OBVIOUS
  <2> HIDE DEF p, h
  <2>3. Moves(p[1], h[0], h[1], PollerPairs) /\ Moves(p[2], h[1], h[2], PollerPairs)
    BY <2>1, <2>2 DEF Moves, Enter
  <2>4. Moves(p[3], h[2], h[3], PollerPairs) /\ Moves(p[5], h[4], h[5], PollerPairs)
    BY <2>1, <2>2 DEF Moves, Leave
  <2>5. Moves(p[4], h[3], h[4], PollerPairs)
    BY <2>1, <2>2 DEF Moves, Enter
  <2>6. Moves(p[6], h[5], h[6], PollerPairs)
    BY <2>1, <2>2 DEF Moves, Leave
  <2> SUFFICES ASSUME NEW i \in 1 .. 6
               PROVE  Moves(p[i], h[i - 1], h[i], PollerPairs)
    OBVIOUS
  <2>7. i \in {1, 2, 3, 4, 5, 6}
    OBVIOUS
  <2>8. QED
    BY <2>3, <2>4, <2>5, <2>6, <2>7
<1> HIDE DEF p, h
<1>4. Path(p, {}, {}, PollerPairs)
  BY <1>1, <1>2, <1>3 DEF Path
<1>5. Loops(TransmitterCall, {}, PollerPairs)
  BY LoopsOnly DEF TransmitterCall
<1>6. QED
  BY <1>4, <1>5 DEF Loops, WaitForIncomingData, p

LEMMA PollRoundLoops == Loops(PollRound, {}, PollerPairs)
<1> USE MutexNames
<1>1. TablePairs \subseteq PollerPairs /\ {} \in SUBSET Mutex
  BY DEF PollerPairs
<1>2. Loops(ProcessPolledData, {}, PollerPairs)
  BY <1>1, ProcessPolledDataLoops
<1>3. Loops(TransmitterCall, {}, PollerPairs)
  BY LoopsOnly DEF TransmitterCall, PollerPairs
<1>4. Loops(LoopDelay, {}, PollerPairs)
  <2>1. Loops(Only("sources"), {"sched"}, PollerPairs)
    BY LoopsOnly DEF PollerPairs
  <2>2. {} \cup {"sched"} = {"sched"} /\ <<{}, "sched">> \in PollerPairs
    BY DEF PollerPairs
  <2>3. QED
    BY <1>1, <2>1, <2>2, LoopsUnder DEF LoopDelay
<1>5. Loops(Then(TransmitterCall, ProcessPolledData), {}, PollerPairs)
  BY <1>2, <1>3, LoopsThen
<1>6. Loops(Then(WaitForIncomingData, Then(TransmitterCall, ProcessPolledData)),
            {}, PollerPairs)
  BY <1>5, WaitLoops, LoopsThen
<1>7. QED
  BY <1>4, <1>6, LoopsThen DEF PollRound

(* Whatever a thread calls, its path is one that Order allows.             *)
LEMMA CallsLoop ==
  ASSUME NEW t \in Worker
  PROVE  Loops(IF t = Poller THEN PollRound ELSE Calls, {}, Order(t))
<1>1. CASE t = Poller
  BY <1>1, PollRoundLoops DEF Order
<1>2. CASE t # Poller
  <2>1. AppPairs \subseteq Order(t) /\ (UsePollThread => AgainPairs \subseteq Order(t))
    BY <1>2, MainLastCovers DEF Order
  <2>2. Loops(GetRTCPDelay, {}, Order(t))
    BY <1>2, MainLastCovers, LoopsNothing, ProcessPolledDataLoops
       DEF GetRTCPDelay, Order
  <2>3. Loops(IF UsePollThread THEN {} ELSE UserPoll, {}, Order(t))
    <3>1. Loops({}, {}, Order(t))
      BY DEF Loops
    <3>2. CASE ~UsePollThread
      <4>1. Loops(ProcessPolledData, {}, Order(t))
        BY <1>2, <3>2, MainLastCovers, ProcessPolledDataLoops DEF Order
      <4>2. Loops(TransmitterCall, {}, Order(t))
        BY <2>1, AppCallsLoop DEF SendRawData
      <4>3. QED
        BY <3>2, <4>1, <4>2, LoopsThen DEF UserPoll
    <3>3. QED
      BY <3>1, <3>2
  <2>4. Loops(Calls, {}, Order(t))
    BY <2>1, <2>2, <2>3, AppCallsLoop DEF Loops, Calls
  <2>5. QED
    BY <1>2, <2>4
<1>3. QED
  BY <1>1, <1>2

-----------------------------------------------------------------------------
(* The invariant: a mutex that works is owned by the thread that is in its *)
(* section, and what is left of every call keeps to the order.             *)

OwnersInside ==
  \A m \in Mutex :
    IF Initialised(m) THEN \A t \in Worker : owner[m] = t <=> m \in inside[t]
                      ELSE owner[m] = Nobody

KeepsToOrder == \A t \in Worker : Path(todo[t], inside[t], {}, Order(t))

LocksInv == LocksTypeOK /\ OwnersInside /\ KeepsToOrder

LEMMA LocksInitInv == LocksInit => LocksInv
<1> SUFFICES ASSUME LocksInit PROVE LocksInv
  OBVIOUS
<1>1. LocksTypeOK
  BY DEF LocksInit, LocksTypeOK
<1>2. Nobody \notin Worker
  BY LocksAssumption DEF Worker
<1>3. OwnersInside
  BY <1>2 DEF LocksInit, OwnersInside
<1>4. KeepsToOrder
  BY PathEmpty DEF LocksInit, KeepsToOrder
<1>5. QED
  BY <1>1, <1>3, <1>4 DEF LocksInv

LEMMA CallStep ==
  ASSUME LocksInv, NEW t \in Worker, Call(t)
  PROVE  LocksInv'
<1> DEFINE calls == IF t = Poller THEN PollRound ELSE Calls
<1>1. PICK p \in calls : todo' = [todo EXCEPT ![t] = p]
  BY DEF Call
<1>2. Path(p, {}, {}, Order(t)) /\ p \in Seq(LockStep)
  BY CallsLoop DEF Loops, Path
<1>3. inside[t] = {}
  <2>1. Path(<<>>, inside[t], {}, Order(t))
    BY DEF LocksInv, KeepsToOrder, Call
  <2>2. QED
    BY <2>1 DEF Path
<1>4. LocksTypeOK'
  BY <1>1, <1>2 DEF LocksInv, LocksTypeOK, Call, LockStep
<1>5. OwnersInside'
  BY DEF LocksInv, OwnersInside, Call, Initialised
<1>6. KeepsToOrder'
  BY <1>1, <1>2, <1>3 DEF LocksInv, LocksTypeOK, KeepsToOrder, Call, Order
<1>7. QED
  BY <1>4, <1>5, <1>6 DEF LocksInv

LEMMA LockUnlockStep ==
  ASSUME LocksInv, NEW t \in Worker, Lock(t) \/ Unlock(t)
  PROVE  LocksInv'
<1> DEFINE m == Head(todo[t]).mutex
<1>1. /\ todo[t] # <<>> /\ todo[t] \in Seq(LockStep)
      /\ Path(todo[t], inside[t], {}, Order(t))
  BY DEF LocksInv, LocksTypeOK, KeepsToOrder, Lock, Unlock, Pending, LockStep
<1>2. PICK b \in SUBSET Mutex :
        /\ Moves(Head(todo[t]), inside[t], b, Order(t))
        /\ Path(Tail(todo[t]), b, {}, Order(t))
  BY <1>1, PathTail
<1>3. Tail(todo[t]) \in Seq(LockStep) /\ m \in Mutex
  <2>1. Tail(todo[t]) \in Seq(LockStep) /\ Head(todo[t]) \in LockStep
    BY <1>1
  <2>2. QED
    BY <2>1 DEF LockStep
<1>4. /\ todo' = [todo EXCEPT ![t] = Tail(todo[t])]
      /\ inside' = [inside EXCEPT ![t] = b]
  <2>1. CASE Lock(t)
    BY <1>2, <2>1 DEF Lock, Pending, Moves
  <2>2. CASE Unlock(t)
    BY <1>2, <2>2 DEF Unlock, Pending, Moves
  <2>3. QED
    BY <2>1, <2>2
<1>5. KeepsToOrder'
  BY <1>2, <1>4 DEF LocksInv, LocksTypeOK, KeepsToOrder, Order
<1>6. LocksTypeOK'
  <2>1. todo' \in [Worker -> Seq(LockStep)]
    BY <1>3, <1>4 DEF LocksInv, LocksTypeOK, LockStep
  <2>2. inside' \in [Worker -> SUBSET Mutex]
    BY <1>4 DEF LocksInv, LocksTypeOK
  <2>3. owner' \in [Mutex -> Worker \cup {Nobody}]
    BY <1>3 DEF LocksInv, LocksTypeOK, Lock, Unlock
  <2>4. QED
    BY <2>1, <2>2, <2>3 DEF LocksTypeOK, LockStep
<1>7. Nobody \notin Worker
  BY LocksAssumption DEF Worker
<1>8. OwnersInside'
  <2>1. CASE Lock(t)
    <3>1. /\ owner' = [owner EXCEPT ![m] = IF Initialised(m) THEN t ELSE @]
          /\ b = inside[t] \cup {m}
          /\ Initialised(m) => owner[m] = Nobody
      BY <1>2, <2>1 DEF Lock, Blocked, Pending, Moves
    <3>2. QED
      BY <1>3, <1>4, <1>7, <3>1
         DEF LocksInv, LocksTypeOK, OwnersInside, Initialised
  <2>2. CASE Unlock(t)
    <3>1. /\ owner' = [owner EXCEPT ![m] = Nobody]
          /\ b = inside[t] \ {m} /\ m \in inside[t]
      BY <1>2, <2>2 DEF Unlock, Pending, Moves
    <3>2. QED
      BY <1>3, <1>4, <1>7, <3>1
         DEF LocksInv, LocksTypeOK, OwnersInside, Initialised
  <2>3. QED
    BY <2>1, <2>2
<1>9. QED
  BY <1>5, <1>6, <1>8 DEF LocksInv

LEMMA LocksInvariant == LocksSpec => []LocksInv
<1>1. LocksInv /\ [LocksNext]_lockvars => LocksInv'
  <2>1. LocksInv /\ UNCHANGED lockvars => LocksInv'
    BY DEF LocksInv, LocksTypeOK, OwnersInside, KeepsToOrder, lockvars,
           Initialised, Order
  <2>2. QED
    BY <2>1, CallStep, LockUnlockStep DEF LocksNext
<1>2. QED
  BY <1>1, LocksInitInv, PTL DEF LocksSpec

-----------------------------------------------------------------------------
(* A blocked thread wants a lock that another is inside, and wants it in   *)
(* sections that the order allows.                                         *)
LEMMA BlockedThread ==
  ASSUME LocksInv, NEW t \in Worker, Blocked(t),
         owner[Head(todo[t]).mutex] \in Worker
  PROVE  LET m == Head(todo[t]).mutex
         IN  /\ m \in Mutex /\ Initialised(m)
             /\ <<inside[t], m>> \in Order(t)
             /\ m \in inside[owner[m]]
<1>1. /\ todo[t] # <<>> /\ todo[t] \in Seq(LockStep)
      /\ Path(todo[t], inside[t], {}, Order(t))
  BY DEF LocksInv, LocksTypeOK, KeepsToOrder, Blocked, Pending, LockStep
<1>2. <<inside[t], Head(todo[t]).mutex>> \in Order(t)
  BY <1>1, PathTail DEF Moves, Blocked, Pending
<1>3. Head(todo[t]).mutex \in Mutex
  <2>1. Head(todo[t]) \in LockStep
    BY <1>1
  <2>2. QED
    BY <2>1 DEF LockStep
<1>4. QED
  BY <1>2, <1>3 DEF LocksInv, OwnersInside, Blocked

LEMMA OrderPreventsDeadlock == LocksInv => NoDeadlock
<1> SUFFICES ASSUME LocksInv, NEW S \in SUBSET Worker, S # {},
                    \A t \in S : Blocked(t) /\ owner[Head(todo[t]).mutex] \in S,
                    UsePollThread => \A t \in S : ~InDataAccess(t)
             PROVE  FALSE
  BY DEF NoDeadlock
<1> DEFINE want(t) == Head(todo[t]).mutex
           holder(t) == owner[want(t)]
<1>1. \A t \in S : /\ t \in Worker /\ want(t) \in Mutex /\ Initialised(want(t))
                   /\ <<inside[t], want(t)>> \in Order(t)
                   /\ holder(t) \in S /\ want(t) \in inside[holder(t)]
  BY BlockedThread
<1>5. UsePollThread =>
        \A t \in S : t # Poller /\ "sources" \in inside[t] =>
          want(t) \notin {"sched", "sources"}
  BY <1>1 DEF InDataAccess, Worker
<1> HIDE DEF want, holder
<1>2. CASE ~UsePollThread
  <2>1. \A t \in S : Order(t) = MainLast
    BY <1>1, <1>2, LocksAssumption DEF Worker, Order
  <2>2. \A t \in S : want(t) = "main"
    BY <1>1, <1>2, <2>1 DEF Initialised, Mutex, MainLast
  <2>3. \A t \in S : "main" \notin inside[t]
    BY <1>1, <2>1 DEF MainLast
  <2>4. PICK t \in S : TRUE
    OBVIOUS
  <2>5. "main" \in inside[holder(t)] /\ holder(t) \in S
    BY <1>1, <2>2
  <2>6. QED
    BY <2>3, <2>5
<1>3. CASE UsePollThread
  <2>1. \A t \in S : t # Poller =>
          \/ inside[t] = {} /\ want(t) \in SessionMutex \cup {"main"}
          \/ inside[t] = {"sources"} /\ want(t) \in {"builder", "main", "packsent"}
          \/ inside[t] \in {{"builder"}, {"sources", "builder"}} /\ want(t) = "main"
    <3> SUFFICES ASSUME NEW t \in S, t # Poller,
                        "sources" \in inside[t] => want(t) \notin {"sched", "sources"}
                 PROVE  \/ inside[t] = {} /\ want(t) \in SessionMutex \cup {"main"}
                        \/ /\ inside[t] = {"sources"}
                           /\ want(t) \in {"builder", "main", "packsent"}
                        \/ /\ inside[t] \in {{"builder"}, {"sources", "builder"}}
                           /\ want(t) = "main"
      BY <1>3, <1>5
    <3>1. <<inside[t], want(t)>> \in AppPairs \cup AgainPairs
      BY <1>1, <1>3 DEF Order
    <3>2. QED
      BY <3>1, Pairs
  <2>2. \A t \in S : t = Poller =>
          \/ inside[t] = {} /\ want(t) \in {"sources", "sched", "main"}
          \/ /\ inside[t] = {"sources"}
             /\ want(t) \in {"builder", "main", "sched", "packsent"}
          \/ inside[t] = {"sources", "sched"} /\ want(t) = "main"
          \/ inside[t] = {"sched"} /\ want(t) = "sources"
          \/ inside[t] = {"main"} /\ want(t) = "wait"
          \/ inside[t] = {"wait"} /\ want(t) = "main"
    <3> SUFFICES ASSUME NEW t \in S, t = Poller
                 PROVE  <<inside[t], want(t)>> \in PollerPairs
      BY Pairs
    <3>1. QED
      BY <1>1 DEF Order
  \* Only the poll thread takes "wait", so it is not blocked there.
  <2>3. \A t \in S : want(t) # "wait"
    <3> SUFFICES ASSUME NEW t \in S, want(t) = "wait" PROVE FALSE
      OBVIOUS
    <3>1. t = Poller /\ inside[t] = {"main"}
      BY <2>1, <2>2 DEF SessionMutex
    <3>2. "wait" \in inside[holder(t)] /\ holder(t) # Poller
      BY <1>1, <3>1
    <3>3. QED
      BY <1>1, <2>1, <3>2
  \* Nobody waits inside "main", "builder" or "packsent".
  <2>4. \A t \in S : want(t) # "main"
    <3> SUFFICES ASSUME NEW t \in S, want(t) = "main" PROVE FALSE
      OBVIOUS
    <3>1. holder(t) \in S /\ "main" \in inside[holder(t)]
      BY <1>1
    <3>2. want(holder(t)) = "wait"
      BY <2>1, <2>2, <3>1
    <3>3. QED
      BY <2>3, <3>1, <3>2
  <2>5. \A t \in S : want(t) \notin {"builder", "packsent"}
    <3> SUFFICES ASSUME NEW t \in S, want(t) \in {"builder", "packsent"}
                 PROVE  FALSE
      OBVIOUS
    <3>1. /\ holder(t) \in S
          /\ "builder" \in inside[holder(t)] \/ "packsent" \in inside[holder(t)]
      BY <1>1
    <3>2. want(holder(t)) = "main"
      BY <2>1, <2>2, <3>1
    <3>3. QED
      BY <2>4, <3>1, <3>2
  \* Who is inside the table's section waits for the scheduler's, and is
  \* the poll thread; who is inside the scheduler's waits for the table's.
  <2>6. \A t \in S : want(t) # "sources"
    <3> SUFFICES ASSUME NEW t \in S, want(t) = "sources" PROVE FALSE
      OBVIOUS
    <3> DEFINE u == holder(t)
    <3>1. u \in S /\ "sources" \in inside[u]
      BY <1>1
    <3>2. u = Poller /\ want(u) = "sched" /\ inside[u] = {"sources"}
      BY <2>1, <2>2, <2>4, <2>5, <3>1
    <3>3. holder(u) \in S /\ "sched" \in inside[holder(u)]
      BY <1>1, <3>1, <3>2
    <3>4. holder(u) = Poller
      BY <2>1, <3>3
    <3>5. QED
      BY <3>2, <3>3, <3>4
  <2>7. \A t \in S : want(t) # "sched"
    <3> SUFFICES ASSUME NEW t \in S, want(t) = "sched" PROVE FALSE
      OBVIOUS
    <3>1. holder(t) \in S /\ "sched" \in inside[holder(t)]
      BY <1>1
    <3>2. want(holder(t)) \in {"sources", "main"}
      BY <2>1, <2>2, <3>1
    <3>3. QED
      BY <2>4, <2>6, <3>1, <3>2
  <2>8. QED
    BY <1>1, <2>3, <2>4, <2>5, <2>6, <2>7 DEF Mutex, SessionMutex
<1>4. QED
  BY <1>2, <1>3

(* However many threads the application has, they come to wait for one     *)
(* another, or for the poll thread, only through the two kinds of calls    *)
(* inside BeginDataAccess, and in a session without a poll thread never.   *)
THEOREM NeverDeadlocked == LocksSpec => []NoDeadlock
BY LocksInvariant, OrderPreventsDeadlock, PTL

(* With a poll thread, which is when SetNeedThreadSafety asks for it, no   *)
(* two threads are ever in sections of one mutex.                          *)
THEOREM SectionsAlwaysExclude ==
  ASSUME UsePollThread
  PROVE  LocksSpec => []SectionsExclude
<1>1. LocksInv => SectionsExclude
  BY DEF LocksInv, LocksTypeOK, OwnersInside, Initialised, SectionsExclude
<1>2. QED
  BY <1>1, LocksInvariant, PTL

-----------------------------------------------------------------------------
(* Waiting in the transmitter.                                             *)

(* The mutexes and the flag say where the threads are.                     *)
Holders ==
  /\ \A t \in Thread : At(t, "takeWait") <=> main = t
  /\ \A t \in Thread :
       pc[t] \in {"select", "relock", "unlockWait"} <=> wait = t
OneWaiter ==
  /\ \A t, u \in Waiters : t = u
  /\ waiting <=> Waiters # {}
OwnerDestroys ==
  /\ \A t \in Thread : pc[t] \in {"destroyWait", "destroyUnlock"} =>
       t = Owner /\ ~created
  /\ \A t \in Thread : At(t, "takeWait") => created
  /\ \A t \in Waiters : ~created => At(Owner, "destroyWait")
Inv == WaitTypeOK /\ Holders /\ OneWaiter /\ OwnerDestroys /\ ReadsOnlyBytes

LEMMA InitInv == WaitInit => Inv
<1> SUFFICES ASSUME WaitInit PROVE Inv OBVIOUS
<1>1. WaitTypeOK BY Zenon, WaitAssumption, 0 \in Nat DEF WaitInit, WaitTypeOK, Places
<1>2. Holders /\ OwnerDestroys /\ ReadsOnlyBytes
  BY WaitAssumption DEF WaitInit, Holders, OwnerDestroys, ReadsOnlyBytes, Waiters, At
<1>3. OneWaiter BY DEF WaitInit, OneWaiter, Waiters
<1> QED BY <1>1, <1>2, <1>3 DEF Inv

LEMMA TypeStep == ASSUME WaitTypeOK, [WaitNext]_waitvars PROVE WaitTypeOK'
<1> USE WaitAssumption DEF WaitTypeOK, Places, At, Go, pipe
<1>1. CASE Create BY <1>1 DEF Create
<1>2. CASE Destroy
  <2>1. bytes' \in Nat BY <1>2 DEF Destroy, PipeAfterDestroy
  <2>2. pc' \in [Thread -> Places] BY <1>2 DEF Destroy
  <2> QED BY <1>2, <2>1, <2>2 DEF Destroy
<1>3. CASE DestroyAwaits BY <1>3 DEF DestroyAwaits
<1>4. CASE DestroyEnds BY <1>4 DEF DestroyEnds
<1>5. ASSUME NEW t \in Thread, WaiterStep(t) PROVE WaitTypeOK'
  <2>1. CASE WaitBegin(t) BY <2>1 DEF WaitBegin
  <2>2. CASE TakeWait(t) BY <2>2 DEF TakeWait
  <2>3. CASE Woken(t) BY <2>3 DEF Woken, SelectReturns
  <2>4. CASE Expires(t) BY <2>4 DEF Expires, SelectReturns
  <2>5. CASE FinishWait(t)
    <3>1. main' \in Thread \cup {NoOne} /\ pc' \in [Thread -> Places]
      BY <2>5 DEF FinishWait
    <3>2. bytes' \in Nat
      <4>1. CASE created /\ heard[t] BY <2>5, <4>1 DEF FinishWait
      <4>2. CASE ~(created /\ heard[t]) BY <2>5, <4>2 DEF FinishWait
      <4> QED BY <4>1, <4>2
    <3> QED BY <2>5, <3>1, <3>2 DEF FinishWait
  <2>6. CASE EndWait(t) BY <2>6 DEF EndWait
  <2>7. CASE AbortWait(t) BY <2>7 DEF AbortWait
  <2>8. CASE Refused(t) BY <2>8 DEF Refused, waitvars, pipe
  <2> QED BY <1>5, <2>1, <2>2, <2>3, <2>4, <2>5, <2>6, <2>7, <2>8 DEF WaiterStep
<1>6. CASE UNCHANGED waitvars BY <1>6 DEF waitvars, pipe
<1> QED BY <1>1, <1>2, <1>3, <1>4, <1>5, <1>6 DEF WaitNext

LEMMA Step == ASSUME Inv, [WaitNext]_waitvars PROVE Inv'
<1>0. WaitTypeOK' BY TypeStep DEF Inv
<1> USE <1>0, WaitAssumption DEF Inv, WaitTypeOK, Places, At, Go, pipe, Holders, OneWaiter, OwnerDestroys, ReadsOnlyBytes, Waiters
<1>1. CASE Create BY <1>1 DEF Create
<1>2. CASE Destroy BY <1>2 DEF Destroy, PipeAfterDestroy
<1>3. CASE DestroyAwaits BY <1>3 DEF DestroyAwaits
<1>4. CASE DestroyEnds BY <1>4 DEF DestroyEnds
<1>5. ASSUME NEW t \in Thread, WaiterStep(t) PROVE Inv'
  <2>1. CASE WaitBegin(t) BY <2>1 DEF WaitBegin
  <2>2. CASE TakeWait(t) BY <2>2 DEF TakeWait
  <2>3. CASE Woken(t) BY <2>3 DEF Woken, SelectReturns
  <2>4. CASE Expires(t) BY <2>4 DEF Expires, SelectReturns
  <2>5. CASE FinishWait(t) BY <2>5 DEF FinishWait
  <2>6. CASE EndWait(t) BY <2>6 DEF EndWait
  <2>7. CASE AbortWait(t) BY <2>7 DEF AbortWait
  <2>8. CASE Refused(t) BY <2>8 DEF Refused, waitvars, pipe
  <2> QED BY <1>5, <2>1, <2>2, <2>3, <2>4, <2>5, <2>6, <2>7, <2>8 DEF WaiterStep
<1>6. CASE UNCHANGED waitvars BY <1>6 DEF waitvars, pipe
<1> QED BY <1>1, <1>2, <1>3, <1>4, <1>5, <1>6 DEF WaitNext

(* Flags, bytes and holders keep their form.                               *)
THEOREM TypeCorrect == WaitSpec => []WaitTypeOK
<1>1. Inv /\ [WaitNext]_waitvars => Inv' BY Step
<1>2. Inv => WaitTypeOK BY DEF Inv
<1> QED BY InitInv, <1>1, <1>2, PTL DEF WaitSpec

(* The pipe is read only when a byte is in it, for any number of waiting   *)
(* and aborting threads.                                                   *)
THEOREM NeverBlocksOnPipe == WaitSpec => []ReadsOnlyBytes
<1>1. Inv /\ [WaitNext]_waitvars => Inv' BY Step
<1>2. Inv => ReadsOnlyBytes BY DEF Inv
<1> QED BY InitInv, <1>1, <1>2, PTL DEF WaitSpec

(* No thread is inside a wait that still uses the sockets when Destroy is  *)
(* over.                                                                   *)
THEOREM DestroyLeavesNoWaiter == WaitSpec => []NoWaiterAfterDestroy
<1>1. Inv /\ [WaitNext]_waitvars => Inv' BY Step
<1>2. Inv => NoWaiterAfterDestroy
  BY WaitAssumption DEF Inv, OwnerDestroys, NoWaiterAfterDestroy, Waiters, At
<1> QED BY InitInv, <1>1, <1>2, PTL DEF WaitSpec

(* Both together: the wait is safe for any number of threads.              *)
THEOREM WaitIsSafe == WaitSpec => []WaitSafe
<1>1. WaitSafe <=> ReadsOnlyBytes /\ NoWaiterAfterDestroy BY DEF WaitSafe
<1> QED BY <1>1, NeverBlocksOnPipe, DestroyLeavesNoWaiter, PTL

-----------------------------------------------------------------------------
(* The poll thread.                                                        *)

(* Where a thread can be once JThread::Start has returned and as long as   *)
(* it has a transmitter to work with.                                      *)
AtWork == {"first", "loop", "enter", "select", "relock", "work", "again",
           "stopping", "exit"}

(* Only the last thread started can still be there, and the flag of the    *)
(* transmitter tells whether it waits.                                     *)
OneThread ==
  /\ \A t \in Threads : t # started => tpc[t] \in {"none", "ended"}
  /\ inwait => \E t \in Threads : tpc[t] \in {"select", "relock"}
  /\ \A t \in Threads : tpc[t] = "relock" /\ sawpipe => pipebytes > 0

(* The flag running is kept by the thread from the handshake on.           *)
Kept ==
  /\ alive /\ attached /\ started \in Threads
  /\ tpc[started] \in AtWork \cup {"ended"}
  /\ running <=> tpc[started] # "ended"

(* Stop waits for a thread that its byte has woken or will wake, and that  *)
(* has not been at work for longer than a round takes.                     *)
Answering ==
  /\ tpc[started] = "select" => pipebytes > 0 /\ elapsed = 0
  /\ tpc[started] = "relock" => elapsed = 0
  /\ tpc[started] = "work" => elapsed + left[started] <= MaxWork
  /\ tpc[started] \notin {"first", "loop", "enter"}
  /\ elapsed <= MaxWork

StopProtocol ==
  /\ app \in {"starting", "handshake"} =>
       /\ alive /\ attached /\ ~lost /\ started \in Threads
       /\ \/ app = "starting" /\ tpc[started] = "new" /\ ~running
          \/ tpc[started] = "launched" /\ running
  /\ app = "idle" /\ alive => Kept /\ ~lost
  /\ app = "abort" => Kept /\ ~lost /\ stop
  /\ app = "polling" => Kept /\ stop /\ (~lost => Answering)
  /\ app \in {"stopped", "closing", "destroying"} \/ (app = "idle" /\ ~alive)
       => Live = {} \/ lost
  /\ app = "destroying" => ~alive
  /\ \A t \in Threads : tpc[t] = "crashed" => lost

PollInv == PollTypeOK /\ OneThread /\ StopProtocol

-----------------------------------------------------------------------------
LEMMA PollInitInv == PollInit => PollInv
<1> SUFFICES ASSUME PollInit PROVE PollInv
  OBVIOUS
<1> USE PollThreadAssumption DEF PollInit, Threads
<1>1. /\ app \in AppPlaces
      /\ alive \in BOOLEAN /\ attached \in BOOLEAN /\ stop \in BOOLEAN
      /\ running \in BOOLEAN /\ inwait \in BOOLEAN /\ lost \in BOOLEAN
      /\ sawpipe \in BOOLEAN
  BY DEF AppPlaces
<1>2. /\ started \in 0 .. MaxThreads /\ tpc \in [Threads -> ThreadPlaces]
      /\ left \in [Threads -> 0 .. MaxDelay + MaxWork]
      /\ pipebytes \in Nat /\ elapsed \in 0 .. StopLimit + 1
      /\ rounds \in 0 .. MaxRounds
  BY DEF ThreadPlaces, MaxRounds
<1>3. OneThread
  BY DEF OneThread
<1>4. Live = {} /\ app = "idle" /\ ~alive
  BY DEF Live, Dead
<1>5. StopProtocol
  BY <1>4 DEF StopProtocol
<1>6. QED
  BY <1>1, <1>2, <1>3, <1>5 DEF PollInv, PollTypeOK

LEMMA PollTypeStep == PollTypeOK /\ OneThread /\ [PollNext]_pollvars => PollTypeOK'
<1> SUFFICES ASSUME PollTypeOK, OneThread, [PollNext]_pollvars
             PROVE  PollTypeOK'
  OBVIOUS
<1> USE PollThreadAssumption
    DEF PollTypeOK, Move, AppPlaces, ThreadPlaces, Threads, MaxRounds, thread,
        waitstate
<1>1. CASE Start
  <2>1. /\ app' \in AppPlaces
        /\ alive' \in BOOLEAN /\ attached' \in BOOLEAN /\ stop' \in BOOLEAN
        /\ running' \in BOOLEAN /\ inwait' \in BOOLEAN /\ lost' \in BOOLEAN
        /\ sawpipe' \in BOOLEAN
    BY <1>1 DEF Start
  <2>2. started' \in 0 .. MaxThreads /\ tpc' \in [Threads -> ThreadPlaces]
    BY <1>1 DEF Start
  <2>3. /\ left' \in [Threads -> 0 .. MaxDelay + MaxWork]
        /\ pipebytes' \in Nat /\ elapsed' \in 0 .. StopLimit + 1
        /\ rounds' \in 0 .. MaxRounds
    BY <1>1 DEF Start
  <2>4. QED
    BY <2>1, <2>2, <2>3
<1>2. CASE SeesRunning \/ Stop
  BY <1>2 DEF SeesRunning, Stop
<1>3. CASE StopAborts
  BY <1>3 DEF StopAborts
<1>4. CASE SeesStopped \/ Kill \/ Forget \/ Close \/ CloseEnds
  BY <1>4 DEF SeesStopped, Kill, Forget, Close, CloseEnds
<1>5. CASE Tick
  <2>1. left' \in [Threads -> 0 .. MaxDelay + MaxWork]
    BY <1>5 DEF Tick, Sleeping
  <2>2. elapsed' \in 0 .. StopLimit + 1
    BY <1>5 DEF Tick
  <2>3. QED
    BY <1>5, <2>1, <2>2 DEF Tick
<1>6. ASSUME NEW t \in Threads, ThreadStep(t) \/ Data(t)
      PROVE  PollTypeOK'
  <2>1. CASE Launch(t)
    <3>1. running' \in BOOLEAN /\ tpc' \in [Threads -> ThreadPlaces]
      BY <2>1 DEF Launch
    <3>2. QED
      BY <2>1, <3>1 DEF Launch
  <2>2. CASE ThreadStarted(t)
    BY <2>2 DEF ThreadStarted
  <2>3. CASE First(t)
    BY <2>3 DEF First
  <2>4. CASE GetDelay(t)
    BY <2>4 DEF GetDelay
  <2>5. CASE EnterWait(t)
    BY <2>5 DEF EnterWait
  <2>6. CASE PollReturns(t)
    BY <2>6 DEF PollReturns
  <2>7. CASE LeaveWait(t)
    <3>1. pipebytes' \in Nat
      BY <2>7 DEF LeaveWait, OneThread
    <3>2. rounds' \in 0 .. MaxRounds
      BY <2>7 DEF LeaveWait, MaxRounds
    <3>3. left' \in [Threads -> 0 .. MaxDelay + MaxWork]
      BY <2>7 DEF LeaveWait
    <3>4. QED
      BY <2>7, <3>1, <3>2, <3>3 DEF LeaveWait
  <2>8. CASE Work(t)
    BY <2>8 DEF Work
  <2>9. CASE ReadStop(t)
    BY <2>9 DEF ReadStop
  <2>10. CASE OnPollThreadStop(t)
    BY <2>10 DEF OnPollThreadStop
  <2>11. CASE Exit(t)
    <3>1. running' \in BOOLEAN /\ tpc' \in [Threads -> ThreadPlaces]
      BY <2>11 DEF Exit
    <3>2. QED
      BY <2>11, <3>1 DEF Exit
  <2>12. QED
    BY <1>6, <2>1, <2>2, <2>3, <2>4, <2>5, <2>6, <2>7, <2>8, <2>9, <2>10, <2>11
       DEF ThreadStep, Wakes, Data
<1>7. CASE UNCHANGED pollvars
  BY <1>7 DEF pollvars
<1>8. QED
  BY <1>1, <1>2, <1>3, <1>4, <1>5, <1>6, <1>7 DEF PollNext, StopStep

LEMMA OneThreadStep ==
  PollTypeOK /\ OneThread /\ [PollNext]_pollvars => OneThread'
<1> SUFFICES ASSUME PollTypeOK, OneThread, [PollNext]_pollvars
             PROVE  OneThread'
  OBVIOUS
<1> USE PollThreadAssumption
    DEF PollTypeOK, OneThread, Move, Threads, thread, waitstate
<1>1. CASE Start
  BY <1>1 DEF Start
<1>2. CASE SeesRunning \/ Stop
  BY <1>2 DEF SeesRunning, Stop
<1>3. CASE StopAborts
  BY <1>3 DEF StopAborts
<1>4. CASE SeesStopped \/ Kill \/ Forget \/ Close \/ CloseEnds
  BY <1>4 DEF SeesStopped, Kill, Forget, Close, CloseEnds
<1>5. CASE Tick
  BY <1>5 DEF Tick
<1>6. ASSUME NEW t \in Threads, ThreadStep(t) \/ Data(t)
      PROVE  OneThread'
  <2>1. CASE Launch(t)
    BY <2>1 DEF Launch
  <2>2. CASE ThreadStarted(t)
    BY <2>2 DEF ThreadStarted
  <2>3. CASE First(t)
    BY <2>3 DEF First
  <2>4. CASE GetDelay(t)
    BY <2>4 DEF GetDelay
  <2>5. CASE EnterWait(t)
    BY <2>5 DEF EnterWait
  <2>6. CASE PollReturns(t)
    BY <2>6 DEF PollReturns
  <2>7. CASE LeaveWait(t)
    BY <2>7 DEF LeaveWait
  <2>8. CASE Work(t)
    BY <2>8 DEF Work
  <2>9. CASE ReadStop(t)
    BY <2>9 DEF ReadStop
  <2>10. CASE OnPollThreadStop(t)
    BY <2>10 DEF OnPollThreadStop
  <2>11. CASE Exit(t)
    BY <2>11 DEF Exit
  <2>12. QED
    BY <1>6, <2>1, <2>2, <2>3, <2>4, <2>5, <2>6, <2>7, <2>8, <2>9, <2>10, <2>11
       DEF ThreadStep, Wakes, Data
<1>7. CASE UNCHANGED pollvars
  BY <1>7 DEF pollvars
<1>8. QED
  BY <1>1, <1>2, <1>3, <1>4, <1>5, <1>6, <1>7 DEF PollNext, StopStep

(* A thread that can take a step is the last one started, and is live.     *)
LEMMA LastActs ==
  ASSUME PollTypeOK, OneThread, NEW t \in Threads, ThreadStep(t) \/ Data(t)
  PROVE  t = started /\ Live # {}
<1>1. tpc[t] \notin Dead
  BY DEF ThreadStep, Data, Wakes, Launch, ThreadStarted, First, GetDelay,
         EnterWait, PollReturns, LeaveWait, Work, ReadStop, OnPollThreadStop,
         Exit, Dead
<1>2. QED
  BY <1>1 DEF OneThread, Live, Dead

LEMMA EndedIsLast ==
  ASSUME PollTypeOK, OneThread, started \in Threads, tpc[started] = "ended"
  PROVE  Live = {}
BY DEF OneThread, Live, Dead

LEMMA StopProtocolStep ==
  PollInv /\ [PollNext]_pollvars /\ MaxWork <= StopLimit => StopProtocol'
<1> SUFFICES ASSUME PollInv, [PollNext]_pollvars, MaxWork <= StopLimit
             PROVE  StopProtocol'
  OBVIOUS
<1>0. /\ PollTypeOK /\ OneThread /\ StopProtocol
      /\ tpc \in [Threads -> ThreadPlaces] /\ elapsed \in Nat
      /\ left \in [Threads -> Int] /\ pipebytes \in Nat
      /\ MaxWork \in Nat /\ StopLimit \in Nat
  BY PollThreadAssumption DEF PollInv, PollTypeOK
<1> USE DEF StopProtocol, Kept, Answering, thread, waitstate
<1>1. CASE Start
  <2>0. started' \in Threads /\ tpc' = [tpc EXCEPT ![started'] = "new"]
    <3>1. started \in Nat /\ started < MaxThreads /\ started' = started + 1
      BY <1>0, <1>1 DEF Start, PollTypeOK, Threads
    <3>2. started' \in Threads
      BY <3>1, PollThreadAssumption DEF Threads
    <3>3. QED
      BY <3>1, <3>2, <1>1 DEF Start, Move
  <2>1. /\ started' \in Threads /\ tpc'[started'] = "new"
        /\ \A t \in Threads : tpc'[t] # "crashed"
    <3>1. \A t \in Threads : tpc[t] \in {"none", "ended"}
      BY <1>1 DEF Start
    <3>2. tpc'[started'] = "new" /\ \A t \in Threads : t # started' => tpc'[t] = tpc[t]
      BY <1>0, <2>0
    <3>3. QED
      BY <2>0, <3>1, <3>2
  <2>2. QED
    BY <1>0, <1>1, <2>1 DEF Start
<1>2. ASSUME UNCHANGED tpc
      PROVE  UNCHANGED Live
  BY <1>2 DEF Live
<1>3. CASE SeesRunning
  BY <1>0, <1>2, <1>3 DEF SeesRunning
<1>4. CASE Stop
  <2>1. CASE running
    BY <1>0, <1>4, <2>1 DEF Stop
  <2>2. CASE ~running
    <3>1. Live = {} /\ UNCHANGED Live
      BY <1>0, <1>2, <1>4, <2>2, EndedIsLast DEF Stop
    <3>2. QED
      BY <1>0, <1>4, <2>2, <3>1 DEF Stop
  <2>3. QED
    BY <2>1, <2>2
<1>5. CASE StopAborts
  <2>1. ~lost' => tpc[started] \in {"select", "relock"} /\ pipebytes' > 0
    <3>1. SUFFICES ASSUME inwait
                   PROVE  tpc[started] \in {"select", "relock"} /\ pipebytes' > 0
      BY <1>5 DEF StopAborts
    <3>2. tpc[started] \in {"select", "relock"}
      BY <1>0, <3>1 DEF OneThread
    <3>3. QED
      BY <1>0, <1>5, <3>1, <3>2 DEF StopAborts
  <2>2. QED
    BY <1>0, <1>5, <2>1 DEF StopAborts
<1>6. CASE SeesStopped
  <2>1. Live = {} /\ UNCHANGED Live
    BY <1>0, <1>2, <1>6, EndedIsLast DEF SeesStopped
  <2>2. QED
    BY <1>0, <1>6, <2>1 DEF SeesStopped
<1>7. CASE Kill
  BY <1>0, <1>7 DEF Kill
<1>8. CASE Forget \/ Close \/ CloseEnds
  <2>1. (Live = {} \/ lost) /\ UNCHANGED <<Live, tpc, lost>>
    BY <1>0, <1>2, <1>8 DEF Forget, Close, CloseEnds
  <2>2. /\ app' \notin {"starting", "handshake", "abort", "polling"}
        /\ ~(app' = "idle" /\ alive') /\ (app' = "destroying" => ~alive')
    BY <1>0, <1>8 DEF Forget, Close, CloseEnds
  <2>3. QED
    BY <1>0, <2>1, <2>2
<1>9. CASE Tick
  <2>1. UNCHANGED Live
    BY <1>2, <1>9 DEF Tick
  <2>2. CASE app = "polling" /\ ~lost
    <3>1. tpc[started] # "ended" /\ started \in Live /\ Sleeping(started)
      BY <1>0, <1>9, <2>2 DEF Tick, Live, Dead, AtWork
    <3>2. /\ tpc[started] = "work" /\ left[started] > 0
          /\ left'[started] = left[started] - 1
      BY <1>0, <1>9, <2>2, <3>1 DEF Tick, Sleeping
    <3>3. elapsed' \in Nat /\ elapsed' <= elapsed + 1
      BY <1>0, <1>9 DEF Tick
    <3>4. elapsed' + left'[started] <= MaxWork /\ elapsed' <= MaxWork
      BY <1>0, <2>2, <3>2, <3>3, PollThreadAssumption DEF Tick
    <3>5. QED
      BY <1>0, <1>9, <2>1, <2>2, <3>2, <3>4 DEF Tick
  <2>3. CASE ~(app = "polling" /\ ~lost)
    BY <1>0, <1>9, <2>1, <2>3 DEF Tick
  <2>4. QED
    BY <2>2, <2>3
<1>10. ASSUME NEW t \in Threads, ThreadStep(t) \/ Data(t)
       PROVE  StopProtocol'
  <2> USE DEF Move, AtWork
  <2>0. t = started /\ Live # {}
    BY <1>0, <1>10, LastActs
  <2>1. CASE Launch(t)
    BY <1>0, <2>0, <2>1 DEF Launch
  <2>2. CASE ThreadStarted(t)
    BY <1>0, <2>0, <2>2 DEF ThreadStarted
  <2>3. CASE First(t)
    BY <1>0, <2>0, <2>3 DEF First
  <2>4. CASE GetDelay(t)
    BY <1>0, <2>0, <2>4 DEF GetDelay
  <2>5. CASE EnterWait(t)
    <3>1. CASE alive /\ attached
      BY <1>0, <2>0, <2>5, <3>1 DEF EnterWait
    <3>2. CASE ~(alive /\ attached)
      <4>1. lost' /\ app' \notin {"starting", "handshake", "abort", "polling"}
            /\ ~(app' = "idle" /\ alive') /\ (app' = "destroying" => ~alive')
        BY <1>0, <2>0, <2>5, <3>2 DEF EnterWait, PollTypeOK, AppPlaces
      <4>2. QED
        BY <4>1
    <3>3. QED
      BY <3>1, <3>2
  <2>6. CASE PollReturns(t)
    BY <1>0, <2>0, <2>6 DEF PollReturns
  <2>7. CASE LeaveWait(t)
    BY <1>0, <2>0, <2>7 DEF LeaveWait
  <2>8. CASE Work(t)
    <3>1. CASE alive /\ attached
      BY <1>0, <2>0, <2>8, <3>1 DEF Work
    <3>2. CASE ~(alive /\ attached)
      <4>1. lost' /\ app' \notin {"starting", "handshake", "abort", "polling"}
            /\ ~(app' = "idle" /\ alive') /\ (app' = "destroying" => ~alive')
        BY <1>0, <2>0, <2>8, <3>2 DEF Work, PollTypeOK, AppPlaces
      <4>2. QED
        BY <4>1
    <3>3. QED
      BY <3>1, <3>2
  <2>9. CASE ReadStop(t)
    BY <1>0, <2>0, <2>9 DEF ReadStop
  <2>10. CASE OnPollThreadStop(t)
    BY <1>0, <2>0, <2>10 DEF OnPollThreadStop
  <2>11. CASE Exit(t)
    BY <1>0, <2>0, <2>11 DEF Exit
  <2>12. QED
    BY <1>10, <2>1, <2>2, <2>3, <2>4, <2>5, <2>6, <2>7, <2>8, <2>9, <2>10,
       <2>11 DEF ThreadStep, Wakes, Data
<1>11. CASE UNCHANGED pollvars
  BY <1>0, <1>2, <1>11 DEF pollvars
<1>12. QED
  BY <1>1, <1>3, <1>4, <1>5, <1>6, <1>7, <1>8, <1>9, <1>10, <1>11
     DEF PollNext, StopStep

LEMMA PollInvSafe == PollInv => PollSafe
<1> SUFFICES ASSUME PollInv PROVE RunningTruthful /\ SurvivesOnlyIfLost
  BY DEF PollInv, PollSafe
<1>1. OneThread /\ StopProtocol /\ PollTypeOK
  BY DEF PollInv
<1>2. Kept => (tpc[started] = "ended" <=> Live = {})
  BY <1>1, EndedIsLast DEF Kept, Live, Dead, AtWork
<1>3. QED
  BY <1>1, <1>2 DEF StopProtocol, Kept, RunningTruthful, SurvivesOnlyIfLost,
                    StopReturned

(* Stop may rely on the flag running, and leaves a thread behind, which    *)
(* then goes through a cleared pointer, only if its abort came between the *)
(* thread's look at the flag and its wait; provided that a round of work   *)
(* takes no longer than Stop waits for it.                                 *)
THEOREM PollAlwaysSafe ==
  ASSUME MaxWork <= StopLimit
  PROVE  PollSpec => []PollSafe
<1>1. PollInv /\ [PollNext]_pollvars => PollInv'
  BY PollTypeStep, OneThreadStep, StopProtocolStep DEF PollInv
<1>2. QED
  BY <1>1, PollInitInv, PollInvSafe, PTL DEF PollSpec

-----------------------------------------------------------------------------
(* The sequence numbers of one source, for any modulus, any disorder in    *)
(* the network that stays below half a cycle, any length of the probation  *)
(* and any probation mode.                                                 *)

(* Distances.  Positions are compared over one end of a cycle at most.     *)

LEMMA WithinTransitive ==
  ASSUME NEW a \in Pair, NEW b \in Pair, NEW c \in Pair,
         NEW d \in Nat, NEW e \in Nat, d + e < SeqMod,
         Within(a, b, d), Within(b, c, e)
  PROVE  Within(a, c, d + e)
BY SourceDataAssumption DEF Within, Pair, Seqs

(* Of two positions close behind a third, one is close behind the other.   *)
LEMMA WithinSame ==
  ASSUME NEW a \in Pair, NEW b \in Pair, NEW c \in Pair,
         NEW d \in Nat, d < SeqMod,
         Within(a, c, d), Within(b, c, d)
  PROVE  Within(a, b, d) \/ Within(b, a, d)
BY SourceDataAssumption DEF Within, Pair, Seqs

(* What the network lets through, seen from the newest position.           *)
LEMMA Arriving ==
  ASSUME TypeOK, NEW p \in Pair, Arrives(p)
  PROVE  /\ newest' \in Pair
         /\ newest' \in {newest, p}
         /\ Within(p, newest', Lag)
         /\ newest # None => \/ Within(newest, p, Gap)
                             \/ Within(p, newest, Lag)
<1>1. newest \in Pair \cup {None} /\ newest' = IF Less(newest, p) THEN p ELSE newest
  BY DEF TypeOK, Arrives
<1>2. \A q \in Pair : q = p <=> q.cycle = p.cycle /\ q.seq = p.seq
  BY DEF Pair
<1>3. CASE newest = None
  BY <1>1, <1>3, SourceDataAssumption DEF Within, Less, Pair, Seqs, None
<1>4. CASE newest # None
  <2>1. newest \in Pair
    BY <1>1, <1>4
  <2>2. Within(newest, p, Gap) \/ Within(p, newest, Lag)
    BY <1>4 DEF Arrives
  <2>3. Within(p, newest', Lag)
    BY <1>1, <1>2, <2>1, <2>2, SourceDataAssumption DEF Within, Less, Pair, Seqs
  <2> QED
    BY <1>1, <2>1, <2>2, <2>3
<1> QED
  BY <1>3, <1>4

(* A packet is at most Gap + Lag positions away from any earlier one that  *)
(* is not more than Lag behind the newest.                                 *)
LEMMA ArrivesNear ==
  ASSUME TypeOK, NEW p \in Pair, Arrives(p), NEW q \in Pair,
         newest \in Pair, Within(q, newest, Lag)
  PROVE  Within(q, p, Gap + Lag) \/ Within(p, q, Gap + Lag)
<1>1. newest # None
  BY DEF None, Pair
<1>2. CASE Within(newest, p, Gap)
  BY <1>2, WithinTransitive, SourceDataAssumption
<1>3. CASE Within(p, newest, Lag)
  <2>1. Within(q, p, Lag) \/ Within(p, q, Lag)
    BY <1>3, WithinSame, SourceDataAssumption
  <2> QED
    BY <2>1, SourceDataAssumption DEF Within, Pair, Seqs
<1> QED
  BY <1>1, <1>2, <1>3, Arriving

(* NextSeq recognises the position that follows: no other one within reach *)
(* has that sequence number.                                               *)
LEMMA NextIsNext ==
  ASSUME NEW p \in Pair, NEW q \in Pair,
         Within(q, p, Gap + Lag) \/ Within(p, q, Gap + Lag)
  PROVE  p.seq = NextSeq(q.seq) <=> p # q /\ Within(q, p, 1)
<1>1. p = q <=> p.cycle = q.cycle /\ p.seq = q.seq
  BY DEF Pair
<1> QED
  BY <1>1, SourceDataAssumption DEF Within, NextSeq, Pair, Seqs

-----------------------------------------------------------------------------
(* The queue.                                                              *)

Entry == [num : Pair, pos : Pair]

Ascending(queue) ==
  \A i, j \in 1 .. Len(queue) : i < j => Less(queue[i].num, queue[j].num)

LEMMA LessTransitive ==
  ASSUME NEW a \in Pair, NEW b \in Pair, NEW c \in Pair
  PROVE  /\ Less(a, b) /\ Less(b, c) => Less(a, c)
         /\ ~Less(a, b) /\ a # b => Less(b, a)
<1>1. a = b <=> a.cycle = b.cycle /\ a.seq = b.seq
  BY DEF Pair
<1> QED
  BY <1>1, SourceDataAssumption DEF Less, Pair, Seqs

LEMMA Inserting ==
  ASSUME NEW queue \in Seq(Entry), NEW e \in Entry,
         NEW k \in 0 .. Len(queue)
  PROVE  /\ Inserted(queue, e, k) \in Seq(Entry)
         /\ Len(Inserted(queue, e, k)) = Len(queue) + 1
         /\ \A i \in 1 .. Len(queue) + 1 :
              /\ i <= k => Inserted(queue, e, k)[i] = queue[i]
              /\ i = k + 1 => Inserted(queue, e, k)[i] = e
              /\ i > k + 1 => Inserted(queue, e, k)[i] = queue[i - 1]
<1> DEFINE n == Len(queue)
           new == Inserted(queue, e, k)
<1>1. n \in Nat /\ \A i \in 1 .. n : queue[i] \in Entry
  OBVIOUS
<1>2. new \in [1 .. n + 1 -> Entry]
  BY <1>1 DEF Inserted
<1>3. new \in Seq(Entry) /\ Len(new) = n + 1
  BY <1>1, <1>2, SeqDef
<1> QED
  BY <1>1, <1>3 DEF Inserted

(* The insertion keeps the queue sorted: the packet goes behind all lower  *)
(* numbers and before all higher ones.                                     *)
LEMMA InsertedAscending ==
  ASSUME NEW queue \in Seq(Entry), Ascending(queue), NEW e \in Entry,
         NEW k \in 0 .. Len(queue), Place(queue, e.num, k),
         ~(k > 0 /\ queue[k].num = e.num)
  PROVE  Ascending(Inserted(queue, e, k))
<1> DEFINE new == Inserted(queue, e, k)
<1>1. /\ e.num \in Pair
      /\ \A i \in 1 .. Len(queue) : queue[i].num \in Pair
  <2>1. \A i \in 1 .. Len(queue) : queue[i] \in Entry
    OBVIOUS
  <2> QED
    BY <2>1 DEF Entry
<1>2. \A i \in 1 .. k : Less(queue[i].num, e.num)
  <2> SUFFICES ASSUME NEW i \in 1 .. k
               PROVE  Less(queue[i].num, e.num)
    OBVIOUS
  <2>1. i \in 1 .. Len(queue) /\ k \in 1 .. Len(queue)
    OBVIOUS
  <2>2. Less(queue[k].num, e.num)
    BY <1>1, <2>1, LessTransitive DEF Place
  <2>3. CASE i < k
    BY <1>1, <2>1, <2>2, <2>3, LessTransitive DEF Ascending
  <2> QED
    BY <2>2, <2>3
<1>3. \A i \in k + 1 .. Len(queue) : Less(e.num, queue[i].num)
  BY DEF Place
<1>4. /\ Len(new) = Len(queue) + 1
      /\ \A i \in 1 .. Len(queue) + 1 :
           /\ i <= k => new[i] = queue[i]
           /\ i = k + 1 => new[i] = e
           /\ i > k + 1 => new[i] = queue[i - 1]
  BY Inserting
<1> HIDE DEF new
<1>5. ASSUME NEW i \in 1 .. Len(new), NEW j \in 1 .. Len(new), i < j
      PROVE  Less(new[i].num, new[j].num)
  <2>1. CASE j <= k
    BY <1>4, <1>5, <2>1 DEF Ascending
  <2>2. CASE j = k + 1
    BY <1>2, <1>4, <1>5, <2>2
  <2>3. CASE j > k + 1 /\ i <= k
    BY <1>4, <1>5, <2>3 DEF Ascending
  <2>4. CASE j > k + 1 /\ i = k + 1
    BY <1>3, <1>4, <1>5, <2>4
  <2>5. CASE i > k + 1
    BY <1>4, <1>5, <2>5 DEF Ascending
  <2> QED
    BY <1>5, <2>1, <2>2, <2>3, <2>4, <2>5
<1> QED
  BY <1>5 DEF Ascending, new

(* What Store does: one packet more, or none; the others stay as they are. *)
LEMMA Storing ==
  ASSUME NEW queue \in Seq(Entry), Ascending(queue),
         NEW num \in Pair, NEW p \in Pair, Store(queue, num, p)
  PROVE  /\ packetlist' \in Seq(Entry)
         /\ Ascending(packetlist')
         /\ Len(packetlist') <= Len(queue) + 1
         /\ \A i \in 1 .. Len(packetlist') :
              \/ packetlist'[i] = [num |-> num, pos |-> p]
              \/ \E j \in 1 .. Len(queue) : packetlist'[i] = queue[j]
<1> DEFINE e == [num |-> num, pos |-> p]
<1>1. e \in Entry /\ e.num = num
  BY DEF Entry
<1>2. PICK k \in 0 .. Len(queue) :
        /\ Place(queue, num, k)
        /\ packetlist' = IF k > 0 /\ queue[k].num = num THEN queue
                         ELSE Inserted(queue, e, k)
  BY DEF Store
<1>3. Len(queue) \in Nat
  OBVIOUS
<1>4. CASE k > 0 /\ queue[k].num = num
  BY <1>2, <1>3, <1>4
<1>5. CASE ~(k > 0 /\ queue[k].num = num)
  <2> HIDE DEF e
  <2>1. packetlist' = Inserted(queue, e, k)
    BY <1>2, <1>5
  <2>2. Ascending(packetlist')
    BY <1>1, <1>2, <1>5, <2>1, InsertedAscending
  <2>3. /\ packetlist' \in Seq(Entry)
        /\ Len(packetlist') = Len(queue) + 1
        /\ \A i \in 1 .. Len(queue) + 1 :
             /\ i <= k => packetlist'[i] = queue[i]
             /\ i = k + 1 => packetlist'[i] = e
             /\ i > k + 1 => packetlist'[i] = queue[i - 1]
    BY <1>1, <2>1, Inserting
  <2>4. ASSUME NEW i \in 1 .. Len(packetlist')
        PROVE  \/ packetlist'[i] = e
               \/ \E j \in 1 .. Len(queue) : packetlist'[i] = queue[j]
    <3>1. CASE i <= k
      BY <1>3, <2>3, <3>1
    <3>2. CASE i = k + 1
      BY <2>3, <3>2
    <3>3. CASE i > k + 1
      <4>1. i - 1 \in 1 .. Len(queue) /\ packetlist'[i] = queue[i - 1]
        BY <1>3, <2>3, <3>3
      <4> QED
        BY <4>1
    <3> QED
      BY <1>3, <3>1, <3>2, <3>3
  <2> QED
    BY <1>3, <2>2, <2>3, <2>4 DEF e
<1> QED
  BY <1>4, <1>5

(* Losing its first packet leaves a queue sorted.                          *)
LEMMA TailAscending ==
  ASSUME NEW queue \in Seq(Entry), queue # <<>>, Ascending(queue)
  PROVE  /\ Tail(queue) \in Seq(Entry)
         /\ Ascending(Tail(queue))
         /\ Len(Tail(queue)) = Len(queue) - 1
         /\ \A i \in 1 .. Len(Tail(queue)) : Tail(queue)[i] = queue[i + 1]
<1>1. /\ Tail(queue) \in Seq(Entry)
      /\ Len(Tail(queue)) = Len(queue) - 1
      /\ \A i \in 1 .. Len(Tail(queue)) : Tail(queue)[i] = queue[i + 1]
  BY HeadTailProperties
<1>2. Ascending(Tail(queue))
  BY <1>1 DEF Ascending
<1> QED
  BY <1>1, <1>2

-----------------------------------------------------------------------------
(* The inductive invariant.                                                *)

(* What probation counts, until the source is valid.                       *)
Counting ==
  ~validated =>
    /\ ~sentdata
    /\ ProbationType = "NoProbation" => probation = 0
    /\ probation = 0 => run = 0 /\ last = None
    /\ probation > 0 => /\ last \in Pair /\ prevseqnr = last.seq
                        /\ run = ProbationCount - probation + 1

(* The positions that are compared stay close behind the newest one.       *)
Following ==
  /\ last \in Pair => newest \in Pair /\ Within(last, newest, Lag)
  /\ sentdata => newest \in Pair /\ Within(highest, newest, Lag)

(* Packets held on probation have no cycle yet.                            *)
Held ==
  ~sentdata =>
    /\ \A i \in 1 .. Len(packetlist) :
         packetlist[i].num = Raw(packetlist[i].pos)
    /\ ~disturbed =>
         \A i, j \in 1 .. Len(packetlist) :
           packetlist[i].pos.cycle = packetlist[j].pos.cycle

IInv ==
  /\ TypeOK
  /\ QueueAscending
  /\ ProbationBounded
  /\ Counting
  /\ Following
  /\ Held
  /\ NumbersExact

LEMMA InitIInv == Init => IInv
<1> SUFFICES ASSUME Init PROVE IInv
  OBVIOUS
<1>1. packetlist \in Seq([num : Pair, pos : Pair]) /\ Len(packetlist) = 0
  BY DEF Init
<1>2. TypeOK
  <2>1. exthighseqnr \in Pair /\ prevseqnr \in Seqs
    BY SourceDataAssumption DEF Init, Pair, Seqs
  <2>2. probation \in 0 .. ProbationCount /\ run \in 0 .. ProbationCount + 1
    BY SourceDataAssumption DEF Init
  <2>3. {newest, highest, last} \subseteq Pair \cup {None}
    BY DEF Init
  <2> QED
    BY <1>1, <2>1, <2>2, <2>3 DEF Init, TypeOK
<1>3. QueueAscending /\ ProbationBounded /\ Held /\ NumbersExact
  BY <1>1, SourceDataAssumption
     DEF Init, QueueAscending, ProbationBounded, Held, NumbersExact
<1>4. Counting /\ Following
  BY DEF Init, Counting, Following, None, Pair
<1> QED
  BY <1>2, <1>3, <1>4 DEF IInv

(* A packet takes the place of last, and of highest if it is the first to  *)
(* be accepted or ahead of it.                                             *)
LEMMA StillFollowing ==
  ASSUME IInv, NEW p \in Pair, Arrives(p),
         sentdata' => \/ highest' = p
                      \/ /\ sentdata /\ highest' = highest
                         /\ ~Less(highest, p)
  PROVE  Following'
<1>1. /\ newest' \in Pair /\ Within(p, newest', Lag)
      /\ newest' = IF Less(newest, p) THEN p ELSE newest
  BY Arriving DEF IInv, Arrives
<1>2. last' \in Pair => newest' \in Pair /\ Within(last', newest', Lag)
  BY <1>1 DEF Arrives, None, Pair
<1>3. ASSUME sentdata, highest' = highest, ~Less(highest, p)
      PROVE  Within(highest', newest', Lag)
  <2>1. /\ highest \in Pair /\ newest \in Pair
        /\ Within(highest, newest, Lag)
    BY <1>3 DEF IInv, TypeOK, Following
  <2>2. ~Less(newest, p)
    BY <1>3, <2>1, SourceDataAssumption DEF Less, Within, Pair, Seqs
  <2> QED
    BY <1>1, <1>3, <2>1, <2>2
<1> QED
  BY <1>1, <1>2, <1>3 DEF Following, Within

(* On probation, the next number is expected exactly when the position     *)
(* that follows the last one arrives.                                      *)
LEMMA ExpectedIsNext ==
  ASSUME IInv, NEW p \in Pair, Arrives(p), ApplyProbation
  PROVE  /\ Expected(p) => run' = run + 1
         /\ ~Expected(p) => run' = 1
<1>1. ~validated
  BY DEF ApplyProbation
<1>2. CASE probation = 0
  BY <1>1, <1>2, SourceDataAssumption DEF IInv, Counting, Expected, Arrives
<1>3. CASE probation > 0
  <2>1. last \in Pair /\ prevseqnr = last.seq /\ last # None
    BY <1>1, <1>3 DEF IInv, Counting, None, Pair
  <2>2. Within(last, p, Gap + Lag) \/ Within(p, last, Gap + Lag)
    BY <2>1, ArrivesNear DEF IInv, Following
  <2>3. Expected(p) <=> p # last /\ Within(last, p, 1)
    BY <1>3, <2>1, <2>2, NextIsNext DEF Expected
  <2> QED
    BY <1>1, <2>1, <2>3 DEF Arrives
<1> QED
  BY <1>2, <1>3 DEF IInv, TypeOK

-----------------------------------------------------------------------------
(* A packet on probation.                                                  *)

LEMMA MakingRoom ==
  ASSUME IInv, ~validated
  PROVE  LET queue == MakeRoom(packetlist)
         IN  /\ queue \in Seq(Entry)
             /\ Ascending(queue)
             /\ Len(queue) < MaxProbationPackets
             /\ \A i \in 1 .. Len(queue) :
                  \E j \in 1 .. Len(packetlist) : queue[i] = packetlist[j]
<1>1. /\ packetlist \in Seq(Entry)
      /\ Ascending(packetlist)
      /\ Len(packetlist) <= MaxProbationPackets
  BY DEF IInv, TypeOK, Entry, QueueAscending, Ascending, ProbationBounded
<1>2. Len(packetlist) \in Nat
  BY <1>1
<1>3. CASE Len(packetlist) = MaxProbationPackets
  <2>1. packetlist # <<>>
    BY <1>3, SourceDataAssumption
  <2>2. /\ Tail(packetlist) \in Seq(Entry)
        /\ Ascending(Tail(packetlist))
        /\ Len(Tail(packetlist)) = Len(packetlist) - 1
        /\ \A i \in 1 .. Len(Tail(packetlist)) :
             Tail(packetlist)[i] = packetlist[i + 1]
    BY <1>1, <2>1, TailAscending
  <2>3. \A i \in 1 .. Len(Tail(packetlist)) :
          \E j \in 1 .. Len(packetlist) : Tail(packetlist)[i] = packetlist[j]
    BY <1>2, <2>2
  <2> QED
    BY <1>2, <1>3, <2>2, <2>3, SourceDataAssumption DEF MakeRoom
<1>4. CASE Len(packetlist) # MaxProbationPackets
  BY <1>1, <1>2, <1>4, SourceDataAssumption DEF MakeRoom
<1> QED
  BY <1>3, <1>4

LEMMA HoldBackIInv ==
  ASSUME IInv, NEW p \in Pair, HoldBack(p)
  PROVE  IInv'
<1>1. /\ Arrives(p) /\ ApplyProbation /\ ~validated /\ ~sentdata
      /\ ~validated' /\ ~sentdata'
      /\ ProbationType # "NoProbation"
  BY DEF HoldBack, ApplyProbation
<1>2. /\ probation \in 0 .. ProbationCount
      /\ probation' = IF Expected(p) THEN probation - 1 ELSE ProbationCount
      /\ Expected(p) => probation > 1
      /\ probation' \in 1 .. ProbationCount
  BY SourceDataAssumption DEF IInv, TypeOK, HoldBack, Expected
<1>3. run' = ProbationCount - probation' + 1
  <2>1. Expected(p) => run' = run + 1 /\ run = ProbationCount - probation + 1
    BY <1>1, <1>2, ExpectedIsNext DEF IInv, Counting
  <2>2. ~Expected(p) => run' = 1
    BY <1>1, ExpectedIsNext
  <2> QED
    BY <1>2, <2>1, <2>2, SourceDataAssumption
<1>4. last' = p /\ p \in Pair /\ newest' \in Pair
  BY <1>1, Arriving DEF Arrives, IInv
<1>5. /\ packetlist' \in Seq(Entry)
      /\ Ascending(packetlist')
      /\ Len(packetlist') <= MaxProbationPackets
      /\ Held'
  <2>1. CASE ProbationType = "ProbationStore"
    <3> DEFINE queue == MakeRoom(packetlist)
    <3>1. /\ queue \in Seq(Entry)
          /\ Ascending(queue)
          /\ Len(queue) < MaxProbationPackets
          /\ \A i \in 1 .. Len(queue) :
               \E j \in 1 .. Len(packetlist) : queue[i] = packetlist[j]
      BY <1>1, MakingRoom
    <3> HIDE DEF queue
    <3>2. Raw(p) \in Pair
      BY DEF Raw, Pair
    <3>3. Store(queue, Raw(p), p)
      BY <2>1 DEF HoldBack, queue
    <3>4. /\ packetlist' \in Seq(Entry)
          /\ Ascending(packetlist')
          /\ Len(packetlist') <= Len(queue) + 1
          /\ \A i \in 1 .. Len(packetlist') :
               \/ packetlist'[i] = [num |-> Raw(p), pos |-> p]
               \/ \E j \in 1 .. Len(queue) : packetlist'[i] = queue[j]
      BY <3>1, <3>2, <3>3, Storing
    <3>5. \A i \in 1 .. Len(packetlist') :
            \/ packetlist'[i] = [num |-> Raw(p), pos |-> p]
            \/ \E j \in 1 .. Len(packetlist) : packetlist'[i] = packetlist[j]
      BY <3>1, <3>4
    <3>6. \A i \in 1 .. Len(packetlist') :
            packetlist'[i].num = Raw(packetlist'[i].pos)
      BY <1>1, <3>5 DEF IInv, Held
    <3>7. ~disturbed' =>
            \A i \in 1 .. Len(packetlist') : packetlist'[i].pos.cycle = p.cycle
      <4>1. disturbed' <=> disturbed \/ HeldFromOther(p.cycle)
        BY <2>1 DEF HoldBack
      <4>2. ~disturbed' =>
              \A j \in 1 .. Len(packetlist) : packetlist[j].pos.cycle = p.cycle
        BY <4>1 DEF HeldFromOther
      <4> QED
        BY <3>5, <4>2
    <3>8. Len(queue) \in Nat /\ Len(packetlist') \in Nat
      BY <3>1, <3>4
    <3> QED
      BY <3>1, <3>4, <3>6, <3>7, <3>8, SourceDataAssumption DEF Held, Raw
  <2>2. CASE ProbationType # "ProbationStore"
    <3>1. packetlist' = packetlist /\ disturbed' = disturbed
      BY <2>2 DEF HoldBack
    <3> QED
      BY <1>1, <3>1
         DEF IInv, TypeOK, Entry, QueueAscending, Ascending, ProbationBounded,
             Held, Raw
  <2> QED
    BY <2>1, <2>2
<1>6. disturbed' \in BOOLEAN /\ prevseqnr' = p.seq /\ exthighseqnr' = exthighseqnr
      /\ highest' = highest
  BY DEF HoldBack, IInv, TypeOK, HeldFromOther
<1>7. TypeOK'
  <2>1. {newest', highest', last'} \subseteq Pair \cup {None}
    BY <1>4, <1>6 DEF IInv, TypeOK
  <2>2. probation' \in 0 .. ProbationCount /\ run' \in 0 .. ProbationCount + 1
    BY <1>2, <1>3, SourceDataAssumption
  <2>3. prevseqnr' \in Seqs /\ exthighseqnr' \in Pair
    BY <1>6 DEF IInv, TypeOK, Pair
  <2>4. validated' \in BOOLEAN /\ sentdata' \in BOOLEAN
    BY DEF HoldBack, IInv, TypeOK
  <2> QED
    BY <1>1, <1>5, <1>6, <2>1, <2>2, <2>3, <2>4 DEF TypeOK, Entry
<1>8. Counting' /\ Following'
  BY <1>1, <1>2, <1>3, <1>4, <1>6, StillFollowing
     DEF Counting, HoldBack, ApplyProbation
<1>9. QueueAscending' /\ ProbationBounded' /\ NumbersExact'
  BY <1>1, <1>5
     DEF QueueAscending, Ascending, ProbationBounded, NumbersExact
<1> QED
  BY <1>5, <1>7, <1>8, <1>9 DEF IInv

(* The first packet that is accepted, with those kept since probation.     *)
LEMMA AcceptFirstIInv ==
  ASSUME IInv, NEW p \in Pair, AcceptFirst(p)
  PROVE  IInv'
<1> DEFINE cycle == IF p.seq = 0 THEN p.cycle - 1 ELSE p.cycle
<1>1. /\ Arrives(p) /\ ~sentdata
      /\ validated' = TRUE /\ sentdata' = TRUE
      /\ highest' = p /\ exthighseqnr' = FirstNumber(p)
      /\ Store(packetlist, FirstNumber(p), p)
  BY DEF AcceptFirst
<1>2. disturbed' <=> disturbed \/ HeldFromOther(cycle)
  BY DEF AcceptFirst
<1>3. FirstNumber(p) \in Pair /\ cycle \in Int
  BY DEF FirstNumber, Pair
<1>4. newest' \in Pair
  BY <1>1, Arriving DEF IInv
<1>5. packetlist \in Seq(Entry) /\ Ascending(packetlist)
  BY DEF IInv, TypeOK, Entry, QueueAscending, Ascending
<1>6. /\ packetlist' \in Seq(Entry)
      /\ Ascending(packetlist')
      /\ \A i \in 1 .. Len(packetlist') :
           \/ packetlist'[i] = [num |-> FirstNumber(p), pos |-> p]
           \/ \E j \in 1 .. Len(packetlist) : packetlist'[i] = packetlist[j]
  BY <1>1, <1>3, <1>5, Storing
<1>7. TypeOK'
  <2>1. {newest', highest', last'} \subseteq Pair \cup {None}
    BY <1>1, <1>4 DEF Arrives
  <2>2. run' \in 0 .. ProbationCount + 1
    <3>1. CASE ApplyProbation
      <4>1. Expected(p) /\ probation = 1
        BY <3>1 DEF AcceptFirst
      <4>2. run = ProbationCount
        BY <3>1, <4>1, SourceDataAssumption DEF IInv, Counting, ApplyProbation
      <4> QED
        BY <1>1, <3>1, <4>1, <4>2, ExpectedIsNext, SourceDataAssumption
    <3>2. CASE ~ApplyProbation
      BY <1>1, <3>2, SourceDataAssumption
         DEF IInv, TypeOK, Counting, ApplyProbation, Arrives
    <3> QED
      BY <3>1, <3>2
  <2>3. probation' \in 0 .. ProbationCount /\ prevseqnr' \in Seqs
    BY SourceDataAssumption DEF IInv, TypeOK, AcceptFirst, Pair
  <2>4. disturbed' \in BOOLEAN
    BY DEF AcceptFirst
  <2> QED
    BY <1>1, <1>3, <1>6, <2>1, <2>2, <2>3, <2>4 DEF TypeOK, Entry
<1>8. NumbersExact'
  <2> SUFFICES ASSUME ~disturbed', NEW i \in 1 .. Len(packetlist')
               PROVE  /\ packetlist'[i].num.seq = packetlist'[i].pos.seq
                      /\ Shift(packetlist'[i].num, packetlist'[i].pos) =
                           Shift(exthighseqnr', highest')
    BY <1>1 DEF NumbersExact, FirstNumber
  <2>1. CASE packetlist'[i] = [num |-> FirstNumber(p), pos |-> p]
    BY <1>1, <2>1 DEF FirstNumber
  <2>2. ASSUME NEW j \in 1 .. Len(packetlist), packetlist'[i] = packetlist[j]
        PROVE  /\ packetlist'[i].num.seq = packetlist'[i].pos.seq
               /\ Shift(packetlist'[i].num, packetlist'[i].pos) =
                    Shift(exthighseqnr', highest')
    <3>1. packetlist[j].num = Raw(packetlist[j].pos)
      BY <1>1 DEF IInv, Held
    <3>2. packetlist[j].pos.cycle = cycle
      BY <1>2 DEF HeldFromOther
    <3>3. Shift(exthighseqnr', highest') = 0 - cycle
      BY <1>1 DEF Shift, FirstNumber, Pair
    <3> QED
      BY <2>2, <3>1, <3>2, <3>3 DEF Raw, Shift
  <2> QED
    BY <1>6, <2>1, <2>2
<1>9. Following'
  BY <1>1, StillFollowing
<1>10. QueueAscending' /\ ProbationBounded' /\ Counting' /\ Held'
  BY <1>1, <1>6
     DEF QueueAscending, Ascending, ProbationBounded, Counting, Held
<1> QED
  BY <1>7, <1>8, <1>9, <1>10 DEF IInv

-----------------------------------------------------------------------------
(* Later packets.                                                          *)

(* Accepting a packet keeps the invariant when its number has the shift    *)
(* that the highest number has, unless cycles came out of order, and when  *)
(* it counts as the highest number exactly if it is not behind it.         *)
LEMMA AcceptIInv ==
  ASSUME IInv, NEW p \in Pair, NEW num \in Pair, NEW counts \in BOOLEAN,
         Accept(p, num, counts),
         ~disturbed' => /\ num.seq = p.seq
                        /\ Shift(num, p) = Shift(exthighseqnr, highest)
                        /\ counts => ~Less(p, highest)
                        /\ ~counts => ~Less(highest, p)
  PROVE  IInv'
<1>1. /\ Arrives(p) /\ sentdata /\ Store(packetlist, num, p)
      /\ exthighseqnr' = IF counts THEN num ELSE exthighseqnr
      /\ highest' = IF Less(highest, p) THEN p ELSE highest
      /\ validated' = validated /\ sentdata' = sentdata
      /\ probation' = probation /\ prevseqnr' = prevseqnr
  BY DEF Accept
<1>2. /\ validated /\ validated' /\ sentdata'
      /\ highest \in Pair /\ exthighseqnr \in Pair
  BY <1>1 DEF IInv, TypeOK
<1>3. disturbed' \in BOOLEAN /\ (disturbed' <=> disturbed \/ p.cycle < highest.cycle)
  BY DEF Accept
<1>4. newest' \in Pair
  BY <1>1, Arriving DEF IInv
<1>5. packetlist \in Seq(Entry) /\ Ascending(packetlist)
  BY DEF IInv, TypeOK, Entry, QueueAscending, Ascending
<1>6. /\ packetlist' \in Seq(Entry)
      /\ Ascending(packetlist')
      /\ \A i \in 1 .. Len(packetlist') :
           \/ packetlist'[i] = [num |-> num, pos |-> p]
           \/ \E j \in 1 .. Len(packetlist) : packetlist'[i] = packetlist[j]
  BY <1>1, <1>5, Storing
<1>7. TypeOK'
  <2>1. {newest', highest', last'} \subseteq Pair \cup {None}
    BY <1>1, <1>2, <1>4 DEF Arrives
  <2>2. run' \in 0 .. ProbationCount + 1
    BY <1>1, <1>2, SourceDataAssumption DEF Arrives
  <2>3. exthighseqnr' \in Pair /\ highest' \in Pair
    BY <1>1, <1>2
  <2> QED
    BY <1>1, <1>2, <1>3, <1>6, <2>1, <2>2, <2>3 DEF IInv, TypeOK, Entry
<1>8. NumbersExact'
  <2> SUFFICES ASSUME ~disturbed'
               PROVE  /\ exthighseqnr'.seq = highest'.seq
                      /\ \A i \in 1 .. Len(packetlist') :
                           /\ packetlist'[i].num.seq = packetlist'[i].pos.seq
                           /\ Shift(packetlist'[i].num, packetlist'[i].pos) =
                                Shift(exthighseqnr', highest')
    BY DEF NumbersExact
  <2>1. /\ exthighseqnr.seq = highest.seq
        /\ \A j \in 1 .. Len(packetlist) :
             /\ packetlist[j].num.seq = packetlist[j].pos.seq
             /\ Shift(packetlist[j].num, packetlist[j].pos) =
                  Shift(exthighseqnr, highest)
    BY <1>1, <1>3 DEF IInv, NumbersExact
  <2>2. /\ exthighseqnr'.seq = highest'.seq
        /\ Shift(exthighseqnr', highest') = Shift(exthighseqnr, highest)
    <3>1. CASE counts /\ Less(highest, p)
      BY <1>1, <3>1
    <3>2. CASE counts /\ ~Less(highest, p)
      BY <1>1, <1>2, <2>1, <3>2, LessTransitive
    <3>3. CASE ~counts
      BY <1>1, <2>1, <3>3
    <3> QED
      BY <3>1, <3>2, <3>3
  <2> QED
    BY <1>6, <2>1, <2>2
<1>9. Following'
  BY <1>1, StillFollowing
<1>10. QueueAscending' /\ ProbationBounded' /\ Counting' /\ Held'
  BY <1>2, <1>6
     DEF QueueAscending, Ascending, ProbationBounded, Counting, Held
<1> QED
  BY <1>7, <1>8, <1>9, <1>10 DEF IInv

(* The three cases of the code find the cycle of a packet: if it is not    *)
(* behind the highest one's cycle, it is ahead or behind by less than half *)
(* a cycle.                                                                *)
LEMMA LaterIInv ==
  ASSUME IInv, NEW p \in Pair, Forward(p) \/ WrapAround(p) \/ Late(p)
  PROVE  IInv'
<1>1. Arrives(p) /\ sentdata /\ disturbed' = (disturbed \/ p.cycle < highest.cycle)
  BY DEF Forward, WrapAround, Late, Accept
<1>2. /\ highest \in Pair /\ exthighseqnr \in Pair /\ newest \in Pair
      /\ Within(highest, newest, Lag)
  BY <1>1 DEF IInv, TypeOK, Following
<1>3. Within(highest, p, Gap + Lag) \/ Within(p, highest, Gap + Lag)
  BY <1>1, <1>2, ArrivesNear DEF IInv
<1>4. ~disturbed' => /\ exthighseqnr.seq = highest.seq
                     /\ p.cycle >= highest.cycle
  <2>1. ~disturbed' => ~disturbed /\ ~(p.cycle < highest.cycle)
    BY <1>1
  <2> QED
    BY <1>1, <1>2, <2>1 DEF IInv, NumbersExact, Pair
<1>5. CASE Forward(p)
  <2> DEFINE num == [cycle |-> exthighseqnr.cycle, seq |-> p.seq]
  <2>1. num \in Pair /\ Accept(p, num, TRUE)
    BY <1>2, <1>5 DEF Forward, Pair
  <2>2. ~disturbed' => p.cycle = highest.cycle /\ p.seq >= highest.seq
    BY <1>2, <1>3, <1>4, <1>5, SourceDataAssumption
       DEF Forward, Within, Pair, Seqs
  <2>3. ~disturbed' => /\ Shift(num, p) = Shift(exthighseqnr, highest)
                       /\ ~Less(p, highest)
    BY <1>2, <2>2 DEF Shift, Less, Pair, Seqs
  <2> QED
    BY <2>1, <2>3, AcceptIInv
<1>6. CASE WrapAround(p)
  <2> DEFINE num == [cycle |-> exthighseqnr.cycle + 1, seq |-> p.seq]
  <2>1. num \in Pair /\ Accept(p, num, TRUE)
    <3>1. exthighseqnr.cycle + 1 \in Nat /\ p.seq \in Seqs
      BY <1>2 DEF Pair
    <3> QED
      BY <1>6, <3>1 DEF WrapAround, Pair
  <2>2. ~disturbed' => p.cycle = highest.cycle + 1
    BY <1>2, <1>3, <1>4, <1>6, SourceDataAssumption
       DEF WrapAround, ShorterForward, Within, Pair, Seqs
  <2>3. ~disturbed' => /\ Shift(num, p) = Shift(exthighseqnr, highest)
                       /\ ~Less(p, highest)
    BY <1>2, <2>2 DEF Shift, Less, Pair, Seqs
  <2> QED
    BY <2>1, <2>3, AcceptIInv
<1>7. CASE Late(p)
  <2> DEFINE num == [cycle |-> exthighseqnr.cycle, seq |-> p.seq]
  <2>1. num \in Pair /\ Accept(p, num, FALSE)
    BY <1>2, <1>7 DEF Late, Pair
  <2>2. ~disturbed' => p.cycle = highest.cycle /\ p.seq < highest.seq
    BY <1>2, <1>3, <1>4, <1>7, SourceDataAssumption
       DEF Late, ShorterForward, Within, Pair, Seqs
  <2>3. ~disturbed' => /\ Shift(num, p) = Shift(exthighseqnr, highest)
                       /\ ~Less(highest, p)
    BY <1>2, <2>2 DEF Shift, Less, Pair, Seqs
  <2> QED
    BY <2>1, <2>3, AcceptIInv
<1> QED
  BY <1>5, <1>6, <1>7

-----------------------------------------------------------------------------
(* The application, and the theorems.                                      *)

LEMMA GetNextPacketIInv ==
  ASSUME IInv, GetNextPacket
  PROVE  IInv'
<1>1. /\ validated /\ packetlist # <<>> /\ packetlist' = Tail(packetlist)
      /\ UNCHANGED <<validated, sentdata, probation, prevseqnr, exthighseqnr,
                     newest, highest, last, run, disturbed>>
  BY DEF GetNextPacket
<1>2. packetlist \in Seq(Entry) /\ Ascending(packetlist)
  BY DEF IInv, TypeOK, Entry, QueueAscending, Ascending
<1>3. /\ packetlist' \in Seq(Entry)
      /\ Ascending(packetlist')
      /\ Len(packetlist') = Len(packetlist) - 1
      /\ \A i \in 1 .. Len(packetlist') : packetlist'[i] = packetlist[i + 1]
  BY <1>1, <1>2, TailAscending
<1>4. TypeOK' /\ Following' /\ Counting'
  BY <1>1, <1>3 DEF IInv, TypeOK, Following, Counting, Entry
<1>5. \A i \in 1 .. Len(packetlist') :
        \E j \in 1 .. Len(packetlist) : packetlist'[i] = packetlist[j]
  BY <1>2, <1>3
<1>6. NumbersExact' /\ Held'
  BY <1>1, <1>5 DEF IInv, NumbersExact, Held
<1>7. QueueAscending' /\ ProbationBounded'
  BY <1>1, <1>3 DEF QueueAscending, Ascending, ProbationBounded
<1> QED
  BY <1>4, <1>6, <1>7 DEF IInv

LEMMA NextIInv == IInv /\ [Next]_vars => IInv'
<1> SUFFICES ASSUME IInv, [Next]_vars PROVE IInv'
  OBVIOUS
<1>1. ASSUME NEW p \in [cycle : 0 .. MaxCycle, seq : Seqs], ProcessPacket(p)
      PROVE  IInv'
  <2>1. p \in Pair
    BY SourceDataAssumption DEF Pair
  <2> QED
    BY <1>1, <2>1, HoldBackIInv, AcceptFirstIInv, LaterIInv DEF ProcessPacket
<1>2. CASE Validate
  BY <1>2 DEF Validate, IInv, TypeOK, QueueAscending, ProbationBounded,
              Counting, Following, Held, NumbersExact
<1>3. CASE GetNextPacket
  BY <1>3, GetNextPacketIInv
<1>4. CASE UNCHANGED vars
  BY <1>4 DEF vars, IInv, TypeOK, QueueAscending, ProbationBounded,
              Counting, Following, Held, NumbersExact
<1> QED
  BY <1>1, <1>2, <1>3, <1>4 DEF Next

LEMMA AlwaysIInv == Spec => []IInv
BY InitIInv, NextIInv, PTL DEF Spec

(* The counters of the probation and the numbers stay in their ranges.     *)
THEOREM SourceTypeCorrect == Spec => []TypeOK
<1>1. IInv => TypeOK
  BY DEF IInv
<1> QED
  BY <1>1, AlwaysIInv, PTL

(* However packets are lost, repeated or reordered, the queue of a source  *)
(* is sorted by extended sequence number and holds no number twice.        *)
THEOREM QueueAlwaysAscending == Spec => []QueueAscending
<1>1. IInv => QueueAscending
  BY DEF IInv
<1> QED
  BY <1>1, AlwaysIInv, PTL

(* The extended sequence numbers are exact up to one common shift, for     *)
(* every modulus, as long as packets do not cross the end of a cycle.      *)
THEOREM NumbersAlwaysExact == Spec => []NumbersExact
<1>1. IInv => NumbersExact
  BY DEF IInv
<1> QED
  BY <1>1, AlwaysIInv, PTL

(* A source on probation never keeps more packets than it may.             *)
THEOREM ProbationQueueBounded == Spec => []ProbationBounded
<1>1. IInv => ProbationBounded
  BY DEF IInv
<1> QED
  BY <1>1, AlwaysIInv, PTL

(* Probation ends with the packet that is RTP_PROBATIONCOUNT positions     *)
(* behind the first of an unbroken run, and with no other one.             *)
THEOREM ProbationAlwaysExact == Spec => ProbationExact
<1>1. IInv /\ [Next]_vars =>
        [~validated /\ ProbationType # "NoProbation" =>
           (sentdata' <=> run' > ProbationCount)]_vars
  <2> SUFFICES ASSUME IInv, Next, ~validated, ProbationType # "NoProbation"
               PROVE  sentdata' <=> run' > ProbationCount
    OBVIOUS
  <2>1. ~sentdata /\ ApplyProbation /\ run \in 0 .. ProbationCount
    BY SourceDataAssumption
       DEF IInv, TypeOK, Counting, ApplyProbation
  <2>2. ASSUME NEW p \in Pair, HoldBack(p)
        PROVE  ~sentdata' /\ run' <= ProbationCount
    <3>1. Arrives(p) /\ ~sentdata' /\ ~(Expected(p) /\ probation = 1)
      BY <2>1, <2>2 DEF HoldBack
    <3>2. Expected(p) => /\ probation \in 2 .. ProbationCount
                         /\ run = ProbationCount - probation + 1
      BY <3>1, SourceDataAssumption DEF IInv, TypeOK, Counting, Expected
    <3> QED
      BY <2>1, <3>1, <3>2, ExpectedIsNext, SourceDataAssumption
  <2>3. ASSUME NEW p \in Pair, AcceptFirst(p)
        PROVE  sentdata' /\ run' > ProbationCount
    <3>1. Arrives(p) /\ sentdata' /\ Expected(p) /\ probation = 1
      BY <2>1, <2>3 DEF AcceptFirst
    <3>2. run = ProbationCount
      BY <3>1, SourceDataAssumption DEF IInv, Counting
    <3> QED
      BY <2>1, <3>1, <3>2, ExpectedIsNext, SourceDataAssumption
  <2>4. ASSUME NEW p \in Pair, Forward(p) \/ WrapAround(p) \/ Late(p)
        PROVE  FALSE
    BY <2>1, <2>4 DEF Forward, WrapAround, Late, Accept
  <2>5. CASE Validate
    BY <2>1, <2>5, SourceDataAssumption DEF Validate
  <2>6. CASE GetNextPacket
    BY <2>6 DEF GetNextPacket
  <2>7. ASSUME NEW p \in [cycle : 0 .. MaxCycle, seq : Seqs], ProcessPacket(p)
        PROVE  sentdata' <=> run' > ProbationCount
    <3>1. p \in Pair
      BY SourceDataAssumption DEF Pair
    <3>2. CASE HoldBack(p)
      <4>1. run' \in Nat
        BY <2>1, <3>1, <3>2, ExpectedIsNext DEF HoldBack
      <4> QED
        BY <2>2, <3>1, <3>2, <4>1, SourceDataAssumption
    <3>3. CASE AcceptFirst(p)
      BY <2>3, <3>1, <3>3
    <3> QED
      BY <2>4, <2>7, <3>1, <3>2, <3>3 DEF ProcessPacket
  <2> QED
    BY <2>5, <2>6, <2>7 DEF Next
<1> QED
  BY <1>1, AlwaysIInv, PTL DEF Spec, ProbationExact
=============================================================================
