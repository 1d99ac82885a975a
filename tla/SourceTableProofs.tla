------------------------- MODULE SourceTableProofs -------------------------
(***************************************************************************)
(* Proofs about the participant table, for any set of SSRCs, any addresses *)
(* and hosts, any probation mode and any timeouts.                         *)
(***************************************************************************)
EXTENDS SourceTable, FiniteSetTheorems, TLAPS

USE DEF attributes, counters

-----------------------------------------------------------------------------
(* Type correctness: the flags are kept only for entries of the table, and *)
(* the own entry, when there is one, is in it.                             *)

LEMMA DeleteType ==
  ASSUME TypeOK, NEW gone \in SUBSET SSRC, Delete(gone)
  PROVE  /\ known' = known \ gone
         /\ validated' \subseteq known' /\ byes' \subseteq known'
         /\ named' \subseteq known'
         /\ probation' \in [SSRC -> 0 .. ProbationCount]
         /\ addr' \in [SSRC -> [Kinds -> Addr \cup {Null, Unset}]]
         /\ msgage' \in [SSRC -> 0 .. GeneralDelay + 1]
         /\ rtpage' \in [SSRC -> 0 .. SenderDelay + 1]
         /\ byeage' \in [SSRC -> 0 .. BYEDelay + 1]
BY SourceTableAssumption DEF TypeOK, Delete, NoAddresses

LEMMA CountsAreIntegers ==
  \A S \in SUBSET SSRC : IsFiniteSet(S) /\ Cardinality(S) \in Nat
BY FS_Subset, FS_CardinalityType, SourceTableAssumption

LEMMA ReceiveType ==
  ASSUME TypeOK, NEW s \in SSRC, Receive(s)
  PROVE  TypeOK'
<1> USE DEF TypeOK
<1>1. PICK from \in Origins :
        \/ \E kind \in Kinds : DropOnCollision(s, kind, from)
        \/ \E csrcs \in CSRCLists, inorder \in BOOLEAN :
             ProcessRTPPacket(s, from, csrcs, inorder)
        \/ UpdateReceiveTime(s, from)
        \/ \E empty \in BOOLEAN : ProcessCNAME(s, from, empty)
        \/ ProcessBYE(s, from)
  BY DEF Receive
<1>2. from \in Addr \cup {Null}
  BY DEF Origins
<1>3. ASSUME NEW kind \in Kinds, DropOnCollision(s, kind, from)
      PROVE  TypeOK'
  BY <1>3 DEF DropOnCollision
<1>4. ASSUME NEW csrcs \in CSRCLists, NEW inorder \in BOOLEAN,
             ProcessRTPPacket(s, from, csrcs, inorder)
      PROVE  TypeOK'
  <2> DEFINE listed == IF Accepts(s, inorder) THEN csrcs ELSE {}
             fresh == listed \ (known \cup {s})
             bound == [addr EXCEPT ![s]["rtp"] = from]
  <2>1. fresh \in SUBSET SSRC
    BY SourceTableAssumption
  <2>2. Cardinality(fresh) \in Nat
    BY <2>1, CountsAreIntegers
  <2>3. bound \in [SSRC -> [Kinds -> Addr \cup {Null, Unset}]]
    BY <1>2 DEF Kinds
  <2>4. addr' \in [SSRC -> [Kinds -> Addr \cup {Null, Unset}]]
    <3>1. \A c \in SSRC :
            [bound[c] EXCEPT !["rtp"] = from]
              \in [Kinds -> Addr \cup {Null, Unset}]
      BY <1>2, <2>3 DEF Kinds
    <3>2. QED
      BY <1>4, <2>3, <3>1 DEF ProcessRTPPacket
  <2>5. known' \subseteq SSRC /\ known' = known \cup {s} \cup fresh
    BY <1>4, <2>1 DEF ProcessRTPPacket
  <2>6. validated' \subseteq known' /\ senders' \subseteq known'
    BY <1>4 DEF ProcessRTPPacket
  <2>7. probation' \in [SSRC -> 0 .. ProbationCount]
    BY <1>4, SourceTableAssumption DEF ProcessRTPPacket
  <2>8. /\ msgage' \in [SSRC -> 0 .. GeneralDelay + 1]
        /\ rtpage' \in [SSRC -> 0 .. SenderDelay + 1]
        /\ byeage' \in [SSRC -> 0 .. BYEDelay + 1]
    BY <1>4, SourceTableAssumption DEF ProcessRTPPacket
  <2>9. totalcount' \in Int /\ sendercount' \in Int /\ activecount' \in Int
    BY <1>4, <2>2 DEF ProcessRTPPacket, BoolToNat
  <2>10. /\ own' \in known' \cup {NoSSRC}
         /\ byes' \subseteq known' /\ named' \subseteq known'
         /\ announced' \subseteq SSRC /\ owncollision' \in BOOLEAN
    BY <1>4, <2>1, <2>5 DEF ProcessRTPPacket
  <2>11. QED
    BY <2>4, <2>5, <2>6, <2>7, <2>8, <2>9, <2>10
<1>5. ASSUME HearRTCP(s, from)
      PROVE  /\ known' = known \cup {s}
             /\ addr' \in [SSRC -> [Kinds -> Addr \cup {Null, Unset}]]
             /\ totalcount' \in Int /\ announced' \subseteq SSRC
  BY <1>2, <1>5 DEF HearRTCP, BoolToNat, Kinds
<1>6. CASE UpdateReceiveTime(s, from)
  BY <1>5, <1>6, SourceTableAssumption DEF UpdateReceiveTime
<1>7. ASSUME NEW empty \in BOOLEAN, ProcessCNAME(s, from, empty)
      PROVE  TypeOK'
  BY <1>5, <1>7, SourceTableAssumption DEF ProcessCNAME, BoolToNat
<1>8. CASE ProcessBYE(s, from)
  <2>1. /\ byes' \subseteq known'
        /\ msgage' \in [SSRC -> 0 .. GeneralDelay + 1]
        /\ byeage' \in [SSRC -> 0 .. BYEDelay + 1]
        /\ activecount' \in Int
    BY <1>5, <1>8, SourceTableAssumption DEF ProcessBYE, BoolToNat
  <2>2. QED
    BY <1>5, <1>8, <2>1 DEF ProcessBYE
<1>9. QED
  BY <1>1, <1>3, <1>4, <1>6, <1>7, <1>8

LEMMA SweepType ==
  ASSUME TypeOK, NEW gone \in SUBSET known, own \notin gone,
         NEW idle \in SUBSET SSRC, Sweep(gone, idle)
  PROVE  TypeOK'
<1>1. known' \subseteq SSRC /\ senders' \subseteq known'
  BY DEF TypeOK, Sweep, Remove, Delete
<1>2. validated' \subseteq known' /\ byes' \subseteq known'
  BY DeleteType DEF TypeOK, Sweep, Remove
<1>3. totalcount' \in Int /\ sendercount' \in Int /\ activecount' \in Int
  <2>1. Active' \subseteq SSRC /\ senders' \subseteq SSRC
    BY <1>1, <1>2 DEF Active
  <2>2. QED
    BY <1>1, <2>1, CountsAreIntegers DEF Sweep
<1>4. QED
  BY <1>1, <1>2, <1>3, DeleteType DEF TypeOK, Sweep, Remove

LEMMA TypeStep == TypeOK /\ [Next]_vars => TypeOK'
<1> SUFFICES ASSUME TypeOK, [Next]_vars PROVE TypeOK'
  OBVIOUS
<1>1. ASSUME NEW s \in SSRC, CreateOwnSSRC(s) PROVE TypeOK'
  BY <1>1 DEF TypeOK, CreateOwnSSRC
<1>2. CASE DeleteOwnSSRC
  BY <1>2, DeleteType DEF TypeOK, DeleteOwnSSRC, Remove, BoolToNat
<1>3. CASE SentRTPPacket
  BY <1>3, SourceTableAssumption DEF TypeOK, SentRTPPacket, BoolToNat
<1>4. ASSUME NEW s \in SSRC, Receive(s) PROVE TypeOK'
  BY <1>4, ReceiveType
<1>5. CASE Sweeps
  <2>1. /\ ByeOver \in SUBSET known /\ own \notin ByeOver
        /\ Silent \in SUBSET known /\ own \notin Silent
        /\ Idle \in SUBSET SSRC
    BY DEF TypeOK, ByeOver, Silent, Idle
  <2>2. PICK gone \in SUBSET known, idle \in SUBSET SSRC :
          own \notin gone /\ Sweep(gone, idle)
    BY <1>5, <2>1 DEF Sweeps, Timeout, SenderTimeout, BYETimeout, NoteTimeout,
                      MultipleTimeouts
  <2>3. QED
    BY <2>2, SweepType
<1>6. CASE ClearSourceList
  BY <1>6, DeleteType DEF TypeOK, ClearSourceList
<1>7. CASE ClearOwnCollisionFlag
  BY <1>7 DEF TypeOK, ClearOwnCollisionFlag
<1>8. CASE Tick
  BY <1>8, SourceTableAssumption DEF TypeOK, Tick, Older
<1>9. CASE UNCHANGED vars
  BY <1>9 DEF TypeOK, vars
<1>10. QED
  BY <1>1, <1>2, <1>3, <1>4, <1>5, <1>6, <1>7, <1>8, <1>9 DEF Next, Local

(* The table is always well formed, whatever packets arrive and whatever   *)
(* the application does with its own SSRC.                                 *)
THEOREM TypeCorrect == Spec => []TypeOK
<1>1. Init => TypeOK
  <2> SUFFICES ASSUME Init PROVE TypeOK
    OBVIOUS
  <2>1. addr \in [SSRC -> [Kinds -> Addr \cup {Null, Unset}]]
    BY DEF Init, NoAddresses
  <2>2. /\ probation \in [SSRC -> 0 .. ProbationCount]
        /\ msgage \in [SSRC -> 0 .. GeneralDelay + 1]
        /\ rtpage \in [SSRC -> 0 .. SenderDelay + 1]
        /\ byeage \in [SSRC -> 0 .. BYEDelay + 1]
    BY SourceTableAssumption DEF Init
  <2>3. /\ known = {} /\ own = NoSSRC /\ validated = {} /\ senders = {}
        /\ byes = {} /\ named = {} /\ announced = {}
        /\ totalcount = 0 /\ sendercount = 0 /\ activecount = 0
    BY DEF Init
  <2>4. owncollision \in BOOLEAN
    BY DEF Init
  <2>5. QED
    BY <2>1, <2>2, <2>3, <2>4 DEF TypeOK
<1>2. QED
  BY <1>1, TypeStep, PTL DEF Spec

-----------------------------------------------------------------------------
(* The counters.                                                           *)

LEMMA CountOne ==
  ASSUME NEW S \in SUBSET SSRC, NEW x
  PROVE  /\ Cardinality(S \cup {x}) = Cardinality(S) + BoolToNat(x \notin S)
         /\ Cardinality(S \ {x}) = Cardinality(S) - BoolToNat(x \in S)
<1>1. IsFiniteSet(S) /\ Cardinality(S) \in Nat
  BY CountsAreIntegers
<1>2. Cardinality(S \cup {x}) =
        IF x \in S THEN Cardinality(S) ELSE Cardinality(S) + 1
  BY <1>1, FS_AddElement
<1>3. Cardinality(S \ {x}) =
        IF x \in S THEN Cardinality(S) - 1 ELSE Cardinality(S)
  BY <1>1, FS_RemoveElement
<1>4. QED
  BY <1>1, <1>2, <1>3 DEF BoolToNat

LEMMA CountDisjoint ==
  ASSUME NEW S \in SUBSET SSRC, NEW T \in SUBSET SSRC, S \cap T = {}
  PROVE  Cardinality(S \cup T) = Cardinality(S) + Cardinality(T)
<1>1. /\ IsFiniteSet(S) /\ Cardinality(S) \in Nat
      /\ IsFiniteSet(T) /\ Cardinality(T) \in Nat
  BY CountsAreIntegers
<1>2. Cardinality(S \cup T) =
        Cardinality(S) + Cardinality(T) - Cardinality(S \cap T)
  BY <1>1, FS_Union
<1>3. Cardinality(S \cap T) = 0
  BY FS_EmptySet
<1>4. QED
  BY <1>1, <1>2, <1>3

LEMMA CountSubset ==
  ASSUME NEW S \in SUBSET SSRC, NEW T \in SUBSET S
  PROVE  Cardinality(T) <= Cardinality(S)
BY CountsAreIntegers, FS_Subset

LEMMA CountsReceive ==
  ASSUME TypeOK, CountsExact, NEW s \in SSRC, Receive(s)
  PROVE  CountsExact'
<1>1. PICK from \in Origins :
        \/ \E kind \in Kinds : DropOnCollision(s, kind, from)
        \/ \E csrcs \in CSRCLists, inorder \in BOOLEAN :
             ProcessRTPPacket(s, from, csrcs, inorder)
        \/ UpdateReceiveTime(s, from)
        \/ \E empty \in BOOLEAN : ProcessCNAME(s, from, empty)
        \/ ProcessBYE(s, from)
  BY DEF Receive
<1>2. ASSUME NEW kind \in Kinds, DropOnCollision(s, kind, from)
      PROVE  CountsExact'
  BY <1>2 DEF DropOnCollision, CountsExact
<1>3. ASSUME NEW csrcs \in CSRCLists, NEW inorder \in BOOLEAN,
             ProcessRTPPacket(s, from, csrcs, inorder)
      PROVE  CountsExact'
  <2> DEFINE listed == IF Accepts(s, inorder) THEN csrcs ELSE {}
             table == known \cup {s}
             fresh == listed \ table
  <2>1. table \in SUBSET SSRC /\ fresh \in SUBSET SSRC /\ table \cap fresh = {}
    BY SourceTableAssumption DEF TypeOK
  <2>2. /\ known' = table \cup fresh
        /\ totalcount' = totalcount + BoolToNat(s \notin known)
                                    + Cardinality(fresh)
    BY <1>3 DEF ProcessRTPPacket
  <2>3. Cardinality(table) = Cardinality(known) + BoolToNat(s \notin known)
    BY CountOne DEF TypeOK
  <2>4. Cardinality(table \cup fresh) = Cardinality(table) + Cardinality(fresh)
    BY <2>1, CountDisjoint
  <2>5. totalcount' = Cardinality(known')
    BY <2>2, <2>3, <2>4 DEF CountsExact
  <2>6. sendercount' = Cardinality(senders')
    <3>1. CASE Accepts(s, inorder) /\ s # own
      <4>1. /\ senders' = senders \cup {s}
            /\ sendercount' = sendercount + BoolToNat(s \notin senders)
        BY <1>3, <3>1 DEF ProcessRTPPacket, BoolToNat
      <4>2. QED
        BY <4>1, CountOne DEF TypeOK, CountsExact
    <3>2. CASE ~(Accepts(s, inorder) /\ s # own)
      <4>1. /\ senders' = senders
            /\ sendercount' = sendercount + 0
        BY <1>3, <3>2 DEF ProcessRTPPacket, BoolToNat
      <4>2. QED
        BY <4>1 DEF TypeOK, CountsExact
    <3>3. QED
      BY <3>1, <3>2
  <2>7. QED
    BY <2>5, <2>6 DEF CountsExact
<1>4. ASSUME HearRTCP(s, from), UNCHANGED <<senders, sendercount>>
      PROVE  CountsExact'
  <2>1. /\ known' = known \cup {s}
        /\ totalcount' = totalcount + BoolToNat(s \notin known)
    BY <1>4 DEF HearRTCP
  <2>2. QED
    BY <1>4, <2>1, CountOne DEF TypeOK, CountsExact
<1>5. CASE UpdateReceiveTime(s, from)
  BY <1>4, <1>5 DEF UpdateReceiveTime
<1>6. ASSUME NEW empty \in BOOLEAN, ProcessCNAME(s, from, empty)
      PROVE  CountsExact'
  BY <1>4, <1>6 DEF ProcessCNAME
<1>7. CASE ProcessBYE(s, from)
  BY <1>4, <1>7 DEF ProcessBYE
<1>8. QED
  BY <1>1, <1>2, <1>3, <1>5, <1>6, <1>7

LEMMA CountsStep == TypeOK /\ CountsExact /\ [Next]_vars => CountsExact'
<1> SUFFICES ASSUME TypeOK, CountsExact, [Next]_vars PROVE CountsExact'
  OBVIOUS
<1>1. ASSUME NEW s \in SSRC, CreateOwnSSRC(s) PROVE CountsExact'
  <2>1. /\ s \notin known /\ known' = known \cup {s}
        /\ totalcount' = totalcount + 1
        /\ UNCHANGED <<senders, sendercount>>
    BY <1>1 DEF CreateOwnSSRC
  <2>2. QED
    BY <2>1, CountOne DEF TypeOK, CountsExact, BoolToNat
<1>2. CASE DeleteOwnSSRC
  <2>1. /\ known' = known \ {own} /\ senders' = senders \ {own}
        /\ own \in known
        /\ totalcount' = totalcount - 1
        /\ sendercount' = sendercount - BoolToNat(own \in senders)
    BY <1>2 DEF DeleteOwnSSRC, Remove, Delete, TypeOK
  <2>2. Cardinality(known \ {own}) = Cardinality(known) - 1
    BY <2>1, CountOne DEF TypeOK, BoolToNat
  <2>3. Cardinality(senders \ {own}) =
          Cardinality(senders) - BoolToNat(own \in senders)
    BY CountOne DEF TypeOK
  <2>4. QED
    BY <2>1, <2>2, <2>3 DEF CountsExact
<1>3. CASE SentRTPPacket
  <2>1. /\ senders' = senders \cup {own}
        /\ sendercount' = sendercount + BoolToNat(own \notin senders)
        /\ UNCHANGED <<known, totalcount>>
    BY <1>3 DEF SentRTPPacket
  <2>2. QED
    BY <2>1, CountOne DEF TypeOK, CountsExact
<1>4. ASSUME NEW s \in SSRC, Receive(s) PROVE CountsExact'
  BY <1>4, CountsReceive
<1>5. CASE Sweeps
  BY <1>5 DEF Sweeps, Timeout, SenderTimeout, BYETimeout, NoteTimeout,
              MultipleTimeouts, Sweep, CountsExact
<1>6. CASE ClearSourceList
  BY <1>6, FS_EmptySet DEF ClearSourceList, Delete, CountsExact
<1>7. CASE ClearOwnCollisionFlag
  BY <1>7 DEF ClearOwnCollisionFlag, CountsExact
<1>8. CASE Tick
  BY <1>8 DEF Tick, CountsExact
<1>9. CASE UNCHANGED vars
  BY <1>9 DEF vars, CountsExact
<1>10. QED
  BY <1>1, <1>2, <1>3, <1>4, <1>5, <1>6, <1>7, <1>8, <1>9 DEF Next, Local

(* GetTotalCount and GetSenderCount never drift from the table.            *)
THEOREM CountsAlwaysExact == Spec => []CountsExact
<1>1. Init => CountsExact
  BY FS_EmptySet DEF Init, CountsExact
<1>2. QED
  BY <1>1, CountsStep, TypeCorrect, PTL DEF Spec

-----------------------------------------------------------------------------
(* The active count.  Uncounted is how far it lags behind the table.  No   *)
(* step but a packet with a CSRC list changes it otherwise than to 0.      *)

Uncounted == Cardinality(Active) - activecount

LEMMA ActiveCountType == TypeOK => Active \in SUBSET SSRC
BY DEF TypeOK, Active

LEMMA UncountedReceive ==
  ASSUME TypeOK, NEW s \in SSRC, Receive(s)
  PROVE  /\ Uncounted' >= Uncounted
         /\ CSRCLists = {{}} => Uncounted' = Uncounted
<1>1. PICK from \in Origins :
        \/ \E kind \in Kinds : DropOnCollision(s, kind, from)
        \/ \E csrcs \in CSRCLists, inorder \in BOOLEAN :
             ProcessRTPPacket(s, from, csrcs, inorder)
        \/ UpdateReceiveTime(s, from)
        \/ \E empty \in BOOLEAN : ProcessCNAME(s, from, empty)
        \/ ProcessBYE(s, from)
  BY DEF Receive
<1>2. /\ Active \in SUBSET SSRC /\ Cardinality(Active) \in Nat
      /\ activecount \in Int /\ Uncounted \in Int
  BY ActiveCountType, CountsAreIntegers DEF TypeOK, Uncounted
<1>3. ASSUME UNCHANGED <<validated, byes, activecount>>
      PROVE  Uncounted' = Uncounted
  BY <1>3 DEF Uncounted, Active
<1>4. ASSUME NEW kind \in Kinds, DropOnCollision(s, kind, from)
      PROVE  Uncounted' = Uncounted
  BY <1>3, <1>4 DEF DropOnCollision
<1>5. ASSUME NEW csrcs \in CSRCLists, NEW inorder \in BOOLEAN,
             ProcessRTPPacket(s, from, csrcs, inorder)
      PROVE  /\ Uncounted' >= Uncounted
             /\ csrcs = {} => Uncounted' = Uncounted
  <2> DEFINE accepted == Accepts(s, inorder)
             listed == IF accepted THEN csrcs ELSE {}
             table == known \cup {s}
             fresh == listed \ table
             checked == IF accepted THEN {s} ELSE {}
             own1 == Active \cup (checked \ byes)
             own2 == own1 \cup fresh
  <2>1. /\ byes' = byes /\ byes \subseteq known
        /\ validated \cup checked \cup fresh \subseteq validated'
        /\ csrcs = {} => validated' = validated \cup checked
        /\ activecount' = activecount
              + BoolToNat(accepted /\ s \notin validated /\ s \notin byes)
              + Cardinality(fresh)
    BY <1>5 DEF ProcessRTPPacket, TypeOK
  <2>2. /\ own1 \in SUBSET SSRC /\ fresh \in SUBSET SSRC
        /\ own1 \cap fresh = {}
    BY <1>2, SourceTableAssumption DEF TypeOK, Active
  <2>3. Cardinality(own1) = Cardinality(Active)
          + BoolToNat(accepted /\ s \notin validated /\ s \notin byes)
    <3>1. CASE accepted /\ s \notin byes
      <4>1. own1 = Active \cup {s}
        BY <3>1
      <4>2. Cardinality(Active \cup {s}) =
              Cardinality(Active) + BoolToNat(s \notin Active)
        BY <1>2, CountOne
      <4>3. QED
        BY <3>1, <4>1, <4>2 DEF Active, BoolToNat
    <3>2. CASE ~(accepted /\ s \notin byes)
      <4>1. own1 = Active
        BY <3>2
      <4>2. QED
        BY <1>2, <3>2, <4>1 DEF BoolToNat
    <3>3. QED
      BY <3>1, <3>2
  <2>4. Cardinality(own2) = Cardinality(own1) + Cardinality(fresh)
    BY <2>2, CountDisjoint
  <2>5. own2 \subseteq Active' /\ (csrcs = {} => own2 = Active')
    BY <2>1 DEF Active
  <2>6. Active' \in SUBSET SSRC
    BY ReceiveType DEF TypeOK, Active
  <2>7. Cardinality(own2) <= Cardinality(Active')
    BY <2>5, <2>6, CountSubset
  <2>8. /\ Cardinality(fresh) \in Nat /\ Cardinality(Active') \in Nat
        /\ activecount' \in Int
    BY <2>2, <2>6, CountsAreIntegers, ReceiveType DEF TypeOK
  <2>9. Cardinality(own2) - activecount' = Uncounted
    BY <1>2, <2>1, <2>3, <2>4, <2>8 DEF Uncounted, BoolToNat
  <2>10. Cardinality(own2) \in Int
    BY <1>2, <2>3, <2>4, <2>8 DEF BoolToNat
  <2>11. Uncounted' = Cardinality(Active') - activecount'
    BY DEF Uncounted
  <2>12. Uncounted' >= Uncounted
    BY <2>7, <2>8, <2>9, <2>10, <2>11
  <2>13. csrcs = {} => Uncounted' = Uncounted
    BY <2>5, <2>9, <2>11
  <2>14. QED
    BY <2>12, <2>13
<1>6. ASSUME UpdateReceiveTime(s, from) PROVE Uncounted' = Uncounted
  BY <1>3, <1>6 DEF UpdateReceiveTime
<1>7. ASSUME NEW empty \in BOOLEAN, ProcessCNAME(s, from, empty)
      PROVE  Uncounted' = Uncounted
  <2>1. CASE s \notin validated /\ s \notin named /\ s \notin byes
    <3>1. Active' = Active \cup {s} /\ activecount' = activecount + 1
      BY <1>7, <2>1 DEF ProcessCNAME, HearRTCP, Active, BoolToNat
    <3>2. Cardinality(Active \cup {s}) = Cardinality(Active) + 1
      BY <1>2, <2>1, CountOne DEF Active, BoolToNat
    <3>3. QED
      BY <1>2, <3>1, <3>2 DEF Uncounted
  <2>2. CASE ~(s \notin validated /\ s \notin named /\ s \notin byes)
    <3>1. Active' = Active /\ activecount' = activecount + 0
      BY <1>7, <2>2 DEF ProcessCNAME, HearRTCP, Active, BoolToNat
    <3>2. QED
      BY <1>2, <3>1 DEF Uncounted
  <2>3. QED
    BY <2>1, <2>2
<1>8. ASSUME ProcessBYE(s, from) PROVE Uncounted' = Uncounted
  <2>1. CASE s = own
    BY <1>3, <1>8, <2>1 DEF ProcessBYE
  <2>2. CASE s # own
    <3>1. /\ Active' = Active \ {s}
          /\ activecount' = activecount - BoolToNat(s \in Active)
      BY <1>8, <2>2 DEF ProcessBYE, Active
    <3>2. Cardinality(Active \ {s}) =
            Cardinality(Active) - BoolToNat(s \in Active)
      BY <1>2, CountOne
    <3>3. QED
      BY <1>2, <3>1, <3>2 DEF Uncounted, BoolToNat
  <2>3. QED
    BY <2>1, <2>2
<1>9. QED
  <2>1. ASSUME Uncounted' = Uncounted
        PROVE  Uncounted' >= Uncounted
    BY <1>2, <2>1
  <2>2. CASE \E csrcs \in CSRCLists, inorder \in BOOLEAN :
                ProcessRTPPacket(s, from, csrcs, inorder)
    BY <1>5, <2>2
  <2>3. CASE Uncounted' = Uncounted
    BY <2>1, <2>3
  <2>4. QED
    BY <1>1, <1>4, <1>6, <1>7, <1>8, <2>2, <2>3

LEMMA UncountedStep ==
  ASSUME TypeOK, [Next]_vars
  PROVE  \/ Uncounted' = 0
         \/ Uncounted' = Uncounted
         \/ CSRCLists # {{}} /\ Uncounted' >= Uncounted
<1>1. /\ Active \in SUBSET SSRC /\ Cardinality(Active) \in Nat
      /\ activecount \in Int
  BY ActiveCountType, CountsAreIntegers DEF TypeOK
<1>2. ASSUME UNCHANGED <<validated, byes, activecount>>
      PROVE  Uncounted' = Uncounted
  BY <1>2 DEF Uncounted, Active
<1>3. ASSUME NEW s \in SSRC, CreateOwnSSRC(s) PROVE Uncounted' = Uncounted
  <2>1. /\ s \notin Active /\ Active' = Active \cup {s}
        /\ activecount' = activecount + 1
    BY <1>3 DEF CreateOwnSSRC, Active, TypeOK
  <2>2. Cardinality(Active \cup {s}) = Cardinality(Active) + 1
    BY <1>1, <2>1, CountOne DEF BoolToNat
  <2>3. QED
    BY <1>1, <2>1, <2>2 DEF Uncounted
<1>4. ASSUME DeleteOwnSSRC PROVE Uncounted' = Uncounted
  <2>1. /\ Active' = Active \ {own}
        /\ activecount' = activecount - BoolToNat(own \in Active)
    BY <1>4 DEF DeleteOwnSSRC, Remove, Delete, Active
  <2>2. Cardinality(Active \ {own}) =
          Cardinality(Active) - BoolToNat(own \in Active)
    BY <1>1, CountOne
  <2>3. QED
    BY <1>1, <2>1, <2>2 DEF Uncounted, BoolToNat
<1>5. ASSUME SentRTPPacket PROVE Uncounted' = Uncounted
  BY <1>2, <1>5 DEF SentRTPPacket
<1>6. ASSUME NEW s \in SSRC, Receive(s)
      PROVE  \/ Uncounted' = Uncounted
             \/ CSRCLists # {{}} /\ Uncounted' >= Uncounted
  BY <1>6, UncountedReceive
<1>7. ASSUME Sweeps PROVE Uncounted' = 0
  <2>1. activecount' = Cardinality(Active') /\ TypeOK'
    BY <1>7, TypeStep DEF Sweeps, Timeout, SenderTimeout, BYETimeout,
                          NoteTimeout, MultipleTimeouts, Sweep, Next
  <2>2. Cardinality(Active') \in Nat
    BY <2>1, CountsAreIntegers DEF TypeOK, Active
  <2>3. QED
    BY <2>1, <2>2 DEF Uncounted
<1>8. ASSUME ClearSourceList PROVE Uncounted' = 0
  <2>1. Active' = {} /\ activecount' = 0
    BY <1>8 DEF ClearSourceList, Delete, Active, TypeOK
  <2>2. QED
    BY <2>1, FS_EmptySet DEF Uncounted
<1>9. ASSUME ClearOwnCollisionFlag PROVE Uncounted' = Uncounted
  BY <1>2, <1>9 DEF ClearOwnCollisionFlag
<1>10. ASSUME Tick PROVE Uncounted' = Uncounted
  BY <1>2, <1>10 DEF Tick
<1>11. ASSUME UNCHANGED vars PROVE Uncounted' = Uncounted
  BY <1>2, <1>11 DEF vars
<1>12. QED
  BY <1>3, <1>4, <1>5, <1>6, <1>7, <1>8, <1>9, <1>10, <1>11 DEF Next, Local

LEMMA UncountedOfInit == Init => Uncounted = 0
<1> SUFFICES ASSUME Init PROVE Uncounted = 0
  OBVIOUS
<1>1. Active = {} /\ activecount = 0
  BY DEF Init, Active
<1>2. QED
  BY <1>1, FS_EmptySet DEF Uncounted

LEMMA UncountedMeaning ==
  ASSUME TypeOK
  PROVE  /\ ActiveCountExact <=> Uncounted = 0
         /\ ActiveCountNotOver <=> Uncounted >= 0
<1>1. Cardinality(Active) \in Int /\ activecount \in Int
  BY ActiveCountType, CountsAreIntegers DEF TypeOK
<1>2. QED
  BY <1>1 DEF ActiveCountExact, ActiveCountNotOver, Uncounted

(* The active count never reports a member that is not there.              *)
THEOREM ActiveCountNeverOver == Spec => []ActiveCountNotOver
<1>1. Init => Uncounted >= 0
  BY UncountedOfInit
<1>2. TypeOK /\ Uncounted >= 0 /\ [Next]_vars => (Uncounted >= 0)'
  <2> SUFFICES ASSUME TypeOK, Uncounted >= 0, [Next]_vars
               PROVE  Uncounted' >= 0
    OBVIOUS
  <2>1. Uncounted \in Int /\ Uncounted' \in Int
    <3>1. TypeOK'
      BY TypeStep
    <3>2. /\ Cardinality(Active) \in Int /\ activecount \in Int
          /\ Cardinality(Active') \in Int /\ activecount' \in Int
      BY <3>1, CountsAreIntegers DEF TypeOK, Active
    <3>3. QED
      BY <3>2 DEF Uncounted
  <2>2. QED
    BY <2>1, UncountedStep
<1>3. TypeOK /\ Uncounted >= 0 => ActiveCountNotOver
  BY UncountedMeaning
<1>4. QED
  BY <1>1, <1>2, <1>3, TypeCorrect, PTL DEF Spec

(* In a session without mixers, where no packet names contributing         *)
(* sources, GetActiveMemberCount is what its documentation says.           *)
THEOREM ActiveCountExactWithoutMixers ==
  ASSUME CSRCLists = {{}}
  PROVE  Spec => []ActiveCountExact
<1>1. Init => Uncounted = 0
  BY UncountedOfInit
<1>2. TypeOK /\ Uncounted = 0 /\ [Next]_vars => (Uncounted = 0)'
  BY UncountedStep
<1>3. TypeOK /\ Uncounted = 0 => ActiveCountExact
  BY UncountedMeaning
<1>4. QED
  BY <1>1, <1>2, <1>3, TypeCorrect, PTL DEF Spec

-----------------------------------------------------------------------------
(* Addresses and the own entry.  The induction also needs that an SSRC     *)
(* without an entry has no addresses left over from an earlier one.        *)

AddressInv ==
  /\ AddressesAgree
  /\ OwnEntryIntact
  /\ \A s \in SSRC \ known : addr[s] = NoAddresses

LEMMA NullIsNoAddress == Null \notin Addr /\ Unset \notin Addr /\ Unset # Null
BY SourceTableAssumption

LEMMA SameHostSymmetric ==
  ASSUME NEW a, NEW b, SameHost(a, b)
  PROVE  SameHost(b, a)
BY DEF SameHost

(* Storing an address that CheckCollision lets through.                    *)
LEMMA BindAgrees ==
  ASSUME NEW a \in [Kinds -> Addr \cup {Null, Unset}],
         NEW kind \in Kinds, NEW from \in Addr \cup {Null},
         Agree(a), ~CheckCollision(a, kind, from)
  PROVE  Agree([a EXCEPT ![kind] = from])
<1> DEFINE b == [a EXCEPT ![kind] = from]
<1>1. CASE a[kind] # Unset
  <2>1. b = a
    BY <1>1 DEF CheckCollision
  <2>2. QED
    BY <2>1
<1>2. CASE a[kind] = Unset
  <2>1. /\ b[kind] = from
        /\ b[Other(kind)] = a[Other(kind)]
    BY DEF Other, Kinds
  <2>2. \/ a[Other(kind)] = Unset
        \/ a[Other(kind)] = Null /\ from = Null
        \/ SameHost(a[Other(kind)], from)
    BY <1>2 DEF CheckCollision
  <2>3. CASE kind = "rtp"
    BY <2>1, <2>2, <2>3, SameHostSymmetric DEF Agree, Other
  <2>4. CASE kind = "rtcp"
    BY <2>1, <2>2, <2>4 DEF Agree, Other
  <2>5. QED
    BY <2>3, <2>4 DEF Kinds
<1>3. QED
  BY <1>1, <1>2

LEMMA FreshAgrees ==
  ASSUME NEW kind \in Kinds, NEW from
  PROVE  /\ Agree(NoAddresses)
         /\ Agree([NoAddresses EXCEPT ![kind] = from])
BY DEF Agree, NoAddresses, Kinds

LEMMA AddressReceive ==
  ASSUME TypeOK, AddressInv, NEW s \in SSRC, Receive(s)
  PROVE  AddressInv'
<1>1. PICK from \in Origins :
        \/ \E kind \in Kinds : DropOnCollision(s, kind, from)
        \/ \E csrcs \in CSRCLists, inorder \in BOOLEAN :
             ProcessRTPPacket(s, from, csrcs, inorder)
        \/ UpdateReceiveTime(s, from)
        \/ \E empty \in BOOLEAN : ProcessCNAME(s, from, empty)
        \/ ProcessBYE(s, from)
  BY DEF Receive
<1>2. from \in Addr \cup {Null}
  BY DEF Origins
\* The packet's own source: its address is stored without a conflict.
<1>3. ASSUME NEW kind \in Kinds, ~Conflicts(s, kind, from)
      PROVE  /\ Agree([addr[s] EXCEPT ![kind] = from])
             /\ s = own => [addr[s] EXCEPT ![kind] = from] = addr[s]
  <2>1. CASE s \in known
    <3>1. Agree(addr[s]) /\ ~CheckCollision(addr[s], kind, from)
      BY <1>3, <2>1 DEF AddressInv, AddressesAgree, Conflicts
    <3>2. addr[s] \in [Kinds -> Addr \cup {Null, Unset}]
      BY DEF TypeOK
    <3>3. s = own => addr[s][kind] = from
      BY <2>1, <3>1, NullIsNoAddress, SourceTableAssumption
         DEF AddressInv, OwnEntryIntact, CheckCollision, TypeOK
    <3>4. QED
      BY <1>2, <3>1, <3>2, <3>3, BindAgrees
  <2>2. CASE s \notin known
    <3>1. addr[s] = NoAddresses /\ s # own
      BY <2>2, SourceTableAssumption DEF AddressInv, TypeOK
    <3>2. QED
      BY <3>1, FreshAgrees
  <2>3. QED
    BY <2>1, <2>2
<1>4. ASSUME NEW kind \in Kinds, DropOnCollision(s, kind, from)
      PROVE  AddressInv'
  BY <1>4 DEF DropOnCollision, AddressInv, AddressesAgree, OwnEntryIntact, Active
<1>5. ASSUME NEW csrcs \in CSRCLists, NEW inorder \in BOOLEAN,
             ProcessRTPPacket(s, from, csrcs, inorder)
      PROVE  AddressInv'
  <2> DEFINE listed == IF Accepts(s, inorder) THEN csrcs ELSE {}
             table == known \cup {s}
             bound == [addr EXCEPT ![s]["rtp"] = from]
             clashing == {c \in listed \cap table :
                            CheckCollision(bound[c], "rtp", from)}
             existing == (listed \cap table) \ clashing
  <2>1. /\ known' = table \cup (listed \ table)
        /\ addr' = [c \in SSRC |-> IF c \in existing
                                   THEN [bound[c] EXCEPT !["rtp"] = from]
                                   ELSE bound[c]]
        /\ validated \subseteq validated'
        /\ own' = own /\ byes' = byes
        /\ ~Conflicts(s, "rtp", from)
    BY <1>5 DEF ProcessRTPPacket
  <2>2. bound \in [SSRC -> [Kinds -> Addr \cup {Null, Unset}]]
    BY <1>2 DEF TypeOK, Kinds
  <2>3. /\ bound[s] = [addr[s] EXCEPT !["rtp"] = from]
        /\ \A c \in SSRC \ {s} : bound[c] = addr[c]
    BY DEF TypeOK
  <2>4. Agree(bound[s]) /\ (s = own => bound[s] = addr[s])
    BY <1>3, <2>1, <2>3 DEF Kinds
  <2>5. \A c \in SSRC : Agree(bound[c])
    <3> SUFFICES ASSUME NEW c \in SSRC PROVE Agree(bound[c])
      OBVIOUS
    <3>1. CASE c = s
      BY <2>4, <3>1
    <3>2. CASE c # s /\ c \in known
      BY <2>3, <3>2 DEF AddressInv, AddressesAgree
    <3>3. CASE c # s /\ c \notin known
      BY <2>3, <3>3, FreshAgrees DEF AddressInv, Kinds
    <3>4. QED
      BY <3>1, <3>2, <3>3
  <2>6. \A c \in SSRC : Agree(addr'[c])
    <3> SUFFICES ASSUME NEW c \in SSRC PROVE Agree(addr'[c])
      OBVIOUS
    <3>1. CASE c \in existing
      <4>1. addr'[c] = [bound[c] EXCEPT !["rtp"] = from]
        BY <2>1, <3>1
      <4>2. ~CheckCollision(bound[c], "rtp", from)
        BY <3>1
      <4>3. bound[c] \in [Kinds -> Addr \cup {Null, Unset}]
        BY <2>2
      <4>4. QED
        BY <1>2, <2>5, <4>1, <4>2, <4>3, BindAgrees DEF Kinds
    <3>2. CASE c \notin existing
      BY <2>1, <2>5, <3>2
    <3>3. QED
      BY <3>1, <3>2
  <2>7. own # NoSSRC => addr'[own] = addr[own]
    <3> SUFFICES ASSUME own # NoSSRC PROVE addr'[own] = addr[own]
      OBVIOUS
    <3>1. own \in SSRC /\ own \in known
      BY DEF TypeOK
    <3>2. bound[own] = addr[own]
      BY <2>3, <2>4, <3>1
    <3>3. CASE own \in existing
      <4>1. /\ addr'[own] = [bound[own] EXCEPT !["rtp"] = from]
            /\ ~CheckCollision(bound[own], "rtp", from)
        BY <2>1, <3>1, <3>3
      <4>2. addr[own] = [k \in Kinds |-> Null]
        BY DEF AddressInv, OwnEntryIntact
      <4>3. from = Null
        BY <3>2, <4>1, <4>2, NullIsNoAddress DEF CheckCollision, Kinds
      <4>4. QED
        BY <3>2, <4>1, <4>2, <4>3
    <3>4. CASE own \notin existing
      BY <2>1, <3>1, <3>2, <3>4
    <3>5. QED
      BY <3>3, <3>4
  <2>8. AddressesAgree'
    BY <2>1, <2>6, SourceTableAssumption DEF AddressesAgree, TypeOK
  <2>9. OwnEntryIntact'
    BY <2>1, <2>7 DEF AddressInv, OwnEntryIntact, Active
  <2>10. \A c \in SSRC \ known' : addr'[c] = NoAddresses
    BY <2>1, <2>3 DEF AddressInv
  <2>11. QED
    BY <2>8, <2>9, <2>10 DEF AddressInv
<1>6. ASSUME HearRTCP(s, from), validated \subseteq validated',
             UNCHANGED own, own \notin byes' \ byes
      PROVE  AddressInv'
  <2>1. /\ known' = known \cup {s}
        /\ addr' = [addr EXCEPT ![s]["rtcp"] = from]
        /\ ~Conflicts(s, "rtcp", from)
    BY <1>6 DEF HearRTCP
  <2>2. /\ addr'[s] = [addr[s] EXCEPT !["rtcp"] = from]
        /\ \A c \in SSRC \ {s} : addr'[c] = addr[c]
    BY <2>1 DEF TypeOK
  <2>3. Agree(addr'[s]) /\ (s = own => addr'[s] = addr[s])
    BY <1>3, <2>1, <2>2 DEF Kinds
  <2>4. AddressesAgree'
    BY <2>1, <2>2, <2>3 DEF AddressInv, AddressesAgree, TypeOK
  <2>5. OwnEntryIntact'
    BY <1>6, <2>2, <2>3 DEF AddressInv, OwnEntryIntact, Active, TypeOK
  <2>6. QED
    BY <2>1, <2>2, <2>4, <2>5 DEF AddressInv
<1>7. CASE UpdateReceiveTime(s, from)
  BY <1>6, <1>7 DEF UpdateReceiveTime
<1>8. ASSUME NEW empty \in BOOLEAN, ProcessCNAME(s, from, empty)
      PROVE  AddressInv'
  BY <1>6, <1>8 DEF ProcessCNAME
<1>9. CASE ProcessBYE(s, from)
  BY <1>6, <1>9 DEF ProcessBYE
<1>10. QED
  BY <1>1, <1>4, <1>5, <1>7, <1>8, <1>9

LEMMA AddressDelete ==
  ASSUME TypeOK, AddressInv, NEW gone \in SUBSET known, Delete(gone),
         own' \in {own, NoSSRC} \ gone
  PROVE  AddressInv'
<1>1. /\ known' = known \ gone
      /\ validated' = validated \ gone /\ byes' = byes \ gone
      /\ addr' = [s \in SSRC |-> IF s \in gone THEN NoAddresses ELSE addr[s]]
  BY DEF Delete
<1>2. \A s \in known' : s \in known /\ addr'[s] = addr[s]
  BY <1>1 DEF TypeOK
<1>3. AddressesAgree'
  BY <1>2 DEF AddressInv, AddressesAgree
<1>4. OwnEntryIntact'
  <2> SUFFICES ASSUME own' # NoSSRC
               PROVE  own' \in Active' /\ addr'[own'] = [k \in Kinds |-> Null]
    BY DEF OwnEntryIntact
  <2>1. own' = own /\ own \in known' /\ own # NoSSRC
    BY <1>1 DEF TypeOK
  <2>2. own \in Active /\ addr[own] = [k \in Kinds |-> Null]
    BY <2>1 DEF AddressInv, OwnEntryIntact
  <2>3. QED
    BY <1>1, <1>2, <2>1, <2>2 DEF Active
<1>5. \A s \in SSRC \ known' : addr'[s] = NoAddresses
  BY <1>1 DEF AddressInv
<1>6. QED
  BY <1>3, <1>4, <1>5 DEF AddressInv

LEMMA AddressStep == TypeOK /\ AddressInv /\ [Next]_vars => AddressInv'
<1> SUFFICES ASSUME TypeOK, AddressInv, [Next]_vars PROVE AddressInv'
  OBVIOUS
<1>1. ASSUME UNCHANGED <<known, own, validated, byes, addr>>
      PROVE  AddressInv'
  BY <1>1 DEF AddressInv, AddressesAgree, OwnEntryIntact, Active
<1>2. ASSUME NEW s \in SSRC, CreateOwnSSRC(s) PROVE AddressInv'
  <2>1. /\ known' = known \cup {s} /\ s \notin known /\ own' = s
        /\ validated' = validated \cup {s} /\ byes' = byes
        /\ addr' = [addr EXCEPT ![s] = [k \in Kinds |-> Null]]
    BY <1>2 DEF CreateOwnSSRC
  <2>2. /\ addr'[s] = [k \in Kinds |-> Null]
        /\ \A c \in SSRC \ {s} : addr'[c] = addr[c]
    BY <2>1 DEF TypeOK
  <2>3. Agree(addr'[s])
    BY <2>2 DEF Agree, Kinds
  <2>4. AddressesAgree'
    BY <2>1, <2>2, <2>3 DEF AddressInv, AddressesAgree, TypeOK
  <2>5. OwnEntryIntact'
    BY <2>1, <2>2 DEF OwnEntryIntact, Active, TypeOK
  <2>6. QED
    BY <2>1, <2>2, <2>4, <2>5 DEF AddressInv
<1>3. CASE DeleteOwnSSRC
  BY <1>3, AddressDelete DEF DeleteOwnSSRC, Remove, TypeOK
<1>4. CASE SentRTPPacket
  BY <1>1, <1>4 DEF SentRTPPacket
<1>5. ASSUME NEW s \in SSRC, Receive(s) PROVE AddressInv'
  BY <1>5, AddressReceive
<1>6. CASE Sweeps
  <2>1. /\ ByeOver \in SUBSET known /\ own \notin ByeOver
        /\ Silent \in SUBSET known /\ own \notin Silent
    BY DEF TypeOK, ByeOver, Silent
  <2>2. PICK gone \in SUBSET known : own \notin gone /\ Delete(gone) /\ own' = own
    BY <1>6, <2>1 DEF Sweeps, Timeout, SenderTimeout, BYETimeout, NoteTimeout,
                      MultipleTimeouts, Sweep, Remove
  <2>3. QED
    BY <2>2, AddressDelete
<1>7. CASE ClearSourceList
  BY <1>7, AddressDelete, SourceTableAssumption DEF ClearSourceList, TypeOK
<1>8. CASE ClearOwnCollisionFlag
  BY <1>1, <1>8 DEF ClearOwnCollisionFlag
<1>9. CASE Tick
  BY <1>1, <1>9 DEF Tick
<1>10. CASE UNCHANGED vars
  BY <1>1, <1>10 DEF vars
<1>11. QED
  BY <1>2, <1>3, <1>4, <1>5, <1>6, <1>7, <1>8, <1>9, <1>10 DEF Next, Local

LEMMA AddressInvariant == Spec => []AddressInv
<1>1. Init => AddressInv
  BY DEF Init, AddressInv, AddressesAgree, OwnEntryIntact
<1>2. QED
  BY <1>1, AddressStep, TypeCorrect, PTL DEF Spec

(* No source ever takes data from one host and reports from another.       *)
THEOREM AddressesAlwaysAgree == Spec => []AddressesAgree
<1>1. AddressInv => AddressesAgree
  BY DEF AddressInv
<1>2. QED
  BY <1>1, AddressInvariant, PTL

(* The session's own entry survives everything others send.                *)
THEOREM OwnEntryAlwaysIntact == Spec => []OwnEntryIntact
<1>1. AddressInv => OwnEntryIntact
  BY DEF AddressInv
<1>2. QED
  BY <1>1, AddressInvariant, PTL

-----------------------------------------------------------------------------
(* What the application has been told, and what is kept of a source.       *)

(* Every entry has been told to the application.                           *)
Told == known \subseteq announced

AnnouncedStep ==
  /\ known' \ known \subseteq announced'
  /\ announced' \ announced \subseteq known' \ known
  /\ ClearSourceList \/ announced \ announced' = known \ known'

LEMMA ToldStep == TypeOK /\ Told /\ [Next]_vars => Told' /\ AnnouncedStep
<1> SUFFICES ASSUME TypeOK, Told, [Next]_vars PROVE Told' /\ AnnouncedStep
  OBVIOUS
<1> USE DEF Told, AnnouncedStep
<1>1. ASSUME NEW s \in SSRC, CreateOwnSSRC(s) PROVE Told' /\ AnnouncedStep
  BY <1>1 DEF CreateOwnSSRC
<1>2. CASE DeleteOwnSSRC
  <2>1. own \in known
    BY <1>2 DEF DeleteOwnSSRC, TypeOK
  <2>2. QED
    BY <1>2, <2>1 DEF DeleteOwnSSRC, Remove, Delete
<1>3. CASE SentRTPPacket
  BY <1>3 DEF SentRTPPacket
<1>4. ASSUME NEW s \in SSRC, Receive(s) PROVE Told' /\ AnnouncedStep
  <2>1. PICK from \in Origins :
          \/ \E kind \in Kinds : DropOnCollision(s, kind, from)
          \/ \E csrcs \in CSRCLists, inorder \in BOOLEAN :
               ProcessRTPPacket(s, from, csrcs, inorder)
          \/ UpdateReceiveTime(s, from)
          \/ \E empty \in BOOLEAN : ProcessCNAME(s, from, empty)
          \/ ProcessBYE(s, from)
    BY <1>4 DEF Receive
  <2>2. ASSUME NEW kind \in Kinds, DropOnCollision(s, kind, from)
        PROVE  Told' /\ AnnouncedStep
    BY <2>2 DEF DropOnCollision
  <2>3. ASSUME NEW csrcs \in CSRCLists, NEW inorder \in BOOLEAN,
               ProcessRTPPacket(s, from, csrcs, inorder)
        PROVE  Told' /\ AnnouncedStep
    BY <2>3 DEF ProcessRTPPacket
  <2>4. HearRTCP(s, from) => Told' /\ AnnouncedStep
    BY DEF HearRTCP
  <2>5. QED
    BY <2>1, <2>2, <2>3, <2>4 DEF UpdateReceiveTime, ProcessCNAME, ProcessBYE
<1>5. CASE Sweeps
  <2>1. ByeOver \subseteq known /\ Silent \subseteq known
    BY DEF TypeOK, ByeOver, Silent
  <2>2. PICK gone \in SUBSET known : Remove(gone)
    BY <1>5, <2>1 DEF Sweeps, Timeout, SenderTimeout, BYETimeout, NoteTimeout,
                      MultipleTimeouts, Sweep
  <2>3. QED
    BY <2>2 DEF Remove, Delete
<1>6. CASE ClearSourceList
  BY <1>6 DEF ClearSourceList, Delete
<1>7. CASE ClearOwnCollisionFlag
  BY <1>7 DEF ClearOwnCollisionFlag
<1>8. CASE Tick
  BY <1>8 DEF Tick
<1>9. CASE UNCHANGED vars
  BY <1>9 DEF vars
<1>10. QED
  BY <1>1, <1>2, <1>3, <1>4, <1>5, <1>6, <1>7, <1>8, <1>9 DEF Next, Local

(* Whatever packets arrive, whichever own SSRC is chosen and however the   *)
(* entries time out, the application is told of each entry that comes and  *)
(* of each that goes, but of none that the end of the session deletes.     *)
THEOREM ChangesAlwaysAnnounced == Spec => ChangesAnnounced
<1>1. Init => Told
  BY DEF Init, Told
<1>2. TypeOK /\ Told /\ [Next]_vars => Told'
  BY ToldStep
<1>3. TypeOK /\ Told /\ [Next]_vars => [AnnouncedStep]_vars
  BY ToldStep
<1>4. QED
  BY <1>1, <1>2, <1>3, TypeCorrect, PTL DEF Spec, ChangesAnnounced, AnnouncedStep

(* No entry that stays loses or changes an address it has.                 *)
AddressesKept ==
  \A s \in known \cap known', k \in Kinds :
    addr[s][k] # Unset => addr'[s][k] = addr[s][k]

(* Storing an address that CheckCollision lets through replaces none.      *)
LEMMA BindKeeps ==
  ASSUME NEW a \in [Kinds -> Addr \cup {Null, Unset}],
         NEW kind \in Kinds, NEW from, ~CheckCollision(a, kind, from),
         NEW k \in Kinds, a[k] # Unset
  PROVE  [a EXCEPT ![kind] = from][k] = a[k]
BY DEF CheckCollision

LEMMA KeptReceive ==
  ASSUME TypeOK, NEW s \in SSRC, Receive(s)
  PROVE  AddressesKept
<1>1. PICK from \in Origins :
        \/ \E kind \in Kinds : DropOnCollision(s, kind, from)
        \/ \E csrcs \in CSRCLists, inorder \in BOOLEAN :
             ProcessRTPPacket(s, from, csrcs, inorder)
        \/ UpdateReceiveTime(s, from)
        \/ \E empty \in BOOLEAN : ProcessCNAME(s, from, empty)
        \/ ProcessBYE(s, from)
  BY DEF Receive
<1>2. from \in Addr \cup {Null} /\ "rtp" \in Kinds /\ "rtcp" \in Kinds
  BY DEF Origins, Kinds
<1>3. \A c \in SSRC : addr[c] \in [Kinds -> Addr \cup {Null, Unset}]
  BY DEF TypeOK
<1>4. ASSUME NEW kind \in Kinds, DropOnCollision(s, kind, from)
      PROVE  AddressesKept
  BY <1>4 DEF DropOnCollision, AddressesKept
<1>5. ASSUME NEW csrcs \in CSRCLists, NEW inorder \in BOOLEAN,
             ProcessRTPPacket(s, from, csrcs, inorder)
      PROVE  AddressesKept
  <2> DEFINE listed == IF Accepts(s, inorder) THEN csrcs ELSE {}
             table == known \cup {s}
             bound == [addr EXCEPT ![s]["rtp"] = from]
             clashing == {c \in listed \cap table :
                            CheckCollision(bound[c], "rtp", from)}
             existing == (listed \cap table) \ clashing
  <2>1. /\ addr' = [c \in SSRC |-> IF c \in existing
                                   THEN [bound[c] EXCEPT !["rtp"] = from]
                                   ELSE bound[c]]
        /\ ~Conflicts(s, "rtp", from)
    BY <1>5 DEF ProcessRTPPacket
  <2>2. /\ bound[s] = [addr[s] EXCEPT !["rtp"] = from]
        /\ \A c \in SSRC \ {s} : bound[c] = addr[c]
    BY DEF TypeOK
  <2>3. \A c \in SSRC : bound[c] \in [Kinds -> Addr \cup {Null, Unset}]
    BY <1>2, <1>3, <2>2
  <2> SUFFICES ASSUME NEW c \in known, NEW k \in Kinds, addr[c][k] # Unset
               PROVE  addr'[c][k] = addr[c][k]
    BY DEF AddressesKept
  <2>4. c \in SSRC
    BY DEF TypeOK
  <2>5. bound[c][k] = addr[c][k]
    <3>1. CASE c = s
      <4>1. ~CheckCollision(addr[s], "rtp", from)
        BY <2>1, <3>1 DEF Conflicts
      <4>2. QED
        BY <1>2, <1>3, <2>2, <3>1, <4>1, BindKeeps
    <3>2. CASE c # s
      BY <2>2, <2>4, <3>2
    <3>3. QED
      BY <3>1, <3>2
  <2>6. CASE c \in existing
    <3>1. ~CheckCollision(bound[c], "rtp", from)
      BY <2>6
    <3>2. [bound[c] EXCEPT !["rtp"] = from][k] = bound[c][k]
      BY <1>2, <2>3, <2>4, <2>5, <3>1, BindKeeps
    <3>3. QED
      BY <2>1, <2>4, <2>5, <2>6, <3>2
  <2>7. CASE c \notin existing
    BY <2>1, <2>4, <2>5, <2>7
  <2>8. QED
    BY <2>6, <2>7
<1>6. ASSUME HearRTCP(s, from)
      PROVE  AddressesKept
  <2>1. addr' = [addr EXCEPT ![s]["rtcp"] = from] /\ ~Conflicts(s, "rtcp", from)
    BY <1>6 DEF HearRTCP
  <2> SUFFICES ASSUME NEW c \in known, NEW k \in Kinds, addr[c][k] # Unset
               PROVE  addr'[c][k] = addr[c][k]
    BY DEF AddressesKept
  <2>2. CASE c = s
    <3>1. addr'[s] = [addr[s] EXCEPT !["rtcp"] = from]
      BY <2>1 DEF TypeOK
    <3>2. ~CheckCollision(addr[s], "rtcp", from)
      BY <2>1, <2>2 DEF Conflicts
    <3>3. QED
      BY <1>2, <1>3, <2>2, <3>1, <3>2, BindKeeps
  <2>3. CASE c # s
    BY <2>1, <2>3 DEF TypeOK
  <2>4. QED
    BY <2>2, <2>3
<1>7. QED
  BY <1>1, <1>4, <1>5, <1>6 DEF UpdateReceiveTime, ProcessCNAME, ProcessBYE

LEMMA KeptDelete ==
  ASSUME TypeOK, NEW gone, Delete(gone)
  PROVE  AddressesKept
<1>1. /\ known' = known \ gone
      /\ addr' = [s \in SSRC |-> IF s \in gone THEN NoAddresses ELSE addr[s]]
  BY DEF Delete
<1>2. \A s \in known' : s \in SSRC \ gone
  BY <1>1 DEF TypeOK
<1>3. QED
  BY <1>1, <1>2 DEF AddressesKept

(* An address once stored is never replaced while the source stays: what   *)
(* comes from elsewhere is a collision and is dropped.                     *)
THEOREM AddressesAlwaysStick == Spec => AddressesStick
<1>1. TypeOK /\ [Next]_vars => [AddressesKept]_vars
  <2> SUFFICES ASSUME TypeOK, Next PROVE AddressesKept
    OBVIOUS
  <2>1. ASSUME UNCHANGED addr PROVE AddressesKept
    BY <2>1 DEF AddressesKept
  <2>2. ASSUME NEW s \in SSRC, CreateOwnSSRC(s) PROVE AddressesKept
    <3>1. \A c \in known : addr'[c] = addr[c]
      BY <2>2 DEF CreateOwnSSRC, TypeOK
    <3>2. QED
      BY <3>1 DEF AddressesKept
  <2>3. CASE DeleteOwnSSRC \/ Sweeps \/ ClearSourceList
    <3>1. PICK gone : Delete(gone)
      BY <2>3 DEF DeleteOwnSSRC, Sweeps, Timeout, SenderTimeout, BYETimeout,
                  NoteTimeout, MultipleTimeouts, Sweep, Remove, ClearSourceList
    <3>2. QED
      BY <3>1, KeptDelete
  <2>4. CASE SentRTPPacket \/ ClearOwnCollisionFlag \/ Tick
    BY <2>1, <2>4 DEF SentRTPPacket, ClearOwnCollisionFlag, Tick
  <2>5. QED
    BY <2>2, <2>3, <2>4, KeptReceive DEF Next, Local
<1>2. QED
  BY <1>1, TypeCorrect, PTL DEF Spec, AddressesStick, AddressesKept
=============================================================================
