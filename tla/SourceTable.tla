---------------------------- MODULE SourceTable ----------------------------
(***************************************************************************)
(* The participant table of an RTP session: class RTPSources with the      *)
(* membership part of RTPInternalSourceData and the own-collision flag of  *)
(* RTPSessionSources.                                                      *)
(*                                                                         *)
(* The table is a set of SSRCs (known) with one attribute per variable; a  *)
(* removed entry gets the attributes of a freshly constructed one back.    *)
(* The three counters are separate state, as in the code, which updates    *)
(* them entry by entry and never derives them from the table except in the *)
(* timeout sweeps.                                                         *)
(*                                                                         *)
(* Times are kept as ages: the code only ever asks whether a moment lies   *)
(* more than a delay in the past, so an age is cut off just above the      *)
(* delay it is compared with.  The constructor's time (0,0) is the oldest  *)
(* age.                                                                    *)
(***************************************************************************)
EXTENDS Integers, FiniteSets

CONSTANTS
  SSRC,              \* the synchronisation source identifiers in play
  NoSSRC,            \* "owndata == 0"
  Addr,              \* transport addresses of other hosts
  Host,              \* the host of an address (IsFromSameHost compares it)
  Null,              \* the address 0 that stands for this session itself
  Unset,             \* no address has been stored yet
  CSRCLists,         \* the contributing-source lists that RTP packets carry
  AcceptOwnPackets,  \* the session's acceptownpackets setting
  ProbationType,     \* "ProbationStore", "ProbationDiscard" or "NoProbation"
  ProbationCount,    \* RTP_PROBATIONCOUNT
  SenderDelay,       \* the three delays given to the timeout functions
  BYEDelay,
  GeneralDelay

ASSUME SourceTableAssumption ==
  /\ IsFiniteSet(SSRC) /\ NoSSRC \notin SSRC
  /\ Null \notin Addr /\ Unset \notin Addr /\ Unset # Null
  /\ DOMAIN Host = Addr
  /\ CSRCLists \subseteq SUBSET SSRC
  /\ AcceptOwnPackets \in BOOLEAN
  /\ ProbationCount \in Nat \ {0}
  /\ SenderDelay \in Nat /\ BYEDelay \in Nat /\ GeneralDelay \in Nat

VARIABLES
  known,        \* the entries of sourcelist
  own,          \* the SSRC of owndata
  validated,    \* entries whose flag "validated" is set
  senders,      \* entries whose flag "issender" is set
  byes,         \* entries whose flag "receivedbye" is set
  named,        \* entries that have a CNAME
  probation,    \* packets still needed before a new source is accepted
  addr,         \* the stored RTP and RTCP addresses
  msgage,       \* age of lastmsgtime
  rtpage,       \* age of lastrtptime
  byeage,       \* age of byetime
  totalcount, sendercount, activecount,
  announced,    \* SSRCs the application got OnNewSource for, and no
                \* OnRemoveSource since
  owncollision  \* the flag that RTPSessionSources raises

attributes == <<validated, senders, byes, named, probation, addr,
                msgage, rtpage, byeage>>
counters   == <<totalcount, sendercount, activecount>>
vars == <<known, own, attributes, counters, announced, owncollision>>

Kinds == {"rtp", "rtcp"}
Other(kind) == IF kind = "rtp" THEN "rtcp" ELSE "rtp"

(* Where a packet can come from.  Packets of this session's own            *)
(* transmitter are processed only if the application wants them, and then  *)
(* with the address 0.                                                     *)
Origins == Addr \cup (IF AcceptOwnPackets THEN {Null} ELSE {})

Active == validated \ byes
BoolToNat(b) == IF b THEN 1 ELSE 0

TypeOK ==
  /\ known \subseteq SSRC
  /\ own \in known \cup {NoSSRC}
  /\ validated \subseteq known /\ senders \subseteq known
  /\ byes \subseteq known /\ named \subseteq known
  /\ probation \in [SSRC -> 0 .. ProbationCount]
  /\ addr \in [SSRC -> [Kinds -> Addr \cup {Null, Unset}]]
  /\ msgage \in [SSRC -> 0 .. GeneralDelay + 1]
  /\ rtpage \in [SSRC -> 0 .. SenderDelay + 1]
  /\ byeage \in [SSRC -> 0 .. BYEDelay + 1]
  /\ totalcount \in Int /\ sendercount \in Int /\ activecount \in Int
  /\ announced \subseteq SSRC
  /\ owncollision \in BOOLEAN

NoAddresses == [k \in Kinds |-> Unset]

Init ==
  /\ known = {} /\ own = NoSSRC
  /\ validated = {} /\ senders = {} /\ byes = {} /\ named = {}
  /\ probation = [s \in SSRC |-> 0]
  /\ addr = [s \in SSRC |-> NoAddresses]
  /\ msgage = [s \in SSRC |-> GeneralDelay + 1]
  /\ rtpage = [s \in SSRC |-> SenderDelay + 1]
  /\ byeage = [s \in SSRC |-> BYEDelay + 1]
  /\ totalcount = 0 /\ sendercount = 0 /\ activecount = 0
  /\ announced = {} /\ owncollision = FALSE

-----------------------------------------------------------------------------
(* The own entry.                                                          *)

CreateOwnSSRC(s) ==
  /\ own = NoSSRC /\ s \notin known
  /\ known' = known \cup {s} /\ own' = s
  /\ validated' = validated \cup {s}
  /\ addr' = [addr EXCEPT ![s] = [k \in Kinds |-> Null]]
  /\ totalcount' = totalcount + 1
  /\ activecount' = activecount + 1
  /\ announced' = announced \cup {s}
  /\ UNCHANGED <<senders, byes, named, probation, msgage, rtpage, byeage,
                 sendercount, owncollision>>

(* The entries of gone leave the table and their objects are deleted.      *)
Delete(gone) ==
  /\ known' = known \ gone
  /\ validated' = validated \ gone
  /\ byes' = byes \ gone
  /\ named' = named \ gone
  /\ probation' = [s \in SSRC |-> IF s \in gone THEN 0 ELSE probation[s]]
  /\ addr' = [s \in SSRC |-> IF s \in gone THEN NoAddresses ELSE addr[s]]
  /\ msgage' = [s \in SSRC |-> IF s \in gone THEN GeneralDelay + 1
                                              ELSE msgage[s]]
  /\ rtpage' = [s \in SSRC |-> IF s \in gone THEN SenderDelay + 1
                                              ELSE rtpage[s]]
  /\ byeage' = [s \in SSRC |-> IF s \in gone THEN BYEDelay + 1
                                              ELSE byeage[s]]

(* They do so one by one, each with its call of OnRemoveSource.            *)
Remove(gone) == Delete(gone) /\ announced' = announced \ gone

(* Mutant: owndata still points to the deleted entry.                      *)
DeleteOwnSSRCDangling ==
  /\ own # NoSSRC
  /\ Remove({own})
  /\ senders' = senders \ {own}
  /\ totalcount' = totalcount - 1
  /\ sendercount' = sendercount - BoolToNat(own \in senders)
  /\ activecount' = activecount - BoolToNat(own \in Active)
  /\ UNCHANGED <<own, owncollision>>

DeleteOwnSSRC ==
  /\ own # NoSSRC
  /\ Remove({own})
  /\ senders' = senders \ {own}
  /\ own' = NoSSRC
  /\ totalcount' = totalcount - 1
  /\ sendercount' = sendercount - BoolToNat(own \in senders)
  /\ activecount' = activecount - BoolToNat(own \in Active)
  /\ UNCHANGED owncollision

(* Mutant: the previous sender flag is not looked at.                      *)
SentRTPPacketRecounted ==
  /\ own # NoSSRC
  /\ senders' = senders \cup {own}
  /\ sendercount' = sendercount + 1
  /\ msgage' = [msgage EXCEPT ![own] = 0]
  /\ rtpage' = [rtpage EXCEPT ![own] = 0]
  /\ UNCHANGED <<known, own, validated, byes, named, probation, addr, byeage,
                 totalcount, activecount, announced, owncollision>>

SentRTPPacket ==
  /\ own # NoSSRC
  /\ senders' = senders \cup {own}
  /\ sendercount' = sendercount + BoolToNat(own \notin senders)
  /\ msgage' = [msgage EXCEPT ![own] = 0]
  /\ rtpage' = [rtpage EXCEPT ![own] = 0]
  /\ UNCHANGED <<known, own, validated, byes, named, probation, addr, byeage,
                 totalcount, activecount, announced, owncollision>>

-----------------------------------------------------------------------------
(* Address bookkeeping and collisions.                                     *)

SameHost(a, b) == a # Null /\ b # Null /\ Host[a] = Host[b]

(* Mutants: the other address is not compared; only hosts are compared.    *)
CheckCollisionOneKind(a, kind, from) == a[kind] \notin {Unset, from}
CheckCollisionByHost(a, kind, from) ==
  LET stored == IF a[kind] # Unset THEN a[kind] ELSE a[Other(kind)]
  IN /\ stored # Unset
     /\ ~(stored = Null /\ from = Null)
     /\ ~SameHost(stored, from)

(* CheckCollision: does a packet of this kind, from this address, conflict *)
(* with the addresses a (a function on Kinds) stored for its SSRC?  If     *)
(* not, the address is stored, which changes nothing when one was stored   *)
(* before.                                                                 *)
CheckCollision(a, kind, from) ==
  IF a[kind] # Unset
  THEN a[kind] # from
  ELSE /\ a[Other(kind)] # Unset
       /\ ~(a[Other(kind)] = Null /\ from = Null)
       /\ ~SameHost(a[Other(kind)], from)

Conflicts(s, kind, from) ==
  s \in known /\ CheckCollision(addr[s], kind, from)

(* A packet that conflicts is dropped; OnSSRCCollision raises the flag     *)
(* when the SSRC in conflict is our own.                                   *)
DropOnCollision(s, kind, from) ==
  /\ Conflicts(s, kind, from)
  /\ owncollision' = (owncollision \/ s = own)
  /\ UNCHANGED <<known, own, attributes, counters, announced>>

(* ProcessPolledData does this before every packet it takes.               *)
ClearOwnCollisionFlag ==
  /\ owncollision' = FALSE
  /\ UNCHANGED <<known, own, attributes, counters, announced>>

-----------------------------------------------------------------------------
(* RTP data.  inorder says whether the packet carries the sequence number  *)
(* that probation expects next.                                            *)

Accepts(s, inorder) ==
  \/ s \in validated
  \/ ProbationType = "NoProbation"
  \/ probation[s] = 1 /\ inorder

ProcessRTPPacket(s, from, csrcs, inorder) ==
  /\ ~Conflicts(s, "rtp", from)
  /\ LET accepted == Accepts(s, inorder)
         table    == known \cup {s}
         bound    == [addr EXCEPT ![s]["rtp"] = from]
         \* the CSRC list is looked at only for a validated source
         listed   == IF accepted THEN csrcs ELSE {}
         fresh    == listed \ table
         clashing == {c \in listed \cap table :
                        CheckCollision(bound[c], "rtp", from)}
         existing == (listed \cap table) \ clashing
         checked  == IF accepted THEN {s} ELSE {}
     IN /\ known' = table \cup fresh
        /\ validated' = validated \cup checked \cup fresh \cup existing
        /\ senders' = senders \cup (checked \ {own})
        /\ addr' = [c \in SSRC |-> IF c \in existing
                                   THEN [bound[c] EXCEPT !["rtp"] = from]
                                   ELSE bound[c]]
        /\ probation' = [probation EXCEPT ![s] =
              IF s \in validated \/ ProbationType = "NoProbation" THEN @
              ELSE IF @ > 0 /\ inorder THEN @ - 1 ELSE ProbationCount]
        /\ msgage' = [msgage EXCEPT ![s] = 0]
        /\ rtpage' = [rtpage EXCEPT ![s] =
              IF accepted /\ s # own THEN 0 ELSE @]
        /\ totalcount' = totalcount + BoolToNat(s \notin known)
                                    + Cardinality(fresh)
        /\ sendercount' = sendercount
              + BoolToNat(accepted /\ s # own /\ s \notin senders)
        \* an existing entry validated by the list is not counted
        /\ activecount' = activecount
              + BoolToNat(accepted /\ s \notin validated /\ s \notin byes)
              + Cardinality(fresh)
        /\ announced' = announced \cup {s} \cup fresh
        /\ owncollision' = (owncollision \/ own \in clashing)
  /\ UNCHANGED <<own, byes, named, byeage>>

-----------------------------------------------------------------------------
(* RTCP.  A compound packet is a sequence of the steps below: the          *)
(* callbacks run between them.                                             *)

(* Mutant: OnNewSource is forgotten.                                       *)
HearRTCPUnannounced(s, from) ==
  /\ ~Conflicts(s, "rtcp", from)
  /\ known' = known \cup {s}
  /\ addr' = [addr EXCEPT ![s]["rtcp"] = from]
  /\ totalcount' = totalcount + BoolToNat(s \notin known)
  /\ UNCHANGED announced

(* What every RTCP item does once GetRTCPSourceData has found or created   *)
(* the entry and no conflict was seen: the address is stored, and the      *)
(* source has been heard.                                                  *)
HearRTCP(s, from) ==
  /\ ~Conflicts(s, "rtcp", from)
  /\ known' = known \cup {s}
  /\ addr' = [addr EXCEPT ![s]["rtcp"] = from]
  /\ totalcount' = totalcount + BoolToNat(s \notin known)
  /\ announced' = announced \cup {s}

(* Sender info, report blocks, private SDES items, or none of them.        *)
UpdateReceiveTime(s, from) ==
  /\ HearRTCP(s, from)
  /\ msgage' = [msgage EXCEPT ![s] = 0]
  /\ UNCHANGED <<own, validated, senders, byes, named, probation, rtpage,
                 byeage, sendercount, activecount, owncollision>>

(* Mutant: a source that has said BYE is counted as a new active one.      *)
ProcessCNAMECountingLeavers(s, from, empty) ==
  /\ HearRTCP(s, from)
  /\ msgage' = [msgage EXCEPT ![s] = 0]
  /\ validated' = IF s \in named THEN validated ELSE validated \cup {s}
  /\ named' = IF empty THEN named ELSE named \cup {s}
  /\ activecount' = activecount + BoolToNat(s \notin validated)
  /\ UNCHANGED <<own, senders, byes, probation, rtpage, byeage, sendercount,
                 owncollision>>

(* A CNAME item validates the source that has no CNAME yet; one of length  *)
(* zero leaves the CNAME unset.  A different CNAME later is only reported. *)
ProcessCNAME(s, from, empty) ==
  /\ HearRTCP(s, from)
  /\ msgage' = [msgage EXCEPT ![s] = 0]
  /\ validated' = IF s \in named THEN validated ELSE validated \cup {s}
  /\ named' = IF empty THEN named ELSE named \cup {s}
  /\ activecount' = activecount
        + BoolToNat(s \notin validated /\ s \notin named /\ s \notin byes)
  /\ UNCHANGED <<own, senders, byes, probation, rtpage, byeage, sendercount,
                 owncollision>>

(* Mutants: a BYE is taken to concern an entry that was not active; a BYE  *)
(* for the own SSRC is obeyed.                                             *)
ProcessBYEUncounted(s, from) ==
  /\ HearRTCP(s, from)
  /\ IF s = own
     THEN UNCHANGED <<byes, msgage, byeage>>
     ELSE /\ byes' = byes \cup {s}
          /\ msgage' = [msgage EXCEPT ![s] = 0]
          /\ byeage' = [byeage EXCEPT ![s] = 0]
  /\ UNCHANGED <<own, validated, senders, named, probation, rtpage,
                 sendercount, activecount, owncollision>>
ProcessBYEOwnToo(s, from) ==
  /\ HearRTCP(s, from)
  /\ byes' = byes \cup {s}
  /\ msgage' = [msgage EXCEPT ![s] = 0]
  /\ byeage' = [byeage EXCEPT ![s] = 0]
  /\ activecount' = activecount - BoolToNat(s \in Active)
  /\ UNCHANGED <<own, validated, senders, named, probation, rtpage,
                 sendercount, owncollision>>

(* A BYE for the own SSRC is ignored.                                      *)
ProcessBYE(s, from) ==
  /\ HearRTCP(s, from)
  /\ IF s = own
     THEN UNCHANGED <<byes, msgage, byeage, activecount>>
     ELSE /\ byes' = byes \cup {s}
          /\ msgage' = [msgage EXCEPT ![s] = 0]
          /\ byeage' = [byeage EXCEPT ![s] = 0]
          /\ activecount' = activecount - BoolToNat(s \in Active)
  /\ UNCHANGED <<own, validated, senders, named, probation, rtpage,
                 sendercount, owncollision>>

-----------------------------------------------------------------------------
(* Timeouts.  Every sweep walks the whole table, removes the entries of    *)
(* gone, clears the sender flag of those in idle and then overwrites the   *)
(* counters with what it counted ("just to play it safe").                 *)

(* Mutant: only members counted as active are timed out.                   *)
SilentActive == {s \in Active \ {own} : msgage[s] > GeneralDelay}

ByeOver == {s \in byes \ {own} : byeage[s] > BYEDelay}
Silent  == {s \in known \ {own} : msgage[s] > GeneralDelay}
Idle    == {s \in senders : rtpage[s] > SenderDelay}

Sweep(gone, idle) ==
  /\ Remove(gone)
  /\ senders' = (senders \ gone) \ idle
  /\ totalcount'  = Cardinality(known')
  /\ sendercount' = Cardinality(senders')
  /\ activecount' = Cardinality(Active')
  /\ UNCHANGED <<own, owncollision>>

Timeout          == Sweep(Silent, {})
SenderTimeout    == Sweep({}, Idle)
BYETimeout       == Sweep(ByeOver, {})
NoteTimeout      == Sweep({}, {})
MultipleTimeouts == Sweep(ByeOver \cup Silent, Idle)

(* The end of a session, Destroy or a Create that fails: the entries are   *)
(* deleted, and OnRemoveSource is called for none of them.                 *)
ClearSourceList ==
  /\ Delete(known)
  /\ senders' = {}
  /\ own' = NoSSRC
  /\ totalcount' = 0 /\ sendercount' = 0 /\ activecount' = 0
  /\ UNCHANGED <<announced, owncollision>>

(* Time passes.                                                            *)
Older(age, delay) == IF age > delay THEN age ELSE age + 1

Tick ==
  /\ msgage' = [s \in SSRC |-> Older(msgage[s], GeneralDelay)]
  /\ rtpage' = [s \in SSRC |-> Older(rtpage[s], SenderDelay)]
  /\ byeage' = [s \in SSRC |-> Older(byeage[s], BYEDelay)]
  /\ UNCHANGED <<known, own, validated, senders, byes, named, probation, addr,
                 counters, announced, owncollision>>

-----------------------------------------------------------------------------
Local ==
  \/ \E s \in SSRC : CreateOwnSSRC(s)
  \/ DeleteOwnSSRC
  \/ SentRTPPacket

Receive(s) ==
  \E from \in Origins :
    \/ \E kind \in Kinds : DropOnCollision(s, kind, from)
    \/ \E csrcs \in CSRCLists, inorder \in BOOLEAN :
         ProcessRTPPacket(s, from, csrcs, inorder)
    \/ UpdateReceiveTime(s, from)
    \/ \E empty \in BOOLEAN : ProcessCNAME(s, from, empty)
    \/ ProcessBYE(s, from)

Sweeps ==
  \/ Timeout \/ SenderTimeout \/ BYETimeout \/ NoteTimeout
  \/ MultipleTimeouts

Next ==
  \/ Local
  \/ \E s \in SSRC : Receive(s)
  \/ ClearOwnCollisionFlag
  \/ Sweeps
  \/ ClearSourceList
  \/ Tick

Spec == Init /\ [][Next]_vars

(* Time goes on, and the poll loop keeps calling MultipleTimeouts: the     *)
(* poll thread wakes up at the latest when the next RTCP packet is due.    *)
FairSpec == Spec /\ WF_vars(Tick) /\ WF_vars(MultipleTimeouts)

-----------------------------------------------------------------------------
(* Properties.                                                             *)

(* Whatever the interleaving of packets, own-SSRC changes and timeouts,    *)
(* GetTotalCount and GetSenderCount tell the number of entries and of      *)
(* entries flagged as senders: the update made entry by entry never loses  *)
(* or repeats one.                                                         *)
CountsExact ==
  /\ totalcount = Cardinality(known)
  /\ sendercount = Cardinality(senders)

(* GetActiveMemberCount is "the number of members which have been          *)
(* validated and which haven't sent a BYE packet yet" (rtpsources.h:286).  *)
ActiveCountExact == activecount = Cardinality(Active)

(* The active count may lag behind (a source validated by a CSRC list) but *)
(* never reports a member that is not there: the RTCP interval computed    *)
(* from it is never too long.                                              *)
ActiveCountNotOver == activecount <= Cardinality(Active)

(* Every entry that appears, in whichever handler, is told with            *)
(* OnNewSource, and every one that goes with OnRemoveSource, each time it  *)
(* comes and goes; nothing else is told.  The one exception is the end of  *)
(* the session: what is in the table then is deleted without a word, and   *)
(* the application is not told of its going in the next session either,    *)
(* unless the same SSRC turns up there.  RtpReceiver keeps its list of     *)
(* destinations by these calls.                                            *)
ChangesAnnounced ==
  [][/\ known' \ known \subseteq announced'
     /\ announced' \ announced \subseteq known' \ known
     /\ ClearSourceList \/ announced \ announced' = known \ known']_vars

(* The two addresses of a source belong to one host, or both to this       *)
(* session: no sequence of packets makes an entry take its data from one   *)
(* host and its reports from another.                                      *)
Agree(a) ==
  (a["rtp"] # Unset /\ a["rtcp"] # Unset) =>
    \/ a["rtp"] = Null /\ a["rtcp"] = Null
    \/ SameHost(a["rtp"], a["rtcp"])

AddressesAgree == \A s \in known : Agree(addr[s])

(* No packet from outside and no timeout turns the session's own entry     *)
(* into something else: it stays validated, has not said BYE and keeps the *)
(* address 0.                                                              *)
OwnEntryIntact ==
  own # NoSSRC =>
    /\ own \in Active
    /\ addr[own] = [k \in Kinds |-> Null]

(* Once an address is stored for a source it is never replaced while the   *)
(* source stays in the table: a later packet from elsewhere is a collision *)
(* or is dropped.                                                          *)
AddressesStick ==
  [][\A s \in known \cap known', k \in Kinds :
       addr[s][k] # Unset => addr'[s][k] = addr[s][k]]_vars

(* A source nothing more is heard of leaves the table, however busy the    *)
(* others keep it; a BYE or a missing one makes no difference.             *)
SilentSourcesExpire ==
  \A s \in SSRC :
    <>[][~Receive(s)]_vars => <>[](s \notin known \/ s = own)

=============================================================================
