---------------------------- MODULE RTCPBuilder ----------------------------
(***************************************************************************)
(* Which report blocks and SDES items the regular RTCP packets of a        *)
(* session carry: RTCPPacketBuilder::BuildNextPacket with the flag         *)
(* processedinrtcp of the source table's entries.                          *)
(*                                                                         *)
(* The builder walks the source table in the order of its list and adds a  *)
(* report block for every source that has sent data since the packet       *)
(* before.  What does not fit waits for the next packet; the flags say     *)
(* whose turn is over.  When a walk ends with room left, the SDES items    *)
(* that are due follow, which may take several packets too.                *)
(*                                                                         *)
(* Room is counted in report blocks; an SDES item takes as much as one.    *)
(* The room of a packet varies: a sender report leaves less of it than a   *)
(* receiver report, and the application may set the maximum packet size.   *)
(* A maximum of at least RTP_MINPACKETSIZE leaves room for one item of any *)
(* length, so the errors of a packet in which nothing fits do not occur.   *)
(***************************************************************************)
EXTENDS Integers, SequencesExt

CONSTANTS
  Source,    \* the other participants
  Items,     \* the SDES items besides CNAME, in the order of FillInSDES
  Interval,  \* the interval_... settings: an item's period, or <= 0 for never
  Cycle,     \* bound: sdesbuildcount is kept modulo this
  Rooms      \* what may fit in a packet

ASSUME RTCPBuilderAssumption ==
  /\ Items \in Seq(ToSet(Items)) /\ IsInjective(Items)
  /\ Interval \in [ToSet(Items) -> Int]
  /\ Cycle \in Nat \ {0}
  /\ \A i \in ToSet(Items) : Interval[i] > 0 => Cycle % Interval[i] = 0
  /\ Rooms \subseteq Nat \ {0}

VARIABLES
  list,            \* the source table without the own entry, in list order
  sentdata,        \* sources that RTP data was accepted from
  csrc,            \* sources that a CSRC list has named
  recent,          \* sources whose lastrtptime lies after prevbuildtime
  processed,       \* sources whose flag processedinrtcp is set
  firstpacket, processingsdes,
  sdesbuildcount,  \* number of SDES rounds begun
  doitems,         \* items that the current round is to send (doname, ...)
  processeditems,  \* items whose flag in ownsdesinfo is set
  packet,          \* the packet built last: its report blocks and items
  owed             \* items that their schedule still wants in this round

sources == <<list, sentdata, csrc>>
sdes  == <<processingsdes, sdesbuildcount, doitems, processeditems, owed>>
vars  == <<sources, recent, processed, firstpacket, sdes, packet>>

Known == ToSet(list)

(* The elements of a sequence that are in a set, in their order.           *)
Among(seq, S) ==
  LET upTo[i \in 0 .. Len(seq)] ==
        IF i = 0 THEN <<>>
        ELSE IF seq[i] \in S THEN Append(upTo[i - 1], seq[i]) ELSE upTo[i - 1]
  IN  upTo[Len(seq)]

TypeOK ==
  /\ list \in Seq(Source) /\ IsInjective(list)
  /\ sentdata \subseteq Known /\ csrc \subseteq Known
  /\ recent \subseteq sentdata /\ processed \subseteq Known
  /\ firstpacket \in BOOLEAN /\ processingsdes \in BOOLEAN
  /\ sdesbuildcount \in 0 .. Cycle - 1
  /\ processeditems \subseteq doitems /\ doitems \subseteq ToSet(Items)
  /\ packet.blocks \in Seq(Source) /\ packet.items \in Seq(ToSet(Items))

Init ==
  /\ list = <<>> /\ sentdata = {} /\ csrc = {}
  /\ recent = {} /\ processed = {}
  /\ firstpacket = TRUE /\ processingsdes = FALSE
  /\ sdesbuildcount = 0 /\ doitems = {} /\ processeditems = {}
  /\ packet = [blocks |-> <<>>, items |-> <<>>]
  /\ owed = {}

-----------------------------------------------------------------------------
(* The source table, as far as the builder looks at it.                    *)

AddSource(s) ==
  /\ s \notin Known
  /\ list' = Append(list, s)
  /\ UNCHANGED <<sentdata, csrc, recent, processed, firstpacket, sdes, packet>>

RemoveSource(s) ==
  /\ s \in Known
  /\ list' = Among(list, Known \ {s})
  /\ sentdata' = sentdata \ {s} /\ csrc' = csrc \ {s}
  /\ recent' = recent \ {s} /\ processed' = processed \ {s}
  /\ UNCHANGED <<firstpacket, sdes, packet>>

ReceiveData(s) ==
  /\ s \in Known
  /\ sentdata' = sentdata \cup {s}
  /\ recent' = recent \cup {s}
  /\ UNCHANGED <<list, csrc, processed, firstpacket, sdes, packet>>

SetCSRC(s) ==
  /\ s \in Known
  /\ csrc' = csrc \cup {s}
  /\ UNCHANGED <<list, sentdata, recent, processed, firstpacket, sdes, packet>>

-----------------------------------------------------------------------------
Fit(seq, room) == SubSeq(seq, 1, Min({Len(seq), room}))
Fits(seq, room) == Len(seq) <= room

(* shouldprocess: on the first packet every source that has sent data,     *)
(* later those heard since the packet before; no CSRCs.                    *)
Heard == {s \in sentdata \ csrc : firstpacket \/ s \in recent}
ShouldProcess(s) == s \in Heard

(* The sources that a walk with these flags finds, in list order.          *)
Candidates(flags) == Among(list, Heard \ flags)

Skipped == Heard \cap processed

(* Mutant: an interval of one is taken for "never".                        *)
DueRarely(count) ==
  {i \in ToSet(Items) : Interval[i] > 1 /\ count % Interval[i] = 0}

Due(count) ==
  {i \in ToSet(Items) : Interval[i] > 0 /\ count % Interval[i] = 0}

(* Mutant: the flags of a round that is over are kept.                     *)
FlagsKept(items) == processeditems \cup ToSet(items)

(* The flags in ownsdesinfo when these items have been added; they are     *)
(* cleared as soon as the round is over.                                   *)
FlagsAfter(items) ==
  IF processingsdes' THEN processeditems \cup ToSet(items) ELSE {}

ToSend(todo) == Among(Items, todo)

(* The end of every build.                                                 *)
EndBuild(blocks, items) ==
  /\ packet' = [blocks |-> blocks, items |-> items]
  /\ firstpacket' = FALSE
  /\ recent' = {}

(* Mutant: the flags are not set.                                          *)
BuildReportsUnflagged(room) ==
  /\ ~processingsdes
  /\ ~Fits(Candidates(processed), room)
  /\ EndBuild(Fit(Candidates(processed), room), <<>>)
  /\ UNCHANGED <<processed, sdes>>

(* FillInReportBlocks fills the packet.                                    *)
BuildReports(room) ==
  /\ ~processingsdes
  /\ ~Fits(Candidates(processed), room)
  /\ LET blocks == Fit(Candidates(processed), room)
     IN /\ EndBuild(blocks, <<>>)
        /\ processed' = processed \cup ToSet(blocks)
  /\ UNCHANGED sdes

(* The walk comes to its end: all flags are cleared and a round of SDES    *)
(* items begins.  If there is still room after the items, as many blocks   *)
(* as sources were skipped are added from the front of the list.           *)
BuildReportsAndItems(room) ==
  LET blocks == Candidates(processed)
      count  == (sdesbuildcount + 1) % Cycle
      todo   == ToSend(Due(count) \ processeditems)
      left   == room - Len(blocks)
      items  == Fit(todo, left)
      again  == IF Fits(todo, left)
                THEN Fit(Candidates({}),
                         Min({Cardinality(Skipped), left - Len(items)}))
                ELSE <<>>
  IN /\ ~processingsdes
     /\ Fits(blocks, room)
     /\ sdesbuildcount' = count
     /\ doitems' = Due(count)
     /\ owed' = Due(count) \ ToSet(items)
     /\ processed' = ToSet(again)
     /\ processingsdes' = ~Fits(todo, left)
     /\ processeditems' = FlagsAfter(items)
     /\ EndBuild(blocks \o again, items)

(* The rest of an SDES round; if that leaves room, report blocks follow,   *)
(* and the flags are cleared when all sources have had theirs.             *)
BuildItems(room) ==
  LET todo   == ToSend(doitems \ processeditems)
      items  == Fit(todo, room)
      cands  == Candidates(processed)
      left   == room - Len(items)
      blocks == IF Fits(todo, room) THEN Fit(cands, left) ELSE <<>>
  IN /\ processingsdes
     /\ processingsdes' = ~Fits(todo, room)
     /\ processeditems' = FlagsAfter(items)
     /\ processed' = IF ~processingsdes' /\ Fits(cands, left) THEN {}
                     ELSE processed \cup ToSet(blocks)
     /\ owed' = owed \ ToSet(items)
     /\ EndBuild(blocks, items)
     /\ UNCHANGED <<sdesbuildcount, doitems>>

-----------------------------------------------------------------------------
Build ==
  /\ UNCHANGED sources
  /\ \E room \in Rooms :
       BuildReports(room) \/ BuildReportsAndItems(room) \/ BuildItems(room)

Join == \E s \in Source : AddSource(s)

Next ==
  \/ Join
  \/ \E s \in Source : RemoveSource(s) \/ ReceiveData(s) \/ SetCSRC(s)
  \/ Build

Spec == Init /\ [][Next]_vars

(* The poll loop asks for a packet whenever the scheduler's IsTime says    *)
(* so.                                                                     *)
FairSpec == Spec /\ WF_vars(Build)

-----------------------------------------------------------------------------
(* Properties.                                                             *)

(* A source that has new data whenever a packet is built is reported on    *)
(* again and again, however little fits in a packet, once no more sources  *)
(* join.                                                                   *)
EverySourceReported ==
  \A s \in Source :
    (<>[][Build => s \in Known /\ ShouldProcess(s)]_vars /\ <>[][~Join]_vars)
      => []<>(s \in ToSet(packet.blocks))

(* The same for SDES items: many senders do not keep an item with a        *)
(* positive interval from being sent.                                      *)
ItemsGoOut ==
  \A i \in ToSet(Items) :
    (Interval[i] > 0 /\ <>[][~Join]_vars)
      => []<>(i \in ToSet(packet.items))

(* When a round of SDES items is over, each item due in it has been sent,  *)
(* and none is sent that is not due or was sent before: "an SDES name item *)
(* will be added after the sources in the source table have been processed *)
(* count times" (rtpsession.h, SetNameInterval).                           *)
ItemsOnSchedule ==
  [][/\ ~processingsdes' => owed' = {}
     /\ Build => ToSet(packet'.items) \subseteq
                   (IF processingsdes THEN owed ELSE doitems')]_vars

(* "we skipped some sources that we already got in a previous packet, we   *)
(* can add some of them now" (rtcppacketbuilder.cpp:240-242): what is      *)
(* added is from a previous packet, so no source has two blocks in one     *)
(* packet.                                                                 *)
OneBlockEach == IsInjective(packet.blocks)

=============================================================================
