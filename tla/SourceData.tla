---------------------------- MODULE SourceData ----------------------------
(***************************************************************************)
(* What one source's entry makes of the sequence numbers of its packets:   *)
(* RTPSourceStats::ProcessPacket (probation, extended sequence numbers)    *)
(* and the packet queue of RTPInternalSourceData.                          *)
(*                                                                         *)
(* A packet carries the low half of its sequence number.  In the model a   *)
(* packet is its true position, a pair of the cycle its sender is in and   *)
(* the sequence number; the code sees the latter only.  A 32-bit extended  *)
(* sequence number is the pair of its halves, so numcycles is the cycle    *)
(* of exthighseqnr.                                                        *)
(*                                                                         *)
(* The network loses, repeats and reorders packets, but a packet is at     *)
(* most Gap positions ahead of the newest one, or Lag behind it.           *)
(***************************************************************************)
EXTENDS Integers, Sequences

CONSTANTS
  SeqMod,               \* 2^16 in the code
  Gap, Lag,             \* what the network does at most
  ProbationType,        \* as in SourceTable
  ProbationCount,       \* RTP_PROBATIONCOUNT
  MaxProbationPackets,  \* RTPINTERNALSOURCEDATA_MAXPROBATIONPACKETS
  MaxCycle,             \* bound: cycles that are gone through
  MaxQueue              \* bound: packets the application leaves in the queue

(* Half a cycle ahead and half a cycle behind look the same, so what the   *)
(* network does has to stay below that.  A packet can be Gap + Lag ahead   *)
(* of the highest one accepted, if the newest was only held on probation.  *)
ASSUME SourceDataAssumption ==
  /\ SeqMod \in Nat /\ Gap \in Nat /\ Lag \in Nat
  /\ 2 * (Gap + Lag) < SeqMod /\ 1 < SeqMod
  /\ ProbationType \in {"ProbationStore", "ProbationDiscard", "NoProbation"}
  /\ ProbationCount \in Nat \ {0}
  /\ MaxProbationPackets \in Nat \ {0}
  /\ MaxCycle \in Nat \ {0} /\ MaxQueue \in Nat

VARIABLES
  validated,
  sentdata,      \* a packet has been accepted
  probation,     \* packets still needed, or 0 before the first one
  prevseqnr,     \* the last sequence number on probation
  exthighseqnr,
  packetlist,    \* the queue: each packet's number and its position
  newest,        \* the newest position that has arrived, or None
  highest,       \* the highest position accepted, or None
  last, run,     \* until the source is valid: the last position that arrived,
                 \* and how many have come one after the other
  disturbed      \* packets of two cycles came out of order, or on probation

vars == <<validated, sentdata, probation, prevseqnr, exthighseqnr, packetlist,
          newest, highest, last, run, disturbed>>

Seqs == 0 .. SeqMod - 1
Pair == [cycle : Nat, seq : Seqs]
None == [cycle |-> -1, seq |-> 0]

Less(p, q) ==
  \/ p.cycle < q.cycle
  \/ p.cycle = q.cycle /\ p.seq < q.seq

TypeOK ==
  /\ validated \in BOOLEAN /\ sentdata \in BOOLEAN
  /\ probation \in 0 .. ProbationCount
  /\ prevseqnr \in Seqs
  /\ exthighseqnr \in Pair
  /\ packetlist \in Seq([num : Pair, pos : Pair])
  /\ {newest, highest, last} \subseteq Pair \cup {None}
  /\ run \in 0 .. ProbationCount + 1
  /\ disturbed \in BOOLEAN
  /\ sentdata => validated /\ highest \in Pair

Init ==
  /\ validated = FALSE /\ sentdata = FALSE
  /\ probation = 0 /\ prevseqnr = 0
  /\ exthighseqnr = [cycle |-> 0, seq |-> 0]
  /\ packetlist = <<>>
  /\ newest = None /\ highest = None /\ last = None /\ run = 0
  /\ disturbed = FALSE

-----------------------------------------------------------------------------
(* The network.                                                            *)

(* q is p or lies at most d positions after it.                            *)
Within(p, q, d) ==
  \/ q.cycle = p.cycle /\ p.seq <= q.seq /\ q.seq - p.seq <= d
  \/ q.cycle = p.cycle + 1 /\ q.seq + SeqMod - p.seq <= d

Arrives(p) ==
  /\ IF newest = None THEN p.cycle \in {0, 1}
     ELSE Within(newest, p, Gap) \/ Within(p, newest, Lag)
  /\ newest' = IF Less(newest, p) THEN p ELSE newest
  /\ last' = IF validated THEN None ELSE p
  /\ run' = IF validated THEN 0
            ELSE IF last # None /\ p # last /\ Within(last, p, 1) THEN run + 1
            ELSE 1

-----------------------------------------------------------------------------
(* The queue.                                                              *)

(* The place of a packet: behind the last one whose number is not higher.  *)
Place(queue, num, k) ==
  /\ k \in 0 .. Len(queue)
  /\ k > 0 => ~Less(num, queue[k].num)
  /\ \A i \in k + 1 .. Len(queue) : Less(num, queue[i].num)

Inserted(queue, e, k) ==
  [i \in 1 .. Len(queue) + 1 |-> IF i <= k THEN queue[i]
                                 ELSE IF i = k + 1 THEN e
                                 ELSE queue[i - 1]]

(* Mutant: a packet with the same number is not looked for.                *)
StoreDuplicates(queue, num, p) ==
  \E k \in 0 .. Len(queue) :
    /\ Place(queue, num, k)
    /\ packetlist' = Inserted(queue, [num |-> num, pos |-> p], k)

(* A packet goes to its place, or is dropped if its number is there.       *)
Store(queue, num, p) ==
  \E k \in 0 .. Len(queue) :
    /\ Place(queue, num, k)
    /\ packetlist' = IF k > 0 /\ queue[k].num = num THEN queue
                     ELSE Inserted(queue, [num |-> num, pos |-> p], k)

(* Mutant: the limit is looked at one packet too late.                     *)
MakeRoomLate(queue) ==
  IF Len(queue) > MaxProbationPackets THEN Tail(queue) ELSE queue

(* On probation, a full queue loses its first packet.                      *)
MakeRoom(queue) ==
  IF Len(queue) = MaxProbationPackets THEN Tail(queue) ELSE queue

-----------------------------------------------------------------------------
(* The first packets.                                                      *)

(* Mutant: the 16-bit number runs over its end.                            *)
NextSeqPlain(seq) == seq + 1

NextSeq(seq) == IF seq = SeqMod - 1 THEN 0 ELSE seq + 1

ApplyProbation == ~validated /\ ProbationType # "NoProbation"

(* Mutant: the first packet is compared with a number nobody set.          *)
ExpectedAnyTime(p) == p.seq = NextSeq(prevseqnr)

Expected(p) == probation > 0 /\ p.seq = NextSeq(prevseqnr)

Raw(p) == [cycle |-> 0, seq |-> p.seq]

(* Mutant: the first packet is not looked at for the number 0.             *)
FirstNumberPlain(p) == Raw(p)

(* ACCEPTPACKETCODE: a first packet with the number 0 gets the number that *)
(* follows the highest one of the cycle before.                            *)
FirstNumber(p) ==
  [cycle |-> IF p.seq = 0 THEN 1 ELSE 0, seq |-> p.seq]

(* Packets held on probation that are not of this cycle.                   *)
HeldFromOther(cycle) ==
  \E i \in 1 .. Len(packetlist) : packetlist[i].pos.cycle # cycle

(* A packet on probation: it is stored as it came, or thrown away.         *)
HoldBack(p) ==
  /\ Arrives(p)
  /\ ~sentdata /\ ApplyProbation
  /\ ~(Expected(p) /\ probation = 1)
  /\ probation' = IF Expected(p) THEN probation - 1 ELSE ProbationCount
  /\ prevseqnr' = p.seq
  /\ IF ProbationType = "ProbationStore"
     THEN /\ Store(MakeRoom(packetlist), Raw(p), p)
          /\ disturbed' = (disturbed \/ HeldFromOther(p.cycle))
     ELSE UNCHANGED <<packetlist, disturbed>>
  /\ UNCHANGED <<validated, sentdata, exthighseqnr, highest>>

(* The packet that ends the probation, or the first of a source that needs *)
(* none.                                                                   *)
AcceptFirst(p) ==
  /\ Arrives(p)
  /\ ~sentdata
  /\ ApplyProbation => Expected(p) /\ probation = 1
  /\ sentdata' = TRUE /\ validated' = TRUE
  /\ probation' = IF ApplyProbation THEN 0 ELSE probation
  /\ prevseqnr' = IF ApplyProbation THEN p.seq ELSE prevseqnr
  /\ exthighseqnr' = FirstNumber(p)
  /\ highest' = p
  /\ Store(packetlist, FirstNumber(p), p)
  /\ disturbed' = (disturbed \/ HeldFromOther(IF p.seq = 0 THEN p.cycle - 1
                                              ELSE p.cycle))

-----------------------------------------------------------------------------
(* Later packets.                                                          *)

(* An accepted packet gets this number; it is the highest if it counts.    *)
Accept(p, num, counts) ==
  /\ Arrives(p)
  /\ sentdata /\ Len(packetlist) < MaxQueue
  /\ exthighseqnr' = IF counts THEN num ELSE exthighseqnr
  /\ highest' = IF Less(highest, p) THEN p ELSE highest
  /\ disturbed' = (disturbed \/ p.cycle < highest.cycle)
  /\ Store(packetlist, num, p)
  /\ UNCHANGED <<validated, sentdata, probation, prevseqnr>>

(* dif1 < dif2: going forward, over the end of the cycle, is shorter.      *)
ShorterForward(seq) ==
  SeqMod - (exthighseqnr.seq - seq) < exthighseqnr.seq - seq

Forward(p) ==
  /\ p.seq >= exthighseqnr.seq
  /\ Accept(p, [cycle |-> exthighseqnr.cycle, seq |-> p.seq], TRUE)

(* Mutant: every lower number begins a cycle.                              *)
WrapAroundAlways(p) ==
  /\ p.seq < exthighseqnr.seq
  /\ exthighseqnr.cycle <= MaxCycle
  /\ Accept(p, [cycle |-> exthighseqnr.cycle + 1, seq |-> p.seq], TRUE)

WrapAround(p) ==
  /\ p.seq < exthighseqnr.seq /\ ShorterForward(p.seq)
  /\ exthighseqnr.cycle <= MaxCycle
  /\ Accept(p, [cycle |-> exthighseqnr.cycle + 1, seq |-> p.seq], TRUE)

Late(p) ==
  /\ p.seq < exthighseqnr.seq /\ ~ShorterForward(p.seq)
  /\ Accept(p, [cycle |-> exthighseqnr.cycle, seq |-> p.seq], FALSE)

-----------------------------------------------------------------------------
(* A CNAME item or a CSRC list.                                            *)
Validate ==
  /\ ~validated
  /\ validated' = TRUE
  /\ UNCHANGED <<sentdata, probation, prevseqnr, exthighseqnr, packetlist,
                 newest, highest, last, run, disturbed>>

GetNextPacket ==
  /\ validated /\ packetlist # <<>>
  /\ packetlist' = Tail(packetlist)
  /\ UNCHANGED <<validated, sentdata, probation, prevseqnr, exthighseqnr,
                 newest, highest, last, run, disturbed>>

ProcessPacket(p) ==
  HoldBack(p) \/ AcceptFirst(p) \/ Forward(p) \/ WrapAround(p) \/ Late(p)

Next ==
  \/ \E p \in [cycle : 0 .. MaxCycle, seq : Seqs] : ProcessPacket(p)
  \/ Validate
  \/ GetNextPacket

Spec == Init /\ [][Next]_vars

-----------------------------------------------------------------------------
(* Properties.                                                             *)

(* The queue is sorted and holds no number twice, whatever arrives: the    *)
(* insertion looks from the end for a place and for a duplicate.           *)
QueueAscending ==
  \A i, j \in 1 .. Len(packetlist) :
    i < j => Less(packetlist[i].num, packetlist[j].num)

(* How many cycles a number is ahead of a packet's position.               *)
Shift(num, pos) == num.cycle - pos.cycle

(* As long as no packet of one cycle arrives after one of the next, and    *)
(* probation saw no cycle begin but with the packet that ended it, all     *)
(* numbers are exact: they differ from the positions by the same number of *)
(* cycles for the highest number and for every packet in the queue, those  *)
(* kept since probation included.                                          *)
NumbersExact ==
  sentdata /\ ~disturbed =>
    /\ exthighseqnr.seq = highest.seq
    /\ \A i \in 1 .. Len(packetlist) :
         /\ packetlist[i].num.seq = packetlist[i].pos.seq
         /\ Shift(packetlist[i].num, packetlist[i].pos) =
              Shift(exthighseqnr, highest)

(* A source on probation never occupies more memory than it may: "Make     *)
(* sure that we don't buffer too much packets".                            *)
ProbationBounded == ~validated => Len(packetlist) <= MaxProbationPackets

(* Probation lasts until RTP_PROBATIONCOUNT packets have followed a first  *)
(* one in sequence, over the end of a cycle too: the source is accepted    *)
(* with the last of them, not before and not after.                        *)
ProbationExact ==
  [][~validated /\ ProbationType # "NoProbation" =>
       (sentdata' <=> run' > ProbationCount)]_vars

(* "Returns the extended highest sequence number received from this        *)
(* participant." (rtpsourcedata.h:357): the number moves from one cycle to *)
(* the next exactly when the highest position does.                        *)
HighestReceived ==
  [][sentdata => Shift(exthighseqnr', highest') = Shift(exthighseqnr, highest)
                 /\ exthighseqnr'.seq = highest'.seq]_vars

=============================================================================
