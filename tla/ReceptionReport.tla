--------------------------- MODULE ReceptionReport ---------------------------
(***************************************************************************)
(* What a sender and a receiver of one RTP stream learn of each other: the *)
(* statistics of RTPSourceStats, the sender report and the report block of *)
(* RTCPPacketBuilder, and the round trip time and the timestamp unit that  *)
(* RTPSourceData works out of them.                                        *)
(*                                                                         *)
(* A packet has the extended number of SourceData.  Packets and reports    *)
(* may be lost, late, repeated and out of order.  The receiver's clock is  *)
(* Skew ahead of the sender's.  A time unit is 1/65536 second, the last    *)
(* digit of the middle 32 bits of an NTP time, and a frame's timestamp is  *)
(* the instant at which it was sampled, in steps of the media clock.       *)
(***************************************************************************)
EXTENDS Integers, FiniteSets, Sequences

CONSTANTS
  ReportModulus,       \* 2^32
  Skew, StartTime,     \* the clocks
  TransmissionDelay,   \* SetPreTransmissionDelay: from sampling to sending
  ClockRate,           \* steps of the media clock in a time unit
  MaxTicks, MaxSent, MaxReceivedPackets, MaxReports   \* bounds

(* Times and timestamps differ by less than a sixteenth of a turn: what    *)
(* the threshold 0x10000000 can tell apart.                                *)
ASSUME ReportAssumption ==
  /\ {ReportModulus, Skew, StartTime, TransmissionDelay, MaxTicks} \subseteq Nat
  /\ ClockRate \in Nat \ {0} /\ ReportModulus % 16 = 0
  /\ ClockRate * MaxTicks < ReportModulus \div 16

VARIABLES
  moment,
  packetsOut,   \* the packets sent: timestamp, and when their frame was sampled
  frame,        \* lastwallclocktime and lastrtptimestamp of the packet builder
  reportsOut,   \* the sender reports
  stats,        \* packetsreceived, numnewpackets, baseseqnr, exthighseqnr,
                \* savedextseqnr, prevtimestamp, prevpacktime of the receiver
  deviation,    \* the last packet's part in djitter
  unitKnown,    \* the application has set the timestamp unit
  SRinf, SRprevinf,  \* ... and how long the sender report took
  build,        \* firstpacket and prevbuildtime
  blocksOut,    \* the report blocks, in the order they were made
  RRinf,        \* the last block the sender has received, and when
  heardOf       \* the numbers that came; how long the last one and the one
                \* before it took, in steps; and if the rate was known then

sentvars == <<packetsOut, frame, reportsOut>>
statvars == <<stats, deviation, unitKnown, heardOf>>
srvars == <<SRinf, SRprevinf>>
rrvars == <<build, blocksOut, RRinf>>
reportvars == <<moment, sentvars, statvars, srvars, rrvars>>

NoInfo == <<>>
There == moment + Skew
Turn(n) == n % ReportModulus

ReportsInit ==
  /\ moment = StartTime
  /\ packetsOut = <<>> /\ frame = [time |-> 0, timestamp |-> 0] /\ reportsOut = {}
  /\ stats = [received |-> 0, new |-> 0, base |-> 0, high |-> 0, saved |-> 0,
              timestamp |-> 0, time |-> 0]
  /\ deviation = 0 /\ unitKnown \in BOOLEAN
  /\ SRinf = NoInfo /\ SRprevinf = NoInfo
  /\ build = [first |-> TRUE, time |-> 0]
  /\ blocksOut = <<>> /\ RRinf = NoInfo
  /\ heardOf = [numbers |-> <<>>, way |-> 0, before |-> 0, rated |-> FALSE]

ReportClock ==
  /\ moment < StartTime + MaxTicks /\ moment' = moment + 1
  /\ UNCHANGED <<sentvars, statvars, srvars, rrvars>>

-----------------------------------------------------------------------------
(* The sender.                                                             *)

MediaTime(t) == Turn(ClockRate * t)

(* A packet begins a frame or goes on with the last one, whose time stays  *)
(* that of its first packet.                                               *)
SendFrame ==
  LET sampled == moment - TransmissionDelay
      stamp == MediaTime(sampled)
  IN  /\ Len(packetsOut) < MaxSent
      /\ packetsOut' = Append(packetsOut, [timestamp |-> stamp, sampled |-> sampled])
      /\ frame' = IF packetsOut = <<>> \/ stamp # frame.timestamp
                  THEN [time |-> moment, timestamp |-> stamp] ELSE frame
      /\ UNCHANGED <<moment, reportsOut, statvars, srvars, rrvars>>

SendRestOfFrame ==
  /\ packetsOut # <<>> /\ Len(packetsOut) < MaxSent
  /\ packetsOut' = Append(packetsOut, packetsOut[Len(packetsOut)])
  /\ UNCHANGED <<moment, frame, reportsOut, statvars, srvars, rrvars>>

(* Mutant: the delay before a packet is sent is left out.                  *)
ReportTimestampAtOnce == Turn(frame.timestamp + ClockRate * (moment - frame.time))

(* The timestamp of what is sampled at this very instant.                  *)
ReportTimestamp ==
  Turn(frame.timestamp + ClockRate * (moment - frame.time + TransmissionDelay))

SenderReport ==
  /\ packetsOut # <<>> /\ Cardinality(reportsOut) < MaxReports
  /\ reportsOut' = reportsOut \cup {[ntp |-> moment, rtp |-> ReportTimestamp]}
  /\ UNCHANGED <<moment, packetsOut, frame, statvars, srvars, rrvars>>

-----------------------------------------------------------------------------
(* The receiver: sender reports and packets.                               *)

OlderReport(r) == SRinf # NoInfo /\ r.ntp < SRinf.ntp
ReportArrived(r) == [ntp |-> r.ntp, rtp |-> r.rtp, at |-> There, took |-> moment - r.ntp]

(* Mutant: an older report is taken, but its arrival is not noted.         *)
HearSenderReportUndated(r) ==
  /\ SRinf' = IF OlderReport(r) THEN [ReportArrived(r) EXCEPT !.at = SRinf.at]
              ELSE ReportArrived(r)
  /\ SRprevinf' = SRinf
  /\ UNCHANGED <<moment, sentvars, statvars, rrvars>>

(* The last one that came counts, older or not.                            *)
HearSenderReport(r) ==
  /\ SRinf' = ReportArrived(r) /\ SRprevinf' = SRinf
  /\ UNCHANGED <<moment, sentvars, statvars, rrvars>>

(* Two reports in their order say how fast the media clock goes.           *)
Estimates == SRprevinf # NoInfo /\ SRprevinf.ntp < SRinf.ntp
EstimatedRate == Turn(SRinf.rtp - SRprevinf.rtp) \div (SRinf.ntp - SRprevinf.ntp)

(* Steps from one timestamp to another; the shorter way round is meant.    *)
StepsBetween(from, to) ==
  IF Turn(to - from) < ReportModulus \div 16 THEN Turn(to - from)
  ELSE IF to > from \/ Turn(from - to) < ReportModulus \div 16 THEN -Turn(from - to)
  ELSE Turn(to - from)

Absolute(n) == IF n < 0 THEN -n ELSE n

(* Mutant: the timestamps are subtracted as they are.                      *)
DeviationPlain(p, rate) ==
  Absolute(rate * (There - stats.time) - (p.timestamp - stats.timestamp))

Deviation(p, rate) ==
  Absolute(rate * (There - stats.time) - StepsBetween(stats.timestamp, p.timestamp))

Counted(k, p) ==
  LET known == [stats EXCEPT !.received = @ + 1, !.new = @ + 1,
                             !.timestamp = p.timestamp, !.time = There]
  IN  IF stats.received = 0
      THEN [known EXCEPT !.base = k - 1, !.high = k, !.saved = k - 1]
      ELSE [known EXCEPT !.high = IF k > @ THEN k ELSE @]

ProcessPacket(k) ==
  LET p == packetsOut[k]
  IN  /\ stats.received < MaxReceivedPackets
      /\ stats' = Counted(k, p)
      /\ deviation' = IF stats.received = 0 THEN 0
                      ELSE IF unitKnown THEN Deviation(p, ClockRate)
                      ELSE IF Estimates THEN Deviation(p, EstimatedRate)
                      ELSE 0
      /\ heardOf' = [numbers |-> Append(heardOf.numbers, k),
                     way |-> ClockRate * (There - p.sampled), before |-> heardOf.way,
                     rated |-> unitKnown \/ Estimates]
      /\ UNCHANGED <<moment, sentvars, unitKnown, srvars, rrvars>>

-----------------------------------------------------------------------------
(* The receiver's report blocks.                                           *)

(* Mutant: a packet of the instant of the last report counts again.        *)
ReportDueAtOnce == stats.received > 0 /\ (build.first \/ stats.time >= build.time)

ReportDue == stats.received > 0 /\ (build.first \/ stats.time > build.time)

(* The block says when the sender's last report left, and how long ago it  *)
(* came.  way is how long it took, which no field of the block tells.      *)
ReportBlock(s) ==
  LET heard == SRinf # NoInfo
  IN  [expected |-> s.high - s.saved, new |-> s.new,
       lost |-> s.high - s.base - s.received,
       lsr |-> IF heard THEN Turn(SRinf.ntp) ELSE 0,
       dlsr |-> IF heard THEN Turn(There - SRinf.at) ELSE 0,
       heard |-> heard, way |-> IF heard THEN SRinf.took ELSE 0,
       sent |-> moment]

(* uint8_t fraclost.  With nothing expected and nothing new the code has   *)
(* 0.0/0.0 and converts it: any value, and none is given here.             *)
FractionLost(b) ==
  IF b.expected < b.new THEN 0 ELSE ((b.expected - b.new) * 256) \div b.expected

StartNewInterval(s) == [s EXCEPT !.new = 0, !.saved = s.high]

(* The source's blocks in one packet: the second one has the interval that *)
(* the first one has just begun.                                           *)
BlocksFor(n) ==
  CASE n = 0 -> blocksOut
    [] n = 1 -> Append(blocksOut, ReportBlock(stats))
    [] n = 2 -> Append(Append(blocksOut, ReportBlock(stats)),
                       ReportBlock(StartNewInterval(stats)))

(* Mutant: the interval ends although its block was not sent.              *)
BuildReportRegardless(n) ==
  /\ Len(blocksOut) + n <= MaxReports /\ (n = 2 => ~build.first)
  /\ build' = [first |-> FALSE, time |-> There]
  /\ blocksOut' = IF ReportDue THEN BlocksFor(n) ELSE blocksOut
  /\ stats' = IF ReportDue THEN StartNewInterval(stats) ELSE stats
  /\ UNCHANGED <<moment, sentvars, deviation, unitKnown, heardOf, srvars, RRinf>>

(* A packet of reports has n blocks for this source if one is due.  None:  *)
(* the other sources' blocks left no room.  Two: after the end of the list *)
(* it is walked again for the sources that an earlier packet had covered,  *)
(* from the start and with all flags clear (RTCPBuilder has the walks).    *)
(* The first packet has no such sources.                                   *)
BuildReport(n) ==
  /\ Len(blocksOut) + n <= MaxReports /\ (n = 2 => ~build.first)
  /\ build' = [first |-> FALSE, time |-> There]
  /\ blocksOut' = IF ReportDue THEN BlocksFor(n) ELSE blocksOut
  /\ stats' = IF ReportDue /\ n > 0 THEN StartNewInterval(stats) ELSE stats
  /\ UNCHANGED <<moment, sentvars, deviation, unitKnown, heardOf, srvars, RRinf>>

HearReportBlock(b) ==
  /\ RRinf' = [block |-> b, at |-> moment]
  /\ UNCHANGED <<moment, sentvars, statvars, srvars, build, blocksOut>>

RoundtripTime ==
  IF RRinf = NoInfo \/ (RRinf.block.lsr = 0 /\ RRinf.block.dlsr = 0) THEN 0
  ELSE Turn(RRinf.at - RRinf.block.lsr - RRinf.block.dlsr)

ReportsNext ==
  \/ ReportClock \/ SendFrame \/ SendRestOfFrame \/ SenderReport
  \/ \E r \in reportsOut : HearSenderReport(r)
  \/ \E k \in DOMAIN packetsOut : ProcessPacket(k)
  \/ \E n \in 0 .. 2 : BuildReport(n)
  \/ \E i \in DOMAIN blocksOut : HearReportBlock(blocksOut[i])

ReportsSpec == ReportsInit /\ [][ReportsNext]_reportvars

-----------------------------------------------------------------------------

ReportsTypeOK ==
  /\ moment \in StartTime .. StartTime + MaxTicks
  /\ \A k \in DOMAIN packetsOut : packetsOut[k].timestamp \in 0 .. ReportModulus - 1
  /\ stats.new <= stats.received /\ stats.received = Len(heardOf.numbers)
  /\ stats.base <= stats.saved /\ stats.saved <= stats.high
  /\ \A i \in DOMAIN blocksOut : blocksOut[i].dlsr \in 0 .. ReportModulus - 1
  /\ unitKnown \in BOOLEAN /\ deviation \in Nat

(* The round trip is the time a sender report was on its way plus the time *)
(* the block that answers it was, however long the receiver kept it, with  *)
(* whatever its clock shows; except for 0 when both fields happen to be 0. *)
RoundTripIsBothWays ==
  RRinf # NoInfo /\ RRinf.block.heard /\ ~(RRinf.block.lsr = 0 /\ RRinf.block.dlsr = 0) =>
    RoundtripTime = RRinf.block.way + (RRinf.at - RRinf.block.sent)

(* A sender report ties its NTP time to the sample of that instant, also   *)
(* in the middle of a frame that is sent in pieces; so the estimate, if    *)
(* there is one, is the rate of the media clock.                           *)
ReportsTieTheClocks ==
  /\ \A r \in reportsOut : r.rtp = MediaTime(r.ntp)
  /\ Estimates => EstimatedRate = ClockRate

(* The cumulative loss is the number of packets that are missing, less the *)
(* ones that came more than once or before the first.                      *)
Distinct == {heardOf.numbers[i] : i \in DOMAIN heardOf.numbers}
LossIsMissing ==
  stats.received > 0 =>
    LET range == stats.base + 1 .. stats.high
    IN  stats.high - stats.base - stats.received =
          Cardinality(range \ Distinct)
            - (Len(heardOf.numbers) - Cardinality(Distinct \cap range))

(* Each block accounts for all that came since the one before it, even if  *)
(* some reports in between had no room for one; and its fraction is one of *)
(* a real interval and less than a whole 256.  The only exception is a     *)
(* second block in a packet, which says again what the first one said of   *)
(* the loss, with nothing expected and so with no fraction at all.         *)
SaysAgain(b, first) ==
  /\ b.sent = first.sent /\ b.lost = first.lost
  /\ first.new > 0 /\ b.new = 0 /\ b.expected = 0
IntervalsAddUp ==
  \A i \in DOMAIN blocksOut :
    /\ \/ blocksOut[i].new > 0 /\ FractionLost(blocksOut[i]) < 256
       \/ i > 1 /\ SaysAgain(blocksOut[i], blocksOut[i - 1])
    /\ blocksOut[i].expected - blocksOut[i].new =
         blocksOut[i].lost - (IF i = 1 THEN 0 ELSE blocksOut[i - 1].lost)

(* What a packet adds to the jitter is how much longer or shorter its way  *)
(* was than the last one's, over the end of the 32-bit timestamps too.     *)
JitterIsChangeOfWay ==
  Len(heardOf.numbers) > 1 =>
    deviation = IF heardOf.rated THEN Absolute(heardOf.way - heardOf.before) ELSE 0

(* What the two ends learn of each other is what happened.                 *)
ReportsSound ==
  /\ RoundTripIsBothWays
  /\ ReportsTieTheClocks
  /\ LossIsMissing
  /\ IntervalsAddUp
  /\ JitterIsChangeOfWay
=============================================================================
