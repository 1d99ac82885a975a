---------------------------- MODULE RTCPScheduler ----------------------------
(***************************************************************************)
(* RTCPScheduler: when the next RTCP packet is due, with timer             *)
(* reconsideration as members come (IsTime), reverse reconsideration as    *)
(* they go, and the back-off for BYE packets. Times are relative to the    *)
(* present, in ticks: what lies ahead is positive, what lies behind is     *)
(* negative. An interval is drawn between LeastDraw and MostDraw tenths    *)
(* of the deterministic one (0.5/1.21828 and 1.5/1.21828 in the code).     *)
(***************************************************************************)
EXTENDS Integers

CONSTANTS
  MinInterval,          \* mininterval, in ticks
  ForAll, ForSenders, ForOthers, \* C: ticks per member that shares the whole
                        \* bandwidth, the senders' part, and the rest
  ShareOf,              \* senders have a part if at most one in ShareOf sends
  ImmediateBYE,         \* immediatebye
  LeastDraw, MostDraw,          \* the shortest and the longest draw, in tenths
  MaxMembers,           \* bound: members
  MaxLate               \* bound: ticks the poll is late

(* Senders that are few have no more than their share of the bandwidth.    *)
ASSUME SchedAssumption ==
  /\ {MinInterval, ForAll, ForSenders, ForOthers, ShareOf, LeastDraw, MostDraw,
      MaxLate} \subseteq Nat
  /\ ForSenders <= ShareOf * ForAll /\ LeastDraw <= MostDraw
  /\ MaxMembers \in Nat \ {0}

VARIABLES
  nextrtcptime, prevrtcptime, pmembers, firstcall, hassentrtcp,
  byescheduled, sendbyenow, byemembers,
  members, senders, own,        \* of the participant table; own: this one sends
  lastReport,                   \* history: when a report was due last
  hurried                       \* history: a report came too soon after one

timers == <<nextrtcptime, prevrtcptime, pmembers>>
bye == <<byescheduled, sendbyenow, byemembers>>
counts == <<members, senders, own>>
schedvars == <<timers, firstcall, hassentrtcp, bye, counts, lastReport, hurried>>

SchedInit ==
  /\ nextrtcptime = 0 /\ prevrtcptime = 0 /\ pmembers = 0
  /\ firstcall = TRUE /\ hassentrtcp = FALSE
  /\ byescheduled = FALSE /\ sendbyenow = FALSE /\ byemembers = 0
  /\ members = 1 /\ senders = 0 /\ own = FALSE
  /\ lastReport = 0 /\ hurried = FALSE

Larger(x, y) == IF x > y THEN x ELSE y

-----------------------------------------------------------------------------

Tmin(half) == IF half THEN MinInterval \div 2 ELSE MinInterval

CalculateDeterministicInterval ==
  LET total == Larger(members, 1)
      ntimesC == IF senders * ShareOf <= total
                 THEN IF own THEN senders * ForSenders
                      ELSE (total - senders) * ForOthers
                 ELSE total * ForAll
  IN  Larger(Tmin(~hassentrtcp), ntimesC)

Drawn(Td) == {(Td * mul) \div 10 : mul \in {LeastDraw, MostDraw}}

CalculateTransmissionInterval == Drawn(CalculateDeterministicInterval)

CalculateBYETransmissionInterval(now, n) ==
  IF now THEN {0} ELSE Drawn(Larger(Tmin(TRUE), n * ForOthers))

CalculateNextRTCPTime == nextrtcptime' \in CalculateTransmissionInterval

FirstInterval ==
  /\ firstcall' = FALSE /\ prevrtcptime' = 0 /\ pmembers' = members
  /\ CalculateNextRTCPTime
  /\ UNCHANGED <<hassentrtcp, bye, counts, lastReport, hurried>>

GetTransmissionDelay == firstcall /\ FirstInterval

(* The interval the timer is checked against, drawn anew.                  *)
Checked == IF byescheduled
           THEN CalculateBYETransmissionInterval(sendbyenow, byemembers)
           ELSE CalculateTransmissionInterval

DueUnchecked(checktime) == TRUE

Due(checktime) == checktime <= 0

(* What the history keeps of a report that is due.                         *)
NoteReport ==
  IF byescheduled THEN UNCHANGED <<lastReport, hurried>>
  ELSE /\ lastReport' = 0
       /\ hurried' = (-lastReport < (CalculateDeterministicInterval * LeastDraw) \div 10)

PutOffFromNow(checktime) == nextrtcptime' = checktime - prevrtcptime + 1

PutOff(checktime) == nextrtcptime' = checktime

IsTime ==
  \/ firstcall /\ FirstInterval
  \/ /\ ~firstcall /\ nextrtcptime <= 0
     /\ \E T \in Checked :
          LET checktime == prevrtcptime + T IN
          IF Due(checktime)
          THEN /\ byescheduled' = FALSE /\ prevrtcptime' = 0
               /\ CalculateNextRTCPTime /\ NoteReport
          ELSE /\ PutOff(checktime)
               /\ UNCHANGED <<byescheduled, prevrtcptime, lastReport, hurried>>
     /\ pmembers' = members
     /\ UNCHANGED <<firstcall, hassentrtcp, sendbyenow, byemembers, counts>>

AnalyseOutgoing ==
  /\ ~hassentrtcp /\ hassentrtcp' = TRUE
  /\ UNCHANGED <<timers, firstcall, bye, counts, lastReport, hurried>>

(* A BYE of another while ours waits; the sizes of packets are left out.   *)
AnalyseIncoming ==
  /\ byescheduled /\ byemembers < MaxMembers /\ byemembers' = byemembers + 1
  /\ UNCHANGED <<timers, firstcall, hassentrtcp, byescheduled, sendbyenow, counts,
                 lastReport, hurried>>

(* Both times are drawn to the present as members go.                      *)
PerformReverseReconsideration ==
  LET before == Larger(pmembers, 1) IN
  /\ nextrtcptime' = (members' * Larger(nextrtcptime, 0)) \div before
  /\ prevrtcptime' = -((members' * (-prevrtcptime)) \div before)
  /\ pmembers' = members'

ActiveMemberDecrease ==
  IF members' < pmembers /\ ~firstcall THEN PerformReverseReconsideration
  ELSE UNCHANGED timers

ScheduleBYEPacket ==
  /\ ~byescheduled /\ byescheduled' = TRUE
  /\ firstcall' = FALSE
  /\ pmembers' = IF firstcall THEN members ELSE pmembers
  /\ byemembers' = 1 /\ sendbyenow' = ImmediateBYE
  /\ prevrtcptime' = 0
  /\ nextrtcptime' \in CalculateBYETransmissionInterval(sendbyenow', 1)
  /\ UNCHANGED <<hassentrtcp, counts, lastReport, hurried>>

-----------------------------------------------------------------------------
(* The participant table, and time; the history forgets what is longer     *)
(* ago than any interval.                                                  *)

Longest == (MostDraw * Larger(MinInterval, MaxMembers * Larger(ForOthers, ForAll))) \div 10

MemberComes ==
  /\ members < MaxMembers /\ members' = members + 1
  /\ UNCHANGED <<timers, firstcall, hassentrtcp, bye, senders, own, lastReport, hurried>>

MemberGoes ==
  /\ members > Larger(senders, 1) /\ members' = members - 1
  /\ ActiveMemberDecrease
  /\ UNCHANGED <<firstcall, hassentrtcp, bye, senders, own, lastReport, hurried>>

SenderChanges ==
  /\ \E s \in 0 .. members : senders' = s
  /\ own' \in BOOLEAN /\ (own' => senders' > 0)
  /\ UNCHANGED <<timers, firstcall, hassentrtcp, bye, members, lastReport, hurried>>

(* The session polls before the timer is long over.                        *)
Tick ==
  /\ ~firstcall /\ nextrtcptime > -MaxLate
  /\ nextrtcptime' = nextrtcptime - 1 /\ prevrtcptime' = prevrtcptime - 1
  /\ lastReport' = Larger(lastReport - 1, -Longest)
  /\ UNCHANGED <<pmembers, firstcall, hassentrtcp, bye, counts, hurried>>

SchedNext ==
  \/ GetTransmissionDelay \/ IsTime \/ AnalyseOutgoing \/ AnalyseIncoming
  \/ ScheduleBYEPacket
  \/ MemberComes \/ MemberGoes \/ SenderChanges \/ Tick

SchedSpec == SchedInit /\ [][SchedNext]_schedvars

-----------------------------------------------------------------------------

SchedTypeOK ==
  /\ nextrtcptime >= -MaxLate /\ prevrtcptime <= 0 /\ lastReport <= 0
  /\ pmembers \in 0 .. MaxMembers /\ members \in 1 .. MaxMembers
  /\ byemembers \in 0 .. MaxMembers /\ senders \in 0 .. members

(* However members come and go, a report goes out no sooner after the      *)
(* one before than the shortest interval for the members there are then:   *)
(* what reverse reconsideration does to the times never shortens it.       *)
ReportsSpaced == ~hurried

(* And while it is not over, the timer is never put off beyond the longest *)
(* interval there can be from the time it is reckoned from.                *)
NotPutOff == ~firstcall /\ nextrtcptime > 0 => nextrtcptime - prevrtcptime <= Longest

SchedulerSound == ReportsSpaced /\ NotPutOff
=============================================================================
