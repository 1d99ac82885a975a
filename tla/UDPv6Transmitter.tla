-------------------------- MODULE UDPv6Transmitter --------------------------
(***************************************************************************)
(* RTPUDPv6Transmitter as a whole, from one Create to the next: its        *)
(* sockets, its tables and its queue live in one session after another,    *)
(* and Destroy has to clear them all while a thread may be inside          *)
(* WaitForIncomingData.  Each call is one section under MAINMUTEX, but for *)
(* the wait and for a Destroy that a waiter holds up.  There is no sharing *)
(* of a socket and no search for ports as in IPv4; the filter is the same. *)
(* Sending, which reads the destinations and changes nothing, and abort    *)
(* descriptors of the application are in UDPTraffic and TransmitterWait.   *)
(***************************************************************************)
EXTENDS Naturals, Sequences, FiniteSets

CONSTANTS
  Sender6,       \* where datagrams come from: [ip, port]
  Peer6,         \* addresses of destinations
  Group6,        \* multicast groups
  Interface6,    \* addresses of the interfaces
  Loopback6,
  Portbase6,     \* port bases the parameters may have
  Bindable6,     \* ports the system lets an app bind, 1 is not one of them
  HostName6,     \* names the local addresses may resolve to
  MaxArrived6,   \* bound: datagrams in a socket
  MaxBytes6,     \* bound: bytes in the abort pipe
  MaxSessions6   \* bound: calls of Create that succeed

ASSUME UDPv6Assumption ==
  /\ 1 \notin Bindable6 /\ 0 \notin Bindable6
  /\ Loopback6 \notin Interface6 /\ "none" \notin HostName6
  /\ \A s \in Sender6 : s.port # 0

VARIABLES
  created6,
  session6,        \* history: the number of the session
  open6,           \* descriptors that are open
  misclosed6,      \* history: one that was not open was closed
  portbase6,
  bound6,          \* the ports of the sockets
  localIPs6,
  localhostname6,  \* the name that is kept, or none
  told6,           \* history: the names told in this session
  destinations6,   \* [addr, in], in is the session of the call
  groups6,         \* [group, in]
  member6,         \* memberships of the sockets
  arrived6,        \* datagrams that wait in the sockets, [from, empty, in]
  rawpacketlist6,  \* [from, isrtp, in]
  receivemode6, acceptignoreinfo6, want6, without6,   \* as in ReceiveFilter
  waiting6,        \* waitingfordata
  waiter6,         \* where the thread is that waits
  heard6,          \* its readflags[idxAbort]
  bytes6,          \* bytes in the abort pipe
  destroying6      \* Destroy waits for the waiter

socketvars6 == <<created6, session6, open6, misclosed6, portbase6, bound6, localIPs6>>
namevars6 == <<localhostname6, told6>>
listvars6 == <<destinations6, groups6, member6>>
queuevars6 == <<arrived6, rawpacketlist6>>
filtervars6 == <<receivemode6, acceptignoreinfo6, want6, without6>>
waitvars6 == <<waiting6, waiter6, heard6, bytes6, destroying6>>
udp6vars == <<socketvars6, namevars6, listvars6, queuevars6, filtervars6, waitvars6>>

Filter6 == INSTANCE ReceiveFilter WITH
  IP <- {s.ip : s \in Sender6}, Port <- {s.port : s \in Sender6},
  receivemode <- receivemode6, acceptignoreinfo <- acceptignoreinfo6, want <- want6,
  without <- without6

Socket6 == {"rtp", "rtcp"}
Descriptors6 == Socket6 \cup {"pipe"}
NoPorts == [s \in Socket6 |-> 0]
Nothing6 == [s \in Socket6 |-> <<>>]

UDPv6Init ==
  /\ created6 = FALSE /\ session6 = 0 /\ open6 = {} /\ misclosed6 = FALSE
  /\ portbase6 = 0 /\ bound6 = NoPorts /\ localIPs6 = {}
  /\ localhostname6 = "none" /\ told6 = {}
  /\ destinations6 = {} /\ groups6 = {} /\ member6 = {}
  /\ arrived6 = Nothing6 /\ rawpacketlist6 = <<>>
  /\ Filter6!FilterInit
  /\ waiting6 = FALSE /\ waiter6 = "out" /\ heard6 = FALSE
  /\ bytes6 = 0 /\ destroying6 = FALSE

-----------------------------------------------------------------------------
(* Create and Destroy.                                                     *)

(* Where Create gives up, and what it has opened by then: before it has    *)
(* the RTP socket, before it has the RTCP socket, or after that, at buffer *)
(* sizes, a bind, the packet size or the abort pipe.                       *)
OpenedBefore6 == [early |-> {}, second |-> {"rtp"}, late |-> Socket6]

GiveUpLeaving6 ==
  /\ ~created6 /\ ~destroying6
  /\ \E at \in {"early", "second", "late"} :
       open6' = open6 \cup (IF at = "second" THEN OpenedBefore6[at] ELSE {})
  /\ UNCHANGED <<created6, session6, misclosed6, portbase6, bound6, localIPs6, namevars6,
                 listvars6, queuevars6, filtervars6, waitvars6>>

GiveUp6 ==
  /\ ~created6 /\ ~destroying6
  /\ \E at \in {"early", "second", "late"} :
       open6' = (open6 \cup OpenedBefore6[at]) \ OpenedBefore6[at]
  /\ UNCHANGED <<created6, session6, misclosed6, portbase6, bound6, localIPs6, namevars6,
                 listvars6, queuevars6, filtervars6, waitvars6>>

(* A list of the application's, or those interfaces that the name service  *)
(* knows (this build does not ask the system), and the loopback address.   *)
LocalIPLists6 ==
  {Interface6} \cup {found \cup {Loopback6} : found \in SUBSET Interface6}

(* For a base of 0 the system chooses the RTP port, but not the other.     *)
Bound6(base, chosen) ==
  [rtp |-> IF base = 0 THEN chosen ELSE base, rtcp |-> base + 1]

(* The receive mode is reset, the lists are as Destroy left them.          *)
Create6 ==
  /\ ~created6 /\ ~destroying6 /\ session6 < MaxSessions6
  /\ \E base \in Portbase6, chosen \in Bindable6 :
       /\ base % 2 = 0 /\ portbase6' = base /\ bound6' = Bound6(base, chosen)
       /\ base = 0 \/ chosen = base
       /\ {bound6'[s] : s \in Socket6} \subseteq Bindable6
  /\ created6' = TRUE /\ session6' = session6 + 1
  /\ open6' = open6 \cup Descriptors6 /\ bytes6' = 0
  /\ localIPs6' \in LocalIPLists6
  /\ localhostname6' = "none" /\ told6' = {}
  /\ receivemode6' = "AcceptAll" /\ want6' = {} /\ without6' = {}
  /\ waiting6' = FALSE
  /\ UNCHANGED <<misclosed6, listvars6, queuevars6, acceptignoreinfo6, waiter6, heard6,
                 destroying6>>

Close6 ==
  /\ open6' = open6 \ Descriptors6
  /\ misclosed6' = (misclosed6 \/ ~(Descriptors6 \subseteq open6))
  /\ member6' = {} /\ arrived6' = Nothing6 /\ bound6' = NoPorts

DestroyKeepingQueue6 ==
  /\ created6 /\ created6' = FALSE /\ Close6
  /\ localhostname6' = "none" /\ destinations6' = {} /\ groups6' = {}
  /\ Filter6!ClearAcceptIgnoreInfo /\ localIPs6' = {}
  /\ bytes6' = 0 /\ destroying6' = waiting6
  /\ UNCHANGED <<session6, portbase6, told6, receivemode6, waiting6, waiter6, heard6,
                 rawpacketlist6>>

(* A waiter is signalled before the pipe is closed, and waited for.        *)
Destroy6 ==
  /\ created6 /\ created6' = FALSE /\ Close6
  /\ localhostname6' = "none" /\ destinations6' = {} /\ groups6' = {}
  /\ rawpacketlist6' = <<>>
  /\ Filter6!ClearAcceptIgnoreInfo /\ localIPs6' = {}
  /\ bytes6' = 0 /\ destroying6' = waiting6
  /\ UNCHANGED <<session6, portbase6, told6, receivemode6, waiting6, waiter6, heard6>>

DestroyEnds6 ==
  /\ destroying6 /\ waiter6 = "out" /\ destroying6' = FALSE
  /\ UNCHANGED <<socketvars6, namevars6, listvars6, queuevars6, filtervars6, waiting6,
                 waiter6, heard6, bytes6>>

-----------------------------------------------------------------------------
(* The wait.                                                               *)

Waits6 == UNCHANGED <<socketvars6, namevars6, listvars6, queuevars6, filtervars6,
                      destroying6>>

WaitForIncomingData6 ==
  /\ created6 /\ ~waiting6 /\ waiter6 = "out"
  /\ waiting6' = TRUE /\ waiter6' = "select"
  /\ UNCHANGED <<heard6, bytes6>> /\ Waits6

(* For data, the delay, a signal, or the pipe.                             *)
SelectReturns6 ==
  /\ waiter6 = "select" /\ waiter6' = "back"
  /\ heard6' \in BOOLEAN /\ (heard6' => bytes6 > 0 \/ "pipe" \notin open6)
  /\ UNCHANGED <<waiting6, bytes6>> /\ Waits6

(* The transmitter may be gone by now.                                     *)
FinishWait6 ==
  /\ waiter6 = "back" /\ waiting6' = FALSE
  /\ IF created6 /\ heard6
     THEN IF bytes6 > 0 THEN waiter6' = "out" /\ bytes6' = bytes6 - 1
          ELSE waiter6' = "blocked" /\ UNCHANGED bytes6
     ELSE waiter6' = "out" /\ UNCHANGED bytes6
  /\ UNCHANGED heard6 /\ Waits6

AbortWait6 ==
  /\ created6 /\ waiting6 /\ bytes6 < MaxBytes6 /\ bytes6' = bytes6 + 1
  /\ UNCHANGED <<waiting6, waiter6, heard6>> /\ Waits6

-----------------------------------------------------------------------------
(* Destinations, groups and the filter.                                    *)

Lists6 == created6 /\ UNCHANGED <<socketvars6, namevars6, queuevars6, waitvars6>>
Entry6(addr) == [addr |-> addr, in |-> session6]

AddDestination6(addr) ==
  /\ \A d \in destinations6 : d.addr # addr
  /\ destinations6' = destinations6 \cup {Entry6(addr)}
  /\ UNCHANGED <<groups6, member6, filtervars6>> /\ Lists6

DeleteDestination6(addr) ==
  /\ \E d \in destinations6 : d.addr = addr
  /\ destinations6' = {d \in destinations6 : d.addr # addr}
  /\ UNCHANGED <<groups6, member6, filtervars6>> /\ Lists6

ClearDestinations6 ==
  /\ destinations6' = {} /\ UNCHANGED <<groups6, member6, filtervars6>> /\ Lists6

(* If the second socket cannot join, the first one leaves again.           *)
JoinMulticastGroup6(g) ==
  /\ \A e \in groups6 : e.addr # g
  /\ \/ /\ groups6' = groups6 \cup {Entry6(g)}
        /\ member6' = member6 \cup (Socket6 \X {g})
     \/ member6' = member6 \ {<<"rtp", g>>} /\ UNCHANGED groups6
  /\ UNCHANGED <<destinations6, filtervars6>> /\ Lists6

LeaveMulticastGroup6(g) ==
  /\ \E e \in groups6 : e.addr = g
  /\ groups6' = {e \in groups6 : e.addr # g}
  /\ member6' = member6 \ (Socket6 \X {g})
  /\ UNCHANGED <<destinations6, filtervars6>> /\ Lists6

LeaveAllMulticastGroups6 ==
  /\ groups6' = {} /\ member6' = member6 \ (Socket6 \X {e.addr : e \in groups6})
  /\ UNCHANGED <<destinations6, filtervars6>> /\ Lists6

(* The filter keeps its entries as that of IPv4 does.                      *)
Filters6(mode) == receivemode6 = mode /\ UNCHANGED listvars6 /\ Lists6
ProcessAddAcceptIgnoreEntry6(ip, port) == Filter6!ProcessAddAcceptIgnoreEntry(ip, port)
ProcessDeleteAcceptIgnoreEntry6(ip, port) ==
  Filter6!ProcessDeleteAcceptIgnoreEntry(ip, port)
ClearAcceptIgnoreInfo6 == Filter6!ClearAcceptIgnoreInfo /\ UNCHANGED receivemode6

SetReceiveMode6(m) == Filter6!SetReceiveMode(m) /\ UNCHANGED listvars6 /\ Lists6

AddToIgnoreList6(ip, port) ==
  Filters6("IgnoreSome") /\ ProcessAddAcceptIgnoreEntry6(ip, port)
AddToAcceptList6(ip, port) ==
  Filters6("AcceptSome") /\ ProcessAddAcceptIgnoreEntry6(ip, port)
DeleteFromIgnoreList6(ip, port) ==
  Filters6("IgnoreSome") /\ ProcessDeleteAcceptIgnoreEntry6(ip, port)
DeleteFromAcceptList6(ip, port) ==
  Filters6("AcceptSome") /\ ProcessDeleteAcceptIgnoreEntry6(ip, port)
ClearIgnoreList6 == Filters6("IgnoreSome") /\ ClearAcceptIgnoreInfo6
ClearAcceptList6 == Filters6("AcceptSome") /\ ClearAcceptIgnoreInfo6

ShouldAcceptData6(from) == Filter6!AcceptData(from.ip, from.port)

-----------------------------------------------------------------------------
(* Packets.                                                                *)

Queue6 == UNCHANGED <<socketvars6, namevars6, listvars6, filtervars6, waitvars6>>

DatagramArrives6(s) ==
  /\ created6 /\ Len(arrived6[s]) < MaxArrived6
  /\ \E from \in Sender6, empty \in BOOLEAN :
       arrived6' = [arrived6 EXCEPT ![s] =
                      Append(@, [from |-> from, empty |-> empty, in |-> session6])]
  /\ UNCHANGED rawpacketlist6 /\ Queue6

(* PollSocket takes one datagram after the other, and asks select about    *)
(* what looks like nothing: that is where it ends, or fails, which leaves  *)
(* the rest where it is.  It queues what is not empty and passes the       *)
(* filter.                                                                 *)
EndsAt6(s, n) == n < Len(arrived6[s]) => arrived6[s][n + 1].empty

PollSocket6(s, n) ==
  LET q == arrived6[s]
      Kept(k) == ~q[k].empty /\ ShouldAcceptData6(q[k].from)
      queued[k \in 0 .. Len(q)] ==  \* after the first k
        IF k = 0 THEN <<>>
        ELSE queued[k - 1] \o
               IF Kept(k) THEN <<[from |-> q[k].from, isrtp |-> s = "rtp", in |-> q[k].in]>>
               ELSE <<>>
  IN  queued[n]

LeftAfter6(s, n) == SubSeq(arrived6[s], n + 1, Len(arrived6[s]))

(* The session polls when it has taken what was queued before.  After a    *)
(* failure with the RTP socket the other one is not polled.                *)
Poll6 ==
  /\ created6 /\ rawpacketlist6 = <<>>
  /\ \E n \in 0 .. Len(arrived6["rtp"]), m \in 0 .. Len(arrived6["rtcp"]) :
       /\ EndsAt6("rtp", n)
       /\ m > 0 => n = Len(arrived6["rtp"]) /\ EndsAt6("rtcp", m)
       /\ rawpacketlist6' = PollSocket6("rtp", n) \o PollSocket6("rtcp", m)
       /\ arrived6' = [s \in Socket6 |-> LeftAfter6(s, IF s = "rtp" THEN n ELSE m)]
  /\ Queue6

GetNextPacket6 ==
  /\ created6 /\ rawpacketlist6 # <<>> /\ rawpacketlist6' = Tail(rawpacketlist6)
  /\ UNCHANGED arrived6 /\ Queue6

(* Looked up once; a caller whose buffer is too small is told the length.  *)
GetLocalHostName6 ==
  /\ created6 /\ localhostname6' \in HostName6
  /\ localhostname6 \in {"none", localhostname6'}
  /\ told6' \in {told6, told6 \cup {localhostname6'}}
  /\ UNCHANGED <<socketvars6, listvars6, queuevars6, filtervars6, waitvars6>>

UDPv6Next ==
  \/ GiveUp6 \/ Create6 \/ Destroy6 \/ DestroyEnds6
  \/ WaitForIncomingData6 \/ SelectReturns6 \/ FinishWait6 \/ AbortWait6
  \/ \E addr \in Peer6 : AddDestination6(addr) \/ DeleteDestination6(addr)
  \/ ClearDestinations6
  \/ \E g \in Group6 : JoinMulticastGroup6(g) \/ LeaveMulticastGroup6(g)
  \/ LeaveAllMulticastGroups6
  \/ \E m \in Filter6!ReceiveMode : SetReceiveMode6(m)
  \/ ClearIgnoreList6 \/ ClearAcceptList6
  \/ \E s \in Sender6 : \E port \in {0, s.port} :
       \/ AddToIgnoreList6(s.ip, port) \/ AddToAcceptList6(s.ip, port)
       \/ DeleteFromIgnoreList6(s.ip, port) \/ DeleteFromAcceptList6(s.ip, port)
  \/ \E s \in Socket6 : DatagramArrives6(s)
  \/ Poll6 \/ GetNextPacket6 \/ GetLocalHostName6

UDPv6Spec == UDPv6Init /\ [][UDPv6Next]_udp6vars

-----------------------------------------------------------------------------

UDPv6TypeOK ==
  /\ created6 \in BOOLEAN /\ session6 \in 0 .. MaxSessions6
  /\ open6 \subseteq Descriptors6 /\ localIPs6 \subseteq Interface6 \cup {Loopback6}
  /\ localhostname6 \in HostName6 \cup {"none"} /\ told6 \subseteq HostName6
  /\ member6 \subseteq Socket6 \X Group6
  /\ Filter6!FilterTypeOK
  /\ waiter6 \in {"out", "select", "back", "blocked"} /\ bytes6 \in 0 .. MaxBytes6

(* Whatever step of Create fails, and whoever waits when Destroy comes, no *)
(* descriptor stays open without the transmitter or is closed twice.       *)
DescriptorsGivenBack6 ==
  open6 = (IF created6 THEN Descriptors6 ELSE {}) /\ ~misclosed6

(* A waiter never reads an empty pipe, and none is inside when Destroy is  *)
(* over; a session does not begin with the waiter of the one before.       *)
WaitersSafe6 ==
  /\ waiter6 # "blocked"
  /\ waiter6 = "back" /\ heard6 /\ created6 => bytes6 > 0
  /\ ~created6 /\ ~destroying6 => waiter6 = "out"
  /\ created6 => waiting6 = (waiter6 # "out")

(* ComesFromThisTransmitter, by which the session tells its own packets    *)
(* from those of a colliding source.                                       *)
ComesFromThisTransmitter6(ip, port) ==
  created6 /\ ip \in localIPs6 /\ port \in {portbase6, portbase6 + 1}

(* All that a session finds in its tables is of its own making: packets,   *)
(* destinations, groups, filter entries and the one name it tells; the     *)
(* groups are the sockets' memberships, and what its sockets send is known *)
(* as its own.                                                             *)
SessionsApart6 ==
  /\ \A e \in destinations6 \cup groups6 : e.in = session6
  /\ \A i \in DOMAIN rawpacketlist6 : rawpacketlist6[i].in = session6
  /\ created6 \/ (destinations6 = {} /\ groups6 = {} /\ rawpacketlist6 = <<>>)
  /\ created6 => /\ member6 = Socket6 \X {e.addr : e \in groups6}
                 /\ Filter6!ListExact
                 /\ \A ip \in localIPs6, s \in Socket6 :
                      ComesFromThisTransmitter6(ip, bound6[s])
  /\ Cardinality(told6) <= 1
=============================================================================
