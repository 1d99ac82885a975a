--------------------------- MODULE UDPTransmitter ---------------------------
(***************************************************************************)
(* The sockets of RTPUDPv4Transmitter: how Create obtains them, step by    *)
(* step and with a failure at each, and what is done with them until       *)
(* Destroy.  The whole of Create is one section under MAINMUTEX, so no     *)
(* other call comes between its steps.  WaitForIncomingData is in          *)
(* TransmitterWait, the filter on arriving packets in ReceiveFilter.       *)
(***************************************************************************)
EXTENDS Naturals, Sequences, FiniteSets

CONSTANTS
  MaxPort,      \* 65535 in the code, odd
  MaxAttempts,  \* 1024 in the code
  Descriptor,   \* socket numbers, the lowest free one is used
  Group,        \* multicast groups
  Interface,    \* addresses of the interfaces
  Loopback      \* 127.0.0.1

ASSUME UDPAssumption ==
  /\ MaxPort \in Nat /\ MaxPort % 2 = 1 /\ MaxPort > 1
  /\ MaxAttempts \in Nat \ {0}
  /\ Descriptor \subseteq Nat \ {0} /\ {1, 2} \subseteq Descriptor

VARIABLES
  stage,     \* how far Create has come
  params,    \* RTPUDPv4TransmissionParams
  localIPs,  \* the addresses taken to be this host's
  rtpsock, rtcpsock,
  rtpport, rtcpport,
  multicastgroups,
  toClose,   \* sockets that GetAutoSockets puts aside
  attempts,
  open,      \* the process's open descriptors
  bound,     \* their ports, 0 if not bound
  member,    \* their multicast memberships
  given,     \* the sockets that belong to the application
  misclosed  \* a descriptor was closed that was not the transmitter's own

descriptors == <<open, bound, member, given, misclosed>>
sockets == <<rtpsock, rtcpsock, rtpport, rtcpport>>
udpvars == <<stage, params, localIPs, sockets, multicastgroups, toClose, attempts,
             descriptors>>

UDPPort == 1 .. MaxPort
Stages == {"none", "auto", "second", "base", "options", "created"}
Params == [existing : BOOLEAN, mux : BOOLEAN, odd : BOOLEAN,
           base : UDPPort \cup {0}, forced : UDPPort \cup {0}]
created == stage = "created"

UDPTypeOK ==
  /\ stage \in Stages /\ params \in Params
  /\ localIPs \subseteq Interface \cup {Loopback}
  /\ {rtpsock, rtcpsock} \subseteq Descriptor \cup {0}
  /\ {rtpport, rtcpport} \subseteq UDPPort \cup {0}
  /\ multicastgroups \subseteq Group
  /\ toClose \subseteq open /\ open \subseteq Descriptor
  /\ attempts \in 0 .. MaxAttempts
  /\ bound \in [Descriptor -> UDPPort \cup {0}]
  /\ member \in [Descriptor -> SUBSET Group]
  /\ given \subseteq Descriptor /\ misclosed \in BOOLEAN

(* The application has two bound sockets of its own to hand over.          *)
UDPInit ==
  /\ stage = "none"
  /\ params = [existing |-> FALSE, mux |-> FALSE, odd |-> FALSE,
               base |-> 0, forced |-> 0]
  /\ localIPs = {}
  /\ rtpsock = 0 /\ rtcpsock = 0 /\ rtpport = 0 /\ rtcpport = 0
  /\ multicastgroups = {}
  /\ toClose = {} /\ attempts = 0
  /\ given = {1, 2} /\ open = given
  /\ bound = [s \in Descriptor |-> IF s \in given THEN MaxPort - 2 + s ELSE 0]
  /\ member = [s \in Descriptor |-> {}]
  /\ misclosed = FALSE

-----------------------------------------------------------------------------
(* The socket calls.  A new socket has the lowest number that is free; if  *)
(* none is, socket fails.                                                  *)

Lowest(S) == CHOOSE s \in S : \A u \in S : s <= u
Unused == Lowest(Descriptor \ open)
Free(p) == \A s \in open : bound[s] # p

Close(S) ==
  /\ open' = open \ S
  /\ bound' = [s \in Descriptor |-> IF s \in S THEN 0 ELSE bound[s]]
  /\ member' = [s \in Descriptor |-> IF s \in S THEN {} ELSE member[s]]
  /\ misclosed' = (misclosed \/ ~(S \subseteq open \ given))
  /\ UNCHANGED given

(* The macro CLOSESOCKETS, together with what else is to be closed.        *)
CloseSocketsAlways(others) == Close({rtpsock, rtcpsock} \cup others)
CloseSockets(others) ==
  Close(others \cup (IF params.existing THEN {} ELSE {rtpsock, rtcpsock}))

Fail ==
  /\ stage' = "none" /\ rtpsock' = 0 /\ rtcpsock' = 0
  /\ rtpport' = 0 /\ rtcpport' = 0 /\ toClose' = {} /\ attempts' = 0
  /\ UNCHANGED <<params, localIPs, multicastgroups>>

-----------------------------------------------------------------------------
(* Create.                                                                 *)

Create ==
  /\ stage = "none"
  /\ params' \in Params
  /\ params'.existing => params'.base = 0 /\ params'.forced = 0
  /\ attempts' = 0
  /\ CASE params'.existing ->
            /\ stage' = "options"
            /\ \E r, c \in given : (r = c) = params'.mux
                 /\ rtpsock' = r /\ rtcpsock' = c
                 /\ rtpport' = bound[r] /\ rtcpport' = bound[c]
       [] ~params'.existing /\ params'.base = 0 ->
            stage' = "auto" /\ UNCHANGED sockets
       [] OTHER ->
            /\ stage' = IF params'.odd \/ params'.base % 2 = 0
                        THEN "base" ELSE "none"
            /\ UNCHANGED sockets
  /\ UNCHANGED <<localIPs, multicastgroups, toClose, descriptors>>

(* GetAutoSockets: a socket on a port that the system chooses.             *)
AutoFirst ==
  /\ stage = "auto" /\ attempts < MaxAttempts /\ open # Descriptor
  /\ attempts' = attempts + 1
  /\ \E p \in UDPPort :
       /\ Free(p) /\ open' = open \cup {Unused}
       /\ bound' = [bound EXCEPT ![Unused] = p]
       /\ rtpsock' = Unused /\ rtpport' = p
       /\ IF params.mux /\ (p % 2 = 0 \/ params.odd)
          THEN rtcpsock' = Unused /\ rtcpport' = p /\ stage' = "options"
          ELSE /\ stage' = IF params.mux THEN "auto" ELSE "second"
               /\ UNCHANGED <<rtcpsock, rtcpport>>
       /\ toClose' = IF params.mux /\ stage' = "auto"
                     THEN toClose \cup {Unused} ELSE toClose
  /\ UNCHANGED <<params, localIPs, multicastgroups, member, given, misclosed>>

NeighbourUp(p) == p + 1
Neighbour(p) == IF p % 2 = 0 THEN p + 1 ELSE p - 1

(* A second socket on the neighbouring port.  The lower port is the RTP    *)
(* port; port 0 is avoided.                                                *)
AutoSecond ==
  LET p == rtpport
      q == Neighbour(p)
  IN  /\ stage = "second" /\ open # Descriptor
      /\ open' = open \cup {Unused}
      /\ \/ /\ q \in UDPPort /\ Free(q) /\ stage' = "options"
            /\ bound' = [bound EXCEPT ![Unused] = q]
            /\ IF p < q
               THEN rtcpsock' = Unused /\ rtcpport' = q
                      /\ UNCHANGED <<rtpsock, rtpport>>
               ELSE rtpsock' = Unused /\ rtpport' = q
                      /\ rtcpsock' = rtpsock /\ rtcpport' = p
            /\ UNCHANGED toClose
         \/ /\ stage' = "auto"
            /\ toClose' = toClose \cup {rtpsock, Unused}
            /\ UNCHANGED <<sockets, bound>>
      /\ UNCHANGED <<params, localIPs, multicastgroups, attempts, member, given,
                     misclosed>>

AutoFailLeaving ==
  stage \in {"auto", "second"} /\ Fail /\ Close(toClose)

(* A call failed, or there were too many attempts.                         *)
AutoFail ==
  /\ stage \in {"auto", "second"} /\ Fail
  /\ Close(toClose \cup (IF stage = "second" THEN {rtpsock} ELSE {}))

CloseSetAsideTwice ==
  /\ stage = "options" /\ toClose # {}
  /\ toClose' \in {{}, toClose}
  /\ Close(toClose)
  /\ UNCHANGED <<stage, params, localIPs, sockets, multicastgroups, attempts>>

CloseSetAside ==
  /\ stage = "options" /\ toClose # {} /\ toClose' = {}
  /\ Close(toClose)
  /\ UNCHANGED <<stage, params, localIPs, sockets, multicastgroups, attempts>>

RTCPPort ==
  IF params.forced # 0 THEN params.forced
  ELSE IF params.base < MaxPort THEN params.base + 1 ELSE params.base

(* Sockets on the ports that the parameters give.                          *)
BaseSockets ==
  /\ stage = "base" /\ open # Descriptor
  /\ params.mux \/ Descriptor \ (open \cup {Unused}) # {}
  /\ LET r == Unused
         c == IF params.mux THEN r ELSE Lowest(Descriptor \ (open \cup {r}))
         port == IF params.mux THEN params.base ELSE RTCPPort
     IN  /\ Free(params.base) /\ Free(port)
         /\ params.mux \/ port # params.base
         /\ open' = open \cup {r, c}
         /\ rtpsock' = r /\ rtcpsock' = c
         /\ rtpport' = params.base /\ rtcpport' = port
         /\ bound' = [s \in Descriptor |->
                        CASE s = r -> params.base
                          [] s = c /\ s # r -> port
                          [] OTHER -> bound[s]]
  /\ stage' = "options"
  /\ UNCHANGED <<params, localIPs, multicastgroups, toClose, attempts, member,
                 given, misclosed>>

(* socket or bind failed: each socket that was opened is closed.           *)
BaseFail == stage = "base" /\ Fail /\ Close({})

(* The addresses of the interfaces, or those that the name service knows   *)
(* if the system tells none, and the loopback address.                     *)
CreateLocalIPList == {found \cup {Loopback} : found \in SUBSET Interface}

(* Buffer sizes, local addresses, the packet size and the abort            *)
(* descriptors: a failure closes the sockets.  (It leaves the addresses,   *)
(* which nobody reads before the next Create has made them anew.)          *)
OptionsFail ==
  stage = "options" /\ toClose = {} /\ CloseSockets({}) /\ Fail

CreateDone ==
  /\ stage = "options" /\ toClose = {} /\ stage' = "created"
  \* a list from the application is taken as it is
  /\ localIPs' \in {Interface} \cup CreateLocalIPList
  /\ UNCHANGED <<params, sockets, multicastgroups, toClose, attempts,
                 descriptors>>

Destroy ==
  /\ created /\ CloseSockets({}) /\ stage' = "none"
  /\ multicastgroups' = {} /\ localIPs' = {}
  /\ rtpsock' = 0 /\ rtcpsock' = 0 /\ rtpport' = 0 /\ rtcpport' = 0
  /\ attempts' = 0
  /\ UNCHANGED <<params, toClose>>

-----------------------------------------------------------------------------
(* Multicast groups.  IP_ADD_MEMBERSHIP fails on a socket that is a member *)
(* already, and may fail otherwise.                                        *)

CanJoin(s, g) == g \notin member[s]

SetMember(S, g, in) ==
  member' = [s \in Descriptor |->
               IF s \in S THEN IF in THEN member[s] \cup {g}
                                     ELSE member[s] \ {g}
               ELSE member[s]]

MulticastUnchanged ==
  UNCHANGED <<stage, params, localIPs, sockets, toClose, attempts, open, bound,
              given, misclosed>>

JoinMulticastGroup(g) ==
  /\ created /\ g \notin multicastgroups
  /\ CanJoin(rtpsock, g) /\ CanJoin(rtcpsock, g)
  /\ multicastgroups' = multicastgroups \cup {g}
  /\ SetMember({rtpsock, rtcpsock}, g, TRUE)
  /\ MulticastUnchanged

JoinFailsHalfway(g) ==
  /\ created /\ g \notin multicastgroups /\ rtpsock # rtcpsock
  /\ CanJoin(rtpsock, g) /\ SetMember({rtpsock}, g, TRUE)
  /\ UNCHANGED multicastgroups /\ MulticastUnchanged

(* The first socket has joined, the second could not: the first leaves     *)
(* again.  It leaves a group of before, too, but then it could not join.   *)
JoinFails(g) ==
  /\ created /\ g \notin multicastgroups
  /\ UNCHANGED <<multicastgroups, member>> /\ MulticastUnchanged

LeaveMulticastGroup(g) ==
  /\ created /\ g \in multicastgroups
  /\ multicastgroups' = multicastgroups \ {g}
  /\ SetMember({rtpsock, rtcpsock}, g, FALSE)
  /\ MulticastUnchanged

LeaveAllMulticastGroups ==
  /\ created /\ multicastgroups # {} /\ multicastgroups' = {}
  /\ member' = [s \in Descriptor |->
                  IF s \in {rtpsock, rtcpsock}
                  THEN member[s] \ multicastgroups ELSE member[s]]
  /\ MulticastUnchanged

-----------------------------------------------------------------------------

UDPNext ==
  \/ Create \/ AutoFirst \/ AutoSecond \/ AutoFail \/ CloseSetAside
  \/ BaseSockets \/ BaseFail \/ OptionsFail \/ CreateDone \/ Destroy
  \/ \E g \in Group : JoinMulticastGroup(g) \/ JoinFails(g)
                        \/ LeaveMulticastGroup(g)
  \/ LeaveAllMulticastGroups

UDPSpec == UDPInit /\ [][UDPNext]_udpvars

-----------------------------------------------------------------------------

(* Whatever step of Create fails, and however many attempts were made,     *)
(* no socket of the transmitter's own stays open without it, none is       *)
(* closed twice (its number may be another file's by then), and the        *)
(* application's sockets stay open.                                        *)
NoSocketLost ==
  /\ given \subseteq open /\ ~misclosed
  /\ stage = "none" => open = given
  /\ created => open = given \cup {rtpsock, rtcpsock}

(* By it the session tells its own packets, which multicasting may bring   *)
(* back, from those of a source that has the same SSRC.                    *)
ComesFromThisTransmitter(ip, port) ==
  created /\ ip \in localIPs /\ port \in {rtpport, rtcpport}

(* The ports that the transmitter tells, and by which it knows its own     *)
(* packets, are those of its sockets; chosen by the system they are a      *)
(* pair of an even port and the next one.                                  *)
PortsPaired ==
  created =>
    /\ bound[rtpsock] = rtpport /\ bound[rtcpsock] = rtcpport
    /\ \A ip \in localIPs, s \in {rtpsock, rtcpsock} :
         ComesFromThisTransmitter(ip, bound[s])
    /\ ~params.existing /\ ~params.odd => rtpport % 2 = 0
    /\ ~params.existing /\ ~params.mux /\ params.base = 0 =>
         rtpport % 2 = 0 /\ rtcpport = rtpport + 1

(* Both sockets are members of exactly the groups in the list, after calls *)
(* that failed halfway too; sockets of the application may have brought    *)
(* memberships with them.                                                  *)
MembershipsMatch ==
  created => \A s \in {rtpsock, rtcpsock} :
               /\ multicastgroups \subseteq member[s]
               /\ s \notin given => member[s] = multicastgroups
=============================================================================
