----------------------------- MODULE UDPTraffic -----------------------------
(***************************************************************************)
(* What goes through the sockets of a created RTPUDPv4Transmitter: the     *)
(* destinations, datagrams in and out, the queue of raw packets, and the   *)
(* host name.  Each call is one section under MAINMUTEX.                   *)
(***************************************************************************)
EXTENDS Naturals, Sequences, FiniteSets

CONSTANTS
  Multiplex,   \* one socket for RTP and RTCP
  Address,     \* RTP addresses of destinations
  Datagram,    \* what may arrive: [id, empty, rtcp, accepted]
  MaxQueued,   \* bound on datagrams in a socket and packets in the queue
  HostName,    \* names the local addresses may resolve to
  MaxSize,     \* RTPUDPV4TRANS_MAXPACKSIZE
  MaxCopies    \* bound on the copies of a packet

ASSUME TrafficAssumption ==
  MaxSize \in Nat /\ MaxCopies \in Nat /\ "none" \notin HostName

VARIABLES
  destinations,   \* [addr, mux]: where RTCP goes follows from both
  maxpacksize,
  arrived,        \* datagrams that wait in each socket
  rawpacketlist,
  polling,        \* the socket PollSocket is at, or no
  pollstatus,     \* what the last Poll returned
  localhostname,  \* the name that is kept, or none
  told,           \* history: the names the application was told in this session
  copies,         \* how often a packet went to each address
  serving, owed,    \* history: the addresses asked for, and how often they were
                  \* when a packet was sent
  unpolled        \* history: datagrams that were there when Poll began, and are

listvars == <<destinations, maxpacksize, copies, serving, owed>>
namevars == <<localhostname, told>>
pollvars == <<polling, pollstatus, unpolled>>
queuevars == <<arrived, rawpacketlist, pollvars>>
trafficvars == <<listvars, namevars, queuevars>>

UDPSocket == IF Multiplex THEN {"rtp"} ELSE {"rtp", "rtcp"}

TrafficTypeOK ==
  /\ destinations \subseteq [addr : Address, mux : BOOLEAN]
  /\ maxpacksize \in 0 .. MaxSize
  /\ \A s \in UDPSocket : \A i \in DOMAIN arrived[s] : arrived[s][i] \in Datagram
  /\ \A i \in DOMAIN rawpacketlist :
       rawpacketlist[i] \in [id : {d.id : d \in Datagram}, isrtp : BOOLEAN]
  /\ polling \in UDPSocket \cup {"no"} /\ pollstatus \in {"ok", "error"}
  /\ localhostname \in HostName \cup {"none"} /\ told \subseteq HostName
  /\ copies \in [Address -> Nat]

NothingArrived == [s \in UDPSocket |-> <<>>]

TrafficInit ==
  /\ destinations = {} /\ maxpacksize = MaxSize
  /\ arrived = NothingArrived /\ rawpacketlist = <<>>
  /\ polling = "no" /\ pollstatus = "ok" /\ unpolled = [s \in UDPSocket |-> 0]
  /\ localhostname = "none" /\ told = {}
  /\ copies = [a \in Address |-> 0] /\ serving = {} /\ owed = [a \in Address |-> 0]

(* Poll holds MAINMUTEX from its first socket to its last one.             *)
Unlocked == polling = "no"

-----------------------------------------------------------------------------
(* Destinations are equal when their RTP addresses are, whatever their     *)
(* RTCP ports: the second one is refused.                                  *)

ListCall(wanted) ==
  /\ Unlocked /\ serving' = wanted
  /\ UNCHANGED <<maxpacksize, copies, owed, namevars, queuevars>>

UDPAddDestinationByBoth(a, mux) ==
  /\ destinations' = destinations \cup {[addr |-> a, mux |-> mux]}
  /\ ListCall(serving \cup {a})

UDPAddDestination(a, mux) ==
  /\ \A d \in destinations : d.addr # a
  /\ destinations' = destinations \cup {[addr |-> a, mux |-> mux]}
  /\ ListCall(serving \cup {a})

UDPDeleteDestination(a) ==
  /\ \E d \in destinations : d.addr = a
  /\ destinations' = {d \in destinations : d.addr # a}
  /\ ListCall(serving \ {a})

UDPClearDestinations == destinations' = {} /\ ListCall({})

UDPSetMaximumPacketSize(n) ==
  /\ Unlocked /\ maxpacksize' = n
  /\ UNCHANGED <<destinations, copies, serving, owed, namevars, queuevars>>

(* A packet of length n goes to every destination or to none; what sendto  *)
(* returns is not looked at.                                               *)
UDPSendData(n) ==
  /\ Unlocked /\ n <= maxpacksize
  /\ \A a \in Address : copies[a] < MaxCopies
  /\ copies' = [a \in Address |->
                copies[a] + Cardinality({d \in destinations : d.addr = a})]
  /\ owed' = [a \in Address |-> IF a \in serving THEN owed[a] + 1 ELSE owed[a]]
  /\ UNCHANGED <<destinations, maxpacksize, serving, namevars, queuevars>>

-----------------------------------------------------------------------------

DatagramArrives(s, d) ==
  /\ Len(arrived[s]) + Len(rawpacketlist) < MaxQueued
  /\ arrived' = [arrived EXCEPT ![s] = Append(@, d)]
  /\ UNCHANGED <<rawpacketlist, pollvars, listvars, namevars>>

(* A socket of its own says what a datagram is; on a shared one it is the  *)
(* packet type, and a datagram too short to have one counts as RTP.        *)
IsRTP(s, d) == IF Multiplex THEN ~d.rtcp ELSE s = "rtp"

Queued(s, d) ==
  IF ~d.empty /\ d.accepted THEN <<[id |-> d.id, isrtp |-> IsRTP(s, d)]>> ELSE <<>>

(* FIONREAD tells the length of the next datagram, and 0 for none.         *)
Length(s) == IF arrived[s] = <<>> \/ Head(arrived[s]).empty THEN 0 ELSE 1

(* A length of 0 is not believed before select was asked.                    *)
DataAvailableByLength(s) == Length(s) > 0
DataAvailable(s) == Length(s) > 0 \/ arrived[s] # <<>>

Poll ==
  /\ Unlocked /\ rawpacketlist = <<>> /\ polling' = "rtp"
  /\ unpolled' = [s \in UDPSocket |-> Len(arrived[s])]
  /\ UNCHANGED <<arrived, rawpacketlist, pollstatus, listvars, namevars>>

(* One round of PollSocket's loop: a datagram is taken.                    *)
PollTakes(s) ==
  /\ polling = s /\ DataAvailable(s)
  /\ arrived' = [arrived EXCEPT ![s] = Tail(@)]
  /\ rawpacketlist' = rawpacketlist \o Queued(s, Head(arrived[s]))
  /\ unpolled' = [unpolled EXCEPT ![s] = IF @ > 0 THEN @ - 1 ELSE 0]
  /\ UNCHANGED <<polling, pollstatus, listvars, namevars>>

(* Nothing is left: the RTCP socket comes after the other, if there is one.*)
PollEnds(s) ==
  /\ polling = s /\ ~DataAvailable(s) /\ pollstatus' = "ok"
  /\ polling' = IF s = "rtp" /\ ~Multiplex THEN "rtcp" ELSE "no"
  /\ UNCHANGED <<arrived, rawpacketlist, unpolled, listvars, namevars>>

(* The select fails: Poll returns its status, whatever is still there.     *)
PollFails(s) ==
  /\ polling = s /\ Length(s) = 0
  /\ polling' = "no" /\ pollstatus' = "error"
  /\ UNCHANGED <<arrived, rawpacketlist, unpolled, listvars, namevars>>

PollSocket(s) == PollTakes(s) \/ PollEnds(s) \/ PollFails(s)

UDPGetNextPacket ==
  /\ Unlocked /\ rawpacketlist # <<>> /\ rawpacketlist' = Tail(rawpacketlist)
  /\ UNCHANGED <<arrived, pollvars, listvars, namevars>>

UDPFlushPackets ==
  /\ Unlocked /\ rawpacketlist # <<>> /\ rawpacketlist' = <<>>
  /\ UNCHANGED <<arrived, pollvars, listvars, namevars>>

-----------------------------------------------------------------------------
(* The host name is looked up in the first call of a session, which may    *)
(* only have asked for its length, and kept.  An address is used if no     *)
(* name with a dot is found.                                               *)

GetLocalHostName ==
  /\ Unlocked
  /\ \E h \in HostName :
       /\ h = localhostname \/ localhostname = "none"
       /\ localhostname' = h
       /\ \E fits \in BOOLEAN : told' = IF fits THEN told \cup {h} ELSE told
  /\ UNCHANGED <<listvars, queuevars>>

(* Destroy and Create.                                                     *)
UDPRestart ==
  /\ Unlocked
  /\ destinations' = {} /\ serving' = {} /\ maxpacksize' \in 0 .. MaxSize
  /\ arrived' = NothingArrived /\ rawpacketlist' = <<>>
  /\ localhostname' = "none" /\ told' = {}
  /\ UNCHANGED <<pollvars, copies, owed>>

TrafficNext ==
  \/ \E a \in Address, mux \in BOOLEAN : UDPAddDestination(a, mux)
  \/ \E a \in Address : UDPDeleteDestination(a)
  \/ UDPClearDestinations
  \/ \E n \in 0 .. MaxSize : UDPSetMaximumPacketSize(n) \/ UDPSendData(n)
  \/ \E s \in UDPSocket, d \in Datagram : DatagramArrives(s, d)
  \/ Poll \/ (\E s \in UDPSocket : PollSocket(s))
  \/ UDPGetNextPacket \/ UDPFlushPackets \/ GetLocalHostName \/ UDPRestart

TrafficSpec == TrafficInit /\ [][TrafficNext]_trafficvars

-----------------------------------------------------------------------------

(* An address got each packet that was sent while it was asked for exactly *)
(* once, and no other, however often and in whatever form it was added.    *)
SentOnce == copies = owed

(* The CNAME of a session is built from one name, though the name service  *)
(* may answer differently from call to call.                               *)
OneHostName == Cardinality(told) <= 1

(* When Poll returns without an error, every datagram that was in a socket *)
(* when it began has been taken, though an empty one looks like none and   *)
(* more arrive meanwhile.                                                  *)
PollDrains == Unlocked /\ pollstatus = "ok" => \A s \in UDPSocket : unpolled[s] = 0

(* One datagram per destination and per call, and a poll that does not say *)
(* it failed leaves nothing behind.                                        *)
TrafficExact == SentOnce /\ PollDrains
=============================================================================
