------------------------ MODULE ReceiverDestinations ------------------------
(***************************************************************************)
(* CRTPReceiver answers whoever it hears: the callbacks of the             *)
(* participant table keep the list of destinations (processSourceData).    *)
(* Sources have their SSRC and learn the addresses of their RTP and RTCP   *)
(* packets in any order; destinations are addresses for RTP alone.         *)
(***************************************************************************)
EXTENDS Integers

CONSTANTS Source, NoPlace,
  Place,        \* addresses packets come from: [host, port]
  Ports         \* how many ports there are: 2^16 in the code

ASSUME PlaceAssumption == NoPlace \notin Place

VARIABLES
  present,      \* sources in the table
  rtpaddr, rtcpaddr,  \* their addresses, as far as they are known
  left,         \* those that have said BYE
  dests,
  servedat,     \* history: what was added for a source when it was announced
  undercut,     \* history: sources whose destination another took away
  stale         \* history: destinations from an RTCP port, of a source that
                \* then sent RTP from another port

destvars == <<present, rtpaddr, rtcpaddr, left, dests, servedat, undercut, stale>>

DestInit ==
  /\ present = {} /\ left = {} /\ dests = {}
  /\ rtpaddr = [s \in Source |-> NoPlace] /\ rtcpaddr = [s \in Source |-> NoPlace]
  /\ servedat = [s \in Source |-> NoPlace] /\ undercut = {} /\ stale = {}

(* The address of RTP, or the one below that of RTCP, in 16 bits.          *)
PortBelow(a) == [a EXCEPT !.port = (@ + Ports - 1) % Ports]

DestinationOf(rtp, rtcp) ==
  IF rtp # NoPlace THEN rtp
  ELSE IF rtcp # NoPlace THEN PortBelow(rtcp) ELSE NoPlace

place(s) == DestinationOf(rtpaddr[s], rtcpaddr[s])
SourcesAt(a) == {s \in present : place(s) = a}

-----------------------------------------------------------------------------
(* A source is announced with what its first packet told: one address, or  *)
(* none if it only contributed.  A destination that is there is not added  *)
(* again.                                                                  *)
OnNewSource(s, rtp, rtcp) ==
  /\ s \notin present /\ present' = present \cup {s}
  /\ rtp = NoPlace \/ rtcp = NoPlace
  /\ rtpaddr' = [rtpaddr EXCEPT ![s] = rtp] /\ rtcpaddr' = [rtcpaddr EXCEPT ![s] = rtcp]
  /\ LET d == DestinationOf(rtp, rtcp)
     IN  /\ dests' = dests \cup ({d} \ {NoPlace})
         /\ servedat' = [servedat EXCEPT ![s] = d]
         /\ undercut' = {t \in undercut \ {s} : servedat[t] # d}
  /\ UNCHANGED <<left, stale>>

(* The other address is learnt later, from the same host, or both are of a *)
(* contributing source: no callback tells of that.                         *)
HeardRTP(s, a) ==
  /\ s \in present /\ rtpaddr[s] = NoPlace
  /\ rtcpaddr[s] # NoPlace => rtcpaddr[s].host = a.host
  /\ rtpaddr' = [rtpaddr EXCEPT ![s] = a]
  /\ stale' = stale \cup ((dests \cap {servedat[s]}) \ {a})
  /\ UNCHANGED <<present, rtcpaddr, left, dests, servedat, undercut>>

HeardRTCP(s, a) ==
  /\ s \in present /\ rtcpaddr[s] = NoPlace
  /\ rtpaddr[s] # NoPlace => rtpaddr[s].host = a.host
  /\ rtcpaddr' = [rtcpaddr EXCEPT ![s] = a]
  /\ UNCHANGED <<present, rtpaddr, left, dests, servedat, undercut, stale>>

DeleteDestinationUnlessShared(s) ==
  IF SourcesAt(place(s)) \subseteq {s}
  THEN /\ dests' = dests \ {place(s)} /\ stale' = stale \ {place(s)}
       /\ undercut' = undercut \cup {t \in present : servedat[t] = place(s)}
  ELSE UNCHANGED <<dests, stale, undercut>>

(* The destination goes, whoever else is served there.                     *)
DeleteDestination(s) ==
  /\ dests' = dests \ {place(s)} /\ stale' = stale \ {place(s)}
  /\ undercut' = undercut \cup {t \in present : servedat[t] = place(s)}

OnBYEPacket(s) ==
  /\ s \in present /\ left' = left \cup {s}
  /\ DeleteDestination(s)
  /\ UNCHANGED <<present, rtpaddr, rtcpaddr, servedat>>

OnRemoveSource(s) ==
  /\ s \in present /\ DeleteDestination(s)
  /\ present' = present \ {s} /\ left' = left \ {s}
  /\ rtpaddr' = [rtpaddr EXCEPT ![s] = NoPlace] /\ rtcpaddr' = [rtcpaddr EXCEPT ![s] = NoPlace]
  /\ servedat' = [servedat EXCEPT ![s] = NoPlace]

DestNext ==
  \E s \in Source :
    \/ OnNewSource(s, NoPlace, NoPlace) \/ OnBYEPacket(s) \/ OnRemoveSource(s)
    \/ \E a \in Place :
         \/ OnNewSource(s, a, NoPlace) \/ OnNewSource(s, NoPlace, a)
         \/ HeardRTP(s, a) \/ HeardRTCP(s, a)

DestSpec == DestInit /\ [][DestNext]_destvars

-----------------------------------------------------------------------------

DestTypeOK ==
  /\ present \subseteq Source /\ left \subseteq present
  /\ rtpaddr \in [Source -> Place \cup {NoPlace}]
  /\ rtcpaddr \in [Source -> Place \cup {NoPlace}]
  /\ \A a \in dests : a.port \in 0 .. Ports - 1

(* Media goes to nobody who has left: each destination has a source there  *)
(* that has not said BYE, whatever SSRCs come and go at one address.  The  *)
(* code breaks this in one case: the destination came from an RTCP port,   *)
(* and the source then sent RTP from another port than the one below.      *)
NoneAfterBYE ==
  \A a \in dests \ stale : SourcesAt(a) \ left # {}

(* A source that was announced with an address is served there until it,   *)
(* or whoever has this address, leaves; and it is served again only when   *)
(* another source is announced with the same address.                      *)
AnnouncedServed ==
  \A s \in present : servedat[s] # NoPlace => (servedat[s] \in dests <=> s \notin undercut)

DestinationsSound == NoneAfterBYE /\ AnnouncedServed
=============================================================================
