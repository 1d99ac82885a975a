---------------------------- MODULE ReceiveFilter ----------------------------
(***************************************************************************)
(* Receive mode, accept list and ignore list of RTPUDPv4Transmitter.  The  *)
(* list keeps, per IP address, a set of ports and a flag that turns it     *)
(* into the set of the ports left out.  Every call is one section under    *)
(* MAINMUTEX.                                                              *)
(***************************************************************************)
EXTENDS Naturals, FiniteSets

CONSTANTS
  IP, Port   \* port 0 stands for all ports in a call, none sends from it

ASSUME FilterAssumption == 0 \notin Port

VARIABLES
  receivemode,       \* accept all, some, or all but some
  acceptignoreinfo,  \* the entries, each with all and portlist
  want,              \* history: what the application asked for, with port 0
                     \* for an IP address added with all its ports
  without            \* history: what it took out of such an IP address since

filtervars == <<receivemode, acceptignoreinfo, want, without>>

ReceiveMode == {"AcceptAll", "AcceptSome", "IgnoreSome"}
PortInfo == [all : BOOLEAN, portlist : SUBSET Port]
Listed == DOMAIN acceptignoreinfo

FilterTypeOK ==
  /\ receivemode \in ReceiveMode
  /\ Listed \subseteq IP
  /\ \A ip \in Listed : acceptignoreinfo[ip] \in PortInfo
  /\ want \subseteq IP \X (Port \cup {0}) /\ without \subseteq IP \X Port

FilterInit ==
  receivemode = "AcceptAll" /\ acceptignoreinfo = <<>> /\ want = {} /\ without = {}

AddressesOf(ip, port) == {ip} \X (IF port = 0 THEN Port \cup {0} ELSE {port})

(* An entry once made stays, empty or not, until the list is cleared.      *)
SetEntry(ip, info) ==
  acceptignoreinfo' = [i \in Listed \cup {ip} |->
                         IF i = ip THEN info ELSE acceptignoreinfo[i]]

-----------------------------------------------------------------------------

EntryAfterAddPlain(ip, port) ==
  LET old == IF ip \in Listed THEN acceptignoreinfo[ip]
                              ELSE [all |-> FALSE, portlist |-> {}]
  IN  [old EXCEPT !.portlist = @ \cup {port}]

EntryAfterAddWithoutClearing(ip, port) ==
  LET old == IF ip \in Listed THEN acceptignoreinfo[ip]
                              ELSE [all |-> FALSE, portlist |-> {}]
  IN  CASE port = 0 -> [old EXCEPT !.all = TRUE]
        [] port # 0 /\ old.all -> old
        [] OTHER -> [old EXCEPT !.portlist = @ \cup {port}]

EntryAfterAdd(ip, port) ==
  LET old == IF ip \in Listed THEN acceptignoreinfo[ip]
                              ELSE [all |-> FALSE, portlist |-> {}]
  IN  CASE port = 0 -> [all |-> TRUE, portlist |-> {}]
        [] port # 0 /\ old.all -> old
        [] OTHER -> [old EXCEPT !.portlist = @ \cup {port}]

ProcessAddAcceptIgnoreEntry(ip, port) ==
  /\ SetEntry(ip, EntryAfterAdd(ip, port))
  /\ want' = want \cup AddressesOf(ip, port)
  /\ without' = IF port = 0 THEN without \ AddressesOf(ip, 0) ELSE without
  /\ UNCHANGED receivemode

EntryAfterDelete(ip, port) ==
  LET old == acceptignoreinfo[ip]
  IN  CASE port = 0 -> [all |-> FALSE, portlist |-> {}]
        [] port # 0 /\ old.all -> [old EXCEPT !.portlist = @ \cup {port}]
        [] OTHER -> [old EXCEPT !.portlist = @ \ {port}]

(* For one port the call fails if it is not in the list.                   *)
ProcessDeleteAcceptIgnoreEntry(ip, port) ==
  /\ ip \in Listed
  /\ port = 0 \/ (port \in acceptignoreinfo[ip].portlist)
                   # acceptignoreinfo[ip].all
  /\ SetEntry(ip, EntryAfterDelete(ip, port))
  /\ want' = want \ AddressesOf(ip, port)
  /\ without' = CASE port = 0 -> without \ AddressesOf(ip, 0)
                  [] port # 0 /\ <<ip, 0>> \in want -> without \cup {<<ip, port>>}
                  [] OTHER -> without
  /\ UNCHANGED receivemode

AddToAcceptList(ip, port) ==
  receivemode = "AcceptSome" /\ ProcessAddAcceptIgnoreEntry(ip, port)
AddToIgnoreList(ip, port) ==
  receivemode = "IgnoreSome" /\ ProcessAddAcceptIgnoreEntry(ip, port)
DeleteFromAcceptList(ip, port) ==
  receivemode = "AcceptSome" /\ ProcessDeleteAcceptIgnoreEntry(ip, port)
DeleteFromIgnoreList(ip, port) ==
  receivemode = "IgnoreSome" /\ ProcessDeleteAcceptIgnoreEntry(ip, port)

ClearAcceptIgnoreInfo == acceptignoreinfo' = <<>> /\ want' = {} /\ without' = {}
ClearList ==
  /\ receivemode # "AcceptAll" /\ ClearAcceptIgnoreInfo
  /\ UNCHANGED receivemode

SetReceiveMode(m) ==
  m # receivemode /\ receivemode' = m /\ ClearAcceptIgnoreInfo

FilterNext ==
  \/ \E m \in ReceiveMode : SetReceiveMode(m)
  \/ ClearList
  \/ \E ip \in IP, port \in Port \cup {0} :
       \/ AddToAcceptList(ip, port) \/ DeleteFromAcceptList(ip, port)
       \/ AddToIgnoreList(ip, port) \/ DeleteFromIgnoreList(ip, port)

FilterSpec == FilterInit /\ [][FilterNext]_filtervars

-----------------------------------------------------------------------------

InList(ip, port) ==
  ip \in Listed /\ (port \in acceptignoreinfo[ip].portlist)
                     # acceptignoreinfo[ip].all

ShouldAcceptData(ip, port) ==
  IF receivemode = "AcceptSome" THEN InList(ip, port) ELSE ~InList(ip, port)

(* What PollSocket asks of a packet before it queues it.                   *)
AcceptData(ip, port) ==
  receivemode = "AcceptAll" \/ ShouldAcceptData(ip, port)

(* An address is in force exactly when the calls say so, though an entry   *)
(* turns from the list of its ports into that of its exceptions: it was    *)
(* added, alone or with its IP address, and not deleted since.  In one     *)
(* case the code differs: what was taken out of an IP address added as a   *)
(* whole stays out, also when it is added again and the call returns 0.    *)
ListExact ==
  \A ip \in IP, port \in Port :
    AcceptData(ip, port) =
      (receivemode = "AcceptAll" \/
         (<<ip, port>> \in want \ without) = (receivemode = "AcceptSome"))

(* A call changes what is in force for the addresses it names alone, and   *)
(* to what it asks for: none is admitted or shut out as a side effect,     *)
(* whatever form the entry is in.                                          *)
CallIsLocal ==
  receivemode' = receivemode =>
    \A a \in IP \X Port :
      InList(a[1], a[2])' # InList(a[1], a[2]) =>
        InList(a[1], a[2])' = (a \in want')

(* The receive filter lets in exactly what its calls asked for, but for    *)
(* additions without effect, and no call has side effects.                 *)
FilterExact == [][CallIsLocal /\ ListExact']_filtervars
=============================================================================
