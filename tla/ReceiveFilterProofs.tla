------------------------ MODULE ReceiveFilterProofs ------------------------
(***************************************************************************)
(* The receive filter does what its calls asked for, for any addresses and *)
(* ports and any sequence of calls, whatever forms the entries take.       *)
(***************************************************************************)
EXTENDS ReceiveFilter, TLAPS

(* An entry for all ports is there exactly for the IP addresses that were  *)
(* added as a whole; only of those has anything been taken out, and all    *)
(* their ports but these are wanted; and what is in the list is what was   *)
(* asked for and not taken out, in both forms of an entry.                 *)
Whole(ip) == ip \in Listed /\ acceptignoreinfo[ip].all

EntriesMatch ==
  \A ip \in IP :
    /\ <<ip, 0>> \in want <=> Whole(ip)
    /\ \A port \in Port :
         /\ <<ip, port>> \in without => Whole(ip)
         /\ Whole(ip) => <<ip, port>> \in want \cup without
         /\ InList(ip, port) <=> <<ip, port>> \in want \ without

FilterInv == FilterTypeOK /\ EntriesMatch

(* A list without entries names nobody.                                    *)
LEMMA EmptyList ==
  ASSUME acceptignoreinfo = <<>>
  PROVE  Listed = {} /\ \A ip, port : ~InList(ip, port) /\ ~Whole(ip)
BY DEF Listed, InList, Whole

LEMMA FilterInitInv == FilterInit => FilterInv
BY EmptyList DEF FilterInit, FilterInv, FilterTypeOK, ReceiveMode, EntriesMatch

-----------------------------------------------------------------------------
(* What an entry that is written says of each address.                     *)

Names(info, port) ==
  IF info.all THEN port \notin info.portlist ELSE port \in info.portlist

LEMMA NewEntry ==
  ASSUME NEW S \in SUBSET Port, NEW f \in BOOLEAN
  PROVE  [all |-> f, portlist |-> S] \in PortInfo
BY DEF PortInfo

LEMMA AllBut ==
  ASSUME NEW S, NEW p, NEW info, info = [all |-> TRUE, portlist |-> S]
  PROVE  Names(info, p) <=> p \notin S
BY DEF Names

LEMMA OnlyThose ==
  ASSUME NEW S, NEW p, NEW info, info = [all |-> FALSE, portlist |-> S]
  PROVE  Names(info, p) <=> p \in S
BY DEF Names

LEMMA Fields ==
  ASSUME NEW e \in PortInfo
  PROVE  e.all \in BOOLEAN /\ e.portlist \in SUBSET Port
BY DEF PortInfo

LEMMA EntryWritten ==
  ASSUME NEW ip, NEW info \in PortInfo, SetEntry(ip, info)
  PROVE  /\ Listed' = Listed \cup {ip}
         /\ \A port : InList(ip, port)' <=> Names(info, port)
         /\ \A i, port : i # ip => (InList(i, port)' <=> InList(i, port))
         /\ Whole(ip)' <=> info.all
         /\ \A i : i # ip => (Whole(i)' <=> Whole(i))
<1>1. /\ Listed' = Listed \cup {ip} /\ acceptignoreinfo'[ip] = info
      /\ \A i \in Listed : i # ip => acceptignoreinfo'[i] = acceptignoreinfo[i]
  BY DEF SetEntry, Listed
<1>2. ASSUME NEW port PROVE InList(ip, port)' <=> Names(info, port)
  BY <1>1, Fields DEF InList, Names
<1>3. ASSUME NEW i, NEW port, i # ip PROVE InList(i, port)' <=> InList(i, port)
  BY <1>1, <1>3 DEF InList
<1>4. Whole(ip)' <=> info.all
  BY <1>1, Fields DEF Whole
<1>5. ASSUME NEW i, i # ip PROVE Whole(i)' <=> Whole(i)
  BY <1>1, <1>5 DEF Whole
<1>6. QED
  BY <1>1, <1>2, <1>3, <1>4, <1>5

(* Adding: the others are as they were, and a port is not added to those  *)
(* an entry for all names already, or that it leaves out.                  *)
LEMMA AddIsExact ==
  ASSUME FilterAssumption, FilterTypeOK,
         NEW ip \in IP, NEW port \in Port \cup {0},
         ProcessAddAcceptIgnoreEntry(ip, port)
  PROVE  /\ FilterTypeOK'
         /\ \A i, p : i # ip => (InList(i, p)' <=> InList(i, p))
         /\ \A i : i # ip => (Whole(i)' <=> Whole(i))
         /\ Whole(ip)' <=> port = 0 \/ Whole(ip)
         /\ \A p \in Port :
              InList(ip, p)' <=>
                port = 0 \/ InList(ip, p) \/ (p = port /\ ~Whole(ip))
<1> DEFINE info == EntryAfterAdd(ip, port)
<1> DEFINE old == IF ip \in Listed THEN acceptignoreinfo[ip]
                                  ELSE [all |-> FALSE, portlist |-> {}]
<1>0. /\ old \in PortInfo /\ \A p : InList(ip, p) <=> Names(old, p)
      /\ Whole(ip) <=> old.all
  BY DEF FilterTypeOK, PortInfo, InList, Names, Whole
<1>a. info = CASE port = 0 -> [all |-> TRUE, portlist |-> {}]
               [] port # 0 /\ old.all -> old
               [] OTHER -> [old EXCEPT !.portlist = @ \cup {port}]
  BY DEF EntryAfterAdd
<1>b. /\ port = 0 => info = [all |-> TRUE, portlist |-> {}]
      /\ port # 0 /\ old.all => info = old
      /\ port # 0 /\ ~old.all =>
           info = [all |-> FALSE, portlist |-> old.portlist \cup {port}]
  <2> HIDE DEF info, old
  <2> QED BY <1>0, <1>a DEF PortInfo
<1> HIDE DEF old
<1> HIDE DEF info
<1>d. old.all \in BOOLEAN /\ old.portlist \in SUBSET Port
  BY <1>0, Fields
<1>1. info \in PortInfo
  <2>1. CASE port = 0
    BY <1>b, <2>1, NewEntry
  <2>2. CASE port # 0 /\ old.all
    BY <1>0, <1>b, <2>2
  <2>3. CASE port # 0 /\ ~old.all
    <3>1. old.portlist \cup {port} \in SUBSET Port
      BY <1>d, <2>3
    <3>2. QED
      BY <1>b, <2>3, <3>1, NewEntry
  <2>4. QED
    BY <2>1, <2>2, <2>3
<1>2. ASSUME NEW p \in Port
      PROVE  Names(info, p) <=> port = 0 \/ InList(ip, p) \/ (p = port /\ ~Whole(ip))
  <2>1. CASE port = 0
    BY <1>b, <2>1, AllBut
  <2>2. CASE port # 0 /\ old.all
    BY <1>0, <1>b, <2>2
  <2>3. CASE port # 0 /\ ~old.all
    <3>1. Names(info, p) <=> p \in old.portlist \cup {port}
      BY <1>b, <2>3, OnlyThose
    <3>2. Names(old, p) <=> p \in old.portlist
      BY <2>3 DEF Names
    <3>3. QED
      BY <1>0, <2>3, <3>1, <3>2
  <2>4. QED
    BY <2>1, <2>2, <2>3
<1>3. info.all <=> port = 0 \/ Whole(ip)
  BY <1>0, <1>b
<1>4. SetEntry(ip, info)
  BY DEF ProcessAddAcceptIgnoreEntry, info
<1>5. FilterTypeOK'
  <2>1. acceptignoreinfo'[ip] = info
        /\ \A i \in Listed : i # ip => acceptignoreinfo'[i] = acceptignoreinfo[i]
    BY <1>4 DEF SetEntry, Listed
  <2>2. AddressesOf(ip, port) \subseteq IP \X (Port \cup {0})
    BY DEF AddressesOf
  <2>3. Listed' = Listed \cup {ip}
    BY <1>1, <1>4, EntryWritten
  <2>4. want' \subseteq IP \X (Port \cup {0}) /\ without' \subseteq IP \X Port
    BY <2>2 DEF ProcessAddAcceptIgnoreEntry, FilterTypeOK
  <2>5. receivemode' \in ReceiveMode
    BY DEF ProcessAddAcceptIgnoreEntry, FilterTypeOK
  <2>6. QED
    BY <1>1, <2>1, <2>3, <2>4, <2>5 DEF FilterTypeOK
<1>6. QED
  BY <1>1, <1>2, <1>3, <1>4, <1>5, EntryWritten

(* Deleting: the addresses of the call are not in the list, the others are *)
(* as they were.                                                           *)
LEMMA DeleteIsExact ==
  ASSUME FilterAssumption, FilterTypeOK,
         NEW ip \in IP, NEW port \in Port \cup {0},
         ProcessDeleteAcceptIgnoreEntry(ip, port)
  PROVE  /\ FilterTypeOK'
         /\ \A i, p : i # ip => (InList(i, p)' <=> InList(i, p))
         /\ \A i : i # ip => (Whole(i)' <=> Whole(i))
         /\ Whole(ip)' <=> port # 0 /\ Whole(ip)
         /\ \A p \in Port :
              InList(ip, p)' <=> InList(ip, p) /\ port \notin {0, p}
<1> DEFINE info == EntryAfterDelete(ip, port)
<1>0. /\ ip \in Listed
      /\ port = 0 \/ (port \in acceptignoreinfo[ip].portlist)
                        # acceptignoreinfo[ip].all
  BY DEF ProcessDeleteAcceptIgnoreEntry
<1> DEFINE old == acceptignoreinfo[ip]
<1>a. /\ old \in PortInfo
      /\ \A p : InList(ip, p) <=> Names(old, p)
      /\ Whole(ip) <=> old.all
  <2>1. old \in PortInfo
    BY <1>0 DEF FilterTypeOK
  <2>2. QED
    BY <1>0, <2>1, Fields DEF InList, Names, Whole
<1>b. info = CASE port = 0 -> [all |-> FALSE, portlist |-> {}]
               [] port # 0 /\ old.all -> [old EXCEPT !.portlist = @ \cup {port}]
               [] OTHER -> [old EXCEPT !.portlist = @ \ {port}]
  BY DEF EntryAfterDelete
<1>c. /\ port = 0 => info = [all |-> FALSE, portlist |-> {}]
      /\ port # 0 /\ old.all =>
           info = [all |-> TRUE, portlist |-> old.portlist \cup {port}]
      /\ port # 0 /\ ~old.all =>
           info = [all |-> FALSE, portlist |-> old.portlist \ {port}]
  <2> HIDE DEF info, old
  <2> QED BY <1>a, <1>b DEF PortInfo
<1> HIDE DEF old
<1> HIDE DEF info
<1>d. old.all \in BOOLEAN /\ old.portlist \in SUBSET Port
  BY <1>a, Fields
<1>1. info \in PortInfo
  <2>1. CASE port = 0
    BY <1>c, <2>1, NewEntry
  <2>2. CASE port # 0 /\ old.all
    <3>1. old.portlist \cup {port} \in SUBSET Port
      BY <1>d, <2>2
    <3>2. QED
      BY <1>c, <2>2, <3>1, NewEntry
  <2>3. CASE port # 0 /\ ~old.all
    <3>1. old.portlist \ {port} \in SUBSET Port
      BY <1>d
    <3>2. QED
      BY <1>c, <2>3, <3>1, NewEntry
  <2>4. QED
    BY <2>1, <2>2, <2>3
<1>2. ASSUME NEW p \in Port
      PROVE  Names(info, p) <=> InList(ip, p) /\ port \notin {0, p}
  <2>1. CASE port = 0
    BY <1>c, <2>1, OnlyThose
  <2>2. CASE port # 0 /\ old.all
    <3>1. Names(info, p) <=> p \notin old.portlist \cup {port}
      BY <1>c, <2>2, AllBut
    <3>2. Names(old, p) <=> p \notin old.portlist
      BY <2>2 DEF Names
    <3>3. QED
      BY <1>a, <2>2, <3>1, <3>2
  <2>3. CASE port # 0 /\ ~old.all
    <3>1. Names(info, p) <=> p \in old.portlist \ {port}
      BY <1>c, <2>3, OnlyThose
    <3>2. Names(old, p) <=> p \in old.portlist
      BY <2>3 DEF Names
    <3>3. QED
      BY <1>a, <2>3, <3>1, <3>2
  <2>4. QED
    BY <2>1, <2>2, <2>3
<1>3. info.all <=> port # 0 /\ Whole(ip)
  BY <1>a, <1>c
<1>4. SetEntry(ip, info)
  BY DEF ProcessDeleteAcceptIgnoreEntry, info
<1>5. FilterTypeOK'
  <2>1. acceptignoreinfo'[ip] = info
        /\ \A i \in Listed : i # ip => acceptignoreinfo'[i] = acceptignoreinfo[i]
    BY <1>4 DEF SetEntry, Listed
  <2>2. Listed' = Listed \cup {ip}
    BY <1>1, <1>4, EntryWritten
  <2>3. /\ want' \subseteq want
        /\ port = 0 => without' \subseteq without
        /\ port # 0 => without' \in {without, without \cup {<<ip, port>>}}
    BY DEF ProcessDeleteAcceptIgnoreEntry
  <2>4. want' \subseteq IP \X (Port \cup {0}) /\ without' \subseteq IP \X Port
    BY <2>3 DEF FilterTypeOK
  <2>5. receivemode' \in ReceiveMode
    BY DEF ProcessDeleteAcceptIgnoreEntry, FilterTypeOK
  <2>6. QED
    BY <1>1, <2>1, <2>2, <2>4, <2>5 DEF FilterTypeOK
<1>6. QED
  BY <1>1, <1>2, <1>3, <1>4, <1>5, EntryWritten

-----------------------------------------------------------------------------

LEMMA AddKeeps ==
  ASSUME FilterAssumption, FilterInv, NEW ip \in IP, NEW port \in Port \cup {0},
         ProcessAddAcceptIgnoreEntry(ip, port)
  PROVE  FilterInv' /\ CallIsLocal
<1>1. /\ want' = want \cup AddressesOf(ip, port)
      /\ without' = IF port = 0 THEN without \ AddressesOf(ip, 0) ELSE without
  BY DEF ProcessAddAcceptIgnoreEntry
<1>2. \A i \in IP, p \in Port \cup {0} :
        <<i, p>> \in AddressesOf(ip, port) <=> i = ip /\ (port = 0 \/ p = port)
  BY DEF AddressesOf
<1>3. \A p \in Port \cup {0} : <<ip, p>> \in AddressesOf(ip, 0)
  BY DEF AddressesOf
<1>4. \A i \in IP, p \in Port : i # ip => <<i, p>> \notin AddressesOf(ip, 0)
  BY DEF AddressesOf
<1>5. EntriesMatch'
  <2> SUFFICES ASSUME NEW i \in IP
               PROVE  /\ <<i, 0>> \in want' <=> Whole(i)'
                      /\ \A p \in Port :
                           /\ <<i, p>> \in without' => Whole(i)'
                           /\ Whole(i)' => <<i, p>> \in want' \cup without'
                           /\ InList(i, p)' <=> <<i, p>> \in want' \ without'
    BY DEF EntriesMatch
  <2>1. CASE i # ip
    BY <1>1, <1>2, <1>4, <2>1, AddIsExact DEF FilterInv, EntriesMatch
  <2>2. CASE i = ip /\ port = 0
    BY <1>1, <1>2, <1>3, <2>2, AddIsExact DEF FilterInv, EntriesMatch
  <2>3. CASE i = ip /\ port # 0
    BY <1>1, <1>2, <2>3, AddIsExact DEF FilterInv, EntriesMatch
  <2>4. QED
    BY <2>1, <2>2, <2>3
<1>6. ASSUME NEW i \in IP, NEW p \in Port, InList(i, p)' # InList(i, p)
      PROVE  InList(i, p)' = (<<i, p>> \in want')
  <2>1. InList(i, p) \in BOOLEAN /\ InList(i, p)' \in BOOLEAN
    BY DEF InList
  <2>2. i = ip /\ (port = 0 \/ p = port) /\ InList(i, p)'
    BY <1>6, <2>1, AddIsExact DEF FilterInv
  <2>3. QED
    BY <1>1, <1>2, <2>1, <2>2
<1>7. CallIsLocal
  BY <1>6 DEF CallIsLocal
<1>8. QED
  BY <1>5, <1>7, AddIsExact DEF FilterInv

LEMMA DeleteKeeps ==
  ASSUME FilterAssumption, FilterInv, NEW ip \in IP, NEW port \in Port \cup {0},
         ProcessDeleteAcceptIgnoreEntry(ip, port)
  PROVE  FilterInv' /\ CallIsLocal
<1>1. /\ want' = want \ AddressesOf(ip, port)
      /\ port = 0 => without' = without \ AddressesOf(ip, 0)
      /\ port # 0 /\ <<ip, 0>> \in want => without' = without \cup {<<ip, port>>}
      /\ port # 0 /\ <<ip, 0>> \notin want => without' = without
  BY DEF ProcessDeleteAcceptIgnoreEntry
<1>2. \A i \in IP, p \in Port \cup {0} :
        <<i, p>> \in AddressesOf(ip, port) <=> i = ip /\ (port = 0 \/ p = port)
  BY DEF AddressesOf
<1>3. \A p \in Port \cup {0} : <<ip, p>> \in AddressesOf(ip, 0)
  BY DEF AddressesOf
<1>4. \A i \in IP, p \in Port : i # ip => <<i, p>> \notin AddressesOf(ip, 0)
  BY DEF AddressesOf
<1>5. EntriesMatch'
  <2> SUFFICES ASSUME NEW i \in IP
               PROVE  /\ <<i, 0>> \in want' <=> Whole(i)'
                      /\ \A p \in Port :
                           /\ <<i, p>> \in without' => Whole(i)'
                           /\ Whole(i)' => <<i, p>> \in want' \cup without'
                           /\ InList(i, p)' <=> <<i, p>> \in want' \ without'
    BY DEF EntriesMatch
  <2>1. CASE i # ip
    BY <1>1, <1>2, <1>4, <2>1, DeleteIsExact DEF FilterInv, EntriesMatch
  <2>2. CASE i = ip /\ port = 0
    BY <1>1, <1>2, <1>3, <2>2, DeleteIsExact DEF FilterInv, EntriesMatch
  <2>3. CASE i = ip /\ port # 0
    BY <1>1, <1>2, <2>3, DeleteIsExact, FilterAssumption DEF FilterInv, EntriesMatch, FilterAssumption
  <2>4. QED
    BY <2>1, <2>2, <2>3
<1>6. ASSUME NEW i \in IP, NEW p \in Port, InList(i, p)' # InList(i, p)
      PROVE  InList(i, p)' = (<<i, p>> \in want')
  <2>1. InList(i, p) \in BOOLEAN /\ InList(i, p)' \in BOOLEAN
    BY DEF InList
  <2>2. i = ip /\ (port = 0 \/ p = port) /\ ~InList(i, p)'
    BY <1>6, <2>1, DeleteIsExact DEF FilterInv
  <2>3. QED
    BY <1>1, <1>2, <2>1, <2>2
<1>7. CallIsLocal
  BY <1>6 DEF CallIsLocal
<1>8. QED
  BY <1>5, <1>7, DeleteIsExact DEF FilterInv

LEMMA FilterStep ==
  ASSUME FilterAssumption, FilterInv, [FilterNext]_filtervars
  PROVE  FilterInv' /\ CallIsLocal
<1>1. ASSUME ClearAcceptIgnoreInfo, receivemode' \in ReceiveMode
      PROVE  FilterInv' /\ CallIsLocal
  BY <1>1, EmptyList DEF ClearAcceptIgnoreInfo, FilterInv, FilterTypeOK,
       EntriesMatch, CallIsLocal, Listed, InList, Whole
<1>2. ASSUME NEW m \in ReceiveMode, SetReceiveMode(m)
      PROVE  FilterInv' /\ CallIsLocal
  BY <1>1, <1>2 DEF SetReceiveMode
<1>3. CASE ClearList
  BY <1>1, <1>3 DEF ClearList, FilterInv, FilterTypeOK
<1>4. CASE UNCHANGED filtervars
  BY <1>4 DEF filtervars, FilterInv, FilterTypeOK, EntriesMatch, CallIsLocal, Listed,
              InList, Whole
<1>5. QED
  BY <1>2, <1>3, <1>4, AddKeeps, DeleteKeeps
     DEF FilterNext, AddToAcceptList, DeleteFromAcceptList, AddToIgnoreList,
         DeleteFromIgnoreList

LEMMA InvListExact == FilterInv => ListExact
<1> SUFFICES ASSUME FilterInv, NEW ip \in IP, NEW port \in Port
             PROVE  AcceptData(ip, port) =
                      (receivemode = "AcceptAll" \/
                        (<<ip, port>> \in want \ without) = (receivemode = "AcceptSome"))
  BY DEF ListExact
<1>1. (InList(ip, port) <=> <<ip, port>> \in want \ without) /\ InList(ip, port) \in BOOLEAN
  BY DEF FilterInv, EntriesMatch, InList
<1>2. QED
  BY <1>1 DEF AcceptData, ShouldAcceptData

(* An address is in force exactly when it was asked for, unless it was     *)
(* taken out of an IP address that was added as a whole, and no call       *)
(* admits or shuts out another as a side effect.                           *)
THEOREM FilterIsExact == FilterSpec => FilterExact
<1>1. FilterInv /\ [FilterNext]_filtervars
        => FilterInv' /\ [CallIsLocal /\ ListExact']_filtervars
  BY FilterAssumption, FilterStep, InvListExact, PTL
<1>2. QED
  BY <1>1, FilterInitInv, PTL DEF FilterSpec, FilterExact
=============================================================================
