------------------------------ MODULE Session ------------------------------
(***************************************************************************)
(* One RTP session (class RTPSession) at the level of its locks: the       *)
(* application's sending threads, the poll thread that runs                *)
(* ProcessPolledData, the change of SSRC after a collision, the queue of   *)
(* BYE packets and the end of the session.                                 *)
(*                                                                         *)
(* An action is a critical section of BUILDER_LOCK, SOURCES_LOCK or        *)
(* PACKSENT_LOCK.  BUILDER_LOCK and PACKSENT_LOCK are never held from one  *)
(* action to the next; the poll thread holds SOURCES_LOCK from GetPackets  *)
(* until it is back in "wait".                                             *)
(*                                                                         *)
(* An SSRC is the number of the draw that produced it: 1 for the first.    *)
(* CreateNewSSRC draws 32 random bits until the source table does not know *)
(* them, so the current one never repeats; that an older one comes back is *)
(* left out.                                                               *)
(***************************************************************************)
EXTENDS Integers, Sequences, Functions

CONSTANTS
  Thread,     \* application threads that send
  Poll,       \* the poll thread
  Addr,       \* addresses of hosts that may use our SSRC
  CollDelay,  \* the collision list's timeout
  MaxSSRC,    \* bound: how many SSRCs are drawn
  MaxBatch    \* bound: packets that one Poll finds

ASSUME SessionAssumption ==
  /\ Poll \notin Thread
  /\ CollDelay \in Nat
  /\ MaxSSRC \in Nat \ {0} /\ MaxBatch \in Nat \ {0}

VARIABLES
  ssrc,          \* the packet builder's SSRC
  own,           \* the SSRC of the source table's own entry
  ownsender,     \* the sender flag of that entry
  sentpackets,   \* "a packet was sent with this SSRC"
  byepackets,    \* the queue of BYE packets: the SSRC each one names
  byescheduled,  \* the scheduler runs the BYE backoff algorithm
  collisions,    \* the collision list: age of an address's entry, or Absent
  pc,            \* where each thread is
  carried,       \* the SSRC of the packet a thread is sending
  batch,         \* packets the poll thread has still to process
  hassent        \* the poll thread's copy of sentpackets

(* What an observer of the network and of the callers can tell.            *)
VARIABLES
  data,      \* SSRCs that were used in RTP packets on the wire
  reports,   \* SSRCs that were used in regular RTCP packets on the wire
  said,      \* SSRCs whose BYE is on the wire
  lost,      \* SSRCs whose BYE was dropped: send failed, or session over
  returned,  \* SSRCs with which some SendPacket call has run to its end
  owed,      \* those of them in use when a collision was dealt with
  heard      \* age of the last collision from an address

network == <<data, reports, said, lost>>
ghosts  == <<returned, owed, heard>>
leaving == <<byepackets, byescheduled>>
vars == <<ssrc, own, ownsender, sentpackets, leaving, collisions, pc, carried,
          batch, hassent, network, ghosts>>

SSRCs  == 1 .. MaxSSRC
Absent == -1
Ages   == 0 .. CollDelay + 1
Queued == Range(byepackets)

\* "dead": the poll thread ended with an error.  "leaving": BYEDestroy.
PollPlaces   == {"wait", "packets", "collided", "byebuilt", "newssrc", "dead",
                 "leaving", "closed"}
ThreadPlaces == {"idle", "sent", "counted"}

SSRCsOK ==
  /\ ssrc \in SSRCs /\ own \in SSRCs \cup {0}
  /\ carried \in [Thread -> SSRCs \cup {0}]
  /\ batch \in 0 .. MaxBatch
FlagsOK ==
  /\ ownsender \in BOOLEAN /\ sentpackets \in BOOLEAN
  /\ byescheduled \in BOOLEAN /\ hassent \in BOOLEAN
QueueOK == byepackets \in Seq(SSRCs)
ListOK ==
  /\ collisions \in [Addr -> Ages \cup {Absent}]
  /\ heard \in [Addr -> Ages]
PlacesOK ==
  /\ pc \in [Thread \cup {Poll} -> PollPlaces \cup ThreadPlaces]
  /\ pc[Poll] \in PollPlaces
  /\ \A t \in Thread : pc[t] \in ThreadPlaces
GhostsOK ==
  /\ data \subseteq SSRCs /\ reports \subseteq SSRCs
  /\ said \subseteq SSRCs /\ lost \subseteq SSRCs
  /\ returned \subseteq SSRCs /\ owed \subseteq SSRCs

TypeOK ==
  SSRCsOK /\ FlagsOK /\ QueueOK /\ ListOK /\ PlacesOK /\ GhostsOK

(* A session that Create has just set up.                                  *)
Init ==
  /\ ssrc = 1 /\ own = 1
  /\ ownsender = FALSE /\ sentpackets = FALSE
  /\ byepackets = <<>> /\ byescheduled = FALSE
  /\ collisions = [a \in Addr |-> Absent]
  /\ pc = [t \in Thread \cup {Poll} |-> IF t = Poll THEN "wait" ELSE "idle"]
  /\ carried = [t \in Thread |-> 0]
  /\ batch = 0 /\ hassent = FALSE
  /\ data = {} /\ reports = {} /\ said = {} /\ lost = {}
  /\ returned = {} /\ owed = {}
  /\ heard = [a \in Addr |-> CollDelay + 1]

At(t, place) == pc[t] = place
Go(t, place) == pc' = [pc EXCEPT ![t] = place]

Running     == pc[Poll] \notin {"leaving", "closed"}
SourcesFree == pc[Poll] \in {"wait", "dead"}

-----------------------------------------------------------------------------
(* SendPacket: three critical sections, one after the other.               *)

(* BUILDER_LOCK: the packet gets the current SSRC and is sent.  A failure  *)
(* to build or to send returns here and changes nothing.                   *)
BuildAndSend(t) ==
  /\ At(t, "idle") /\ Running
  /\ Go(t, "sent")
  /\ carried' = [carried EXCEPT ![t] = ssrc]
  /\ data' = data \cup {ssrc}
  /\ UNCHANGED <<ssrc, own, ownsender, sentpackets, leaving, collisions, batch,
                 hassent, reports, said, lost, ghosts>>

(* Mutant: SOURCES_LOCK is not taken.                                      *)
SentRTPPacketUnlocked(t) ==
  /\ At(t, "sent")
  /\ Go(t, "counted")
  /\ ownsender' = TRUE
  /\ UNCHANGED <<ssrc, own, sentpackets, leaving, collisions, carried, batch,
                 hassent, network, ghosts>>

(* SOURCES_LOCK: the own entry is marked as a sender.                      *)
SentRTPPacket(t) ==
  /\ At(t, "sent") /\ SourcesFree
  /\ Go(t, "counted")
  /\ ownsender' = TRUE
  /\ UNCHANGED <<ssrc, own, sentpackets, leaving, collisions, carried, batch,
                 hassent, network, ghosts>>

(* PACKSENT_LOCK: the flag is set and SendPacket returns.                  *)
MarkSent(t) ==
  /\ At(t, "counted")
  /\ Go(t, "idle")
  /\ sentpackets' = TRUE
  /\ returned' = returned \cup {carried[t]}
  /\ carried' = [carried EXCEPT ![t] = 0]
  /\ UNCHANGED <<ssrc, own, ownsender, leaving, collisions, batch, hassent,
                 network, owed, heard>>

-----------------------------------------------------------------------------
(* ProcessPolledData, under SOURCES_LOCK.                                  *)

GetPackets(n) ==
  /\ At(Poll, "wait")
  /\ Go(Poll, "packets")
  /\ batch' = n
  /\ UNCHANGED <<ssrc, own, ownsender, sentpackets, leaving, collisions,
                 carried, hassent, network, ghosts>>

(* A packet without a collision of the own SSRC: see SourceTable.          *)
OrdinaryPacket ==
  /\ At(Poll, "packets") /\ batch > 0
  /\ batch' = batch - 1
  /\ UNCHANGED <<ssrc, own, ownsender, sentpackets, leaving, collisions, pc,
                 carried, hassent, network, ghosts>>

(* Mutant: the time of the entry is not updated.                           *)
KnownCollisionUnrefreshed(a) ==
  /\ At(Poll, "packets") /\ batch > 0
  /\ collisions[a] # Absent
  /\ heard' = [heard EXCEPT ![a] = 0]
  /\ batch' = batch - 1
  /\ UNCHANGED <<ssrc, own, ownsender, sentpackets, leaving, collisions,
                 pc, carried, hassent, network, returned, owed>>

(* The own SSRC, used by an address that is in the collision list: the     *)
(* entry is refreshed, the packet is taken for one that loops.             *)
KnownCollision(a) ==
  /\ At(Poll, "packets") /\ batch > 0
  /\ collisions[a] # Absent
  /\ collisions' = [collisions EXCEPT ![a] = 0]
  /\ heard' = [heard EXCEPT ![a] = 0]
  /\ batch' = batch - 1
  /\ UNCHANGED <<ssrc, own, ownsender, sentpackets, leaving, pc, carried,
                 hassent, network, returned, owed>>

(* Mutant: the packet is taken off the batch here and again at the end.    *)
NewCollisionConsumed(a) ==
  /\ At(Poll, "packets") /\ batch > 0
  /\ ssrc < MaxSSRC
  /\ collisions[a] = Absent
  /\ collisions' = [collisions EXCEPT ![a] = 0]
  /\ heard' = [heard EXCEPT ![a] = 0]
  /\ hassent' = sentpackets
  /\ owed' = owed \cup (returned \cap {ssrc})
  /\ batch' = batch - 1
  /\ Go(Poll, "collided")
  /\ UNCHANGED <<ssrc, own, ownsender, sentpackets, leaving, carried,
                 network, returned>>

(* The own SSRC, used by an address that is not in the list: it is added,  *)
(* sentpackets is read, and the SSRC is going to change.                   *)
NewCollision(a) ==
  /\ At(Poll, "packets") /\ batch > 0
  /\ ssrc < MaxSSRC
  /\ collisions[a] = Absent
  /\ collisions' = [collisions EXCEPT ![a] = 0]
  /\ heard' = [heard EXCEPT ![a] = 0]
  /\ hassent' = sentpackets
  /\ owed' = owed \cup (returned \cap {ssrc})
  /\ Go(Poll, "collided")
  /\ UNCHANGED <<ssrc, own, ownsender, sentpackets, leaving, carried, batch,
                 network, returned>>

(* The BYE packet for the current SSRC is put in the queue; the first one  *)
(* is scheduled (ScheduleBYEPacket does nothing when one is already).      *)
QueueBYE ==
  /\ byepackets' = Append(byepackets, ssrc)
  /\ byescheduled' = (byescheduled \/ byepackets = <<>>)

(* Mutant: the BYE packet is built after the SSRC was changed.             *)
BuildBYEWithNewSSRC ==
  /\ At(Poll, "collided")
  /\ Go(Poll, "byebuilt")
  /\ IF hassent
     THEN /\ byepackets' = Append(byepackets, ssrc + 1)
          /\ byescheduled' = (byescheduled \/ byepackets = <<>>)
     ELSE UNCHANGED leaving
  /\ UNCHANGED <<ssrc, own, ownsender, sentpackets, collisions, carried, batch,
                 hassent, network, ghosts>>

(* BUILDER_LOCK: a BYE packet only if a packet was sent with this SSRC.    *)
BuildBYE ==
  /\ At(Poll, "collided")
  /\ Go(Poll, "byebuilt")
  /\ IF hassent THEN QueueBYE ELSE UNCHANGED leaving
  /\ UNCHANGED <<ssrc, own, ownsender, sentpackets, collisions, carried, batch,
                 hassent, network, ghosts>>

(* It could not be built: ProcessPolledData fails, the SSRC is kept.       *)
BuildBYEFails ==
  /\ At(Poll, "collided") /\ hassent
  /\ Go(Poll, "dead")
  /\ owed' = owed \ {ssrc}
  /\ UNCHANGED <<ssrc, own, ownsender, sentpackets, leaving, collisions,
                 carried, batch, hassent, network, returned, heard>>

(* Mutant: CreateNewSSRC is not called.                                    *)
CreateNewSSRCForgotten ==
  /\ At(Poll, "byebuilt")
  /\ Go(Poll, "newssrc")
  /\ UNCHANGED <<ssrc, own, ownsender, sentpackets, leaving, collisions,
                 carried, batch, hassent, network, ghosts>>

(* BUILDER_LOCK: the packet builder gets another SSRC.                     *)
CreateNewSSRC ==
  /\ At(Poll, "byebuilt")
  /\ Go(Poll, "newssrc")
  /\ ssrc' = ssrc + 1
  /\ UNCHANGED <<own, ownsender, sentpackets, leaving, collisions, carried,
                 batch, hassent, network, ghosts>>

(* Mutant: the own entry stays as it is.                                   *)
ChangeOwnEntryFlagOnly ==
  /\ At(Poll, "newssrc")
  /\ Go(Poll, "packets")
  /\ sentpackets' = FALSE
  /\ batch' = batch - 1
  /\ UNCHANGED <<ssrc, own, ownsender, leaving, collisions, carried, hassent,
                 network, ghosts>>

(* PACKSENT_LOCK: the flag is reset; then the source table's own entry is  *)
(* deleted and created again.                                              *)
ChangeOwnEntry ==
  /\ At(Poll, "newssrc")
  /\ Go(Poll, "packets")
  /\ sentpackets' = FALSE
  /\ own' = ssrc /\ ownsender' = FALSE
  /\ batch' = batch - 1
  /\ UNCHANGED <<ssrc, leaving, collisions, carried, hassent, network, ghosts>>

(* After the last packet: the timeouts of the source table (SourceTable    *)
(* says when the own entry stops being a sender) and of the collision      *)
(* list.                                                                   *)
Timeouts ==
  /\ At(Poll, "packets") /\ batch = 0
  /\ ownsender' \in {ownsender, FALSE}
  /\ collisions' = [a \in Addr |-> IF collisions[a] > CollDelay THEN Absent
                                   ELSE collisions[a]]

(* The scheduler's IsTime says no.                                         *)
NotTime ==
  /\ Timeouts
  /\ Go(Poll, "wait")
  /\ UNCHANGED <<ssrc, own, sentpackets, leaving, carried, batch, hassent,
                 network, ghosts>>

(* It says yes, which ends the backoff, and no BYE packet waits.           *)
SendReport ==
  /\ Timeouts
  /\ byepackets = <<>> /\ byescheduled' = FALSE
  /\ Go(Poll, "wait")
  /\ reports' = reports \cup {ssrc}
  /\ sentpackets' = TRUE
  /\ UNCHANGED <<ssrc, own, byepackets, carried, batch, hassent, data, said,
                 lost, ghosts>>

(* Mutant: the next BYE packet is not scheduled.                           *)
SendBYEUnscheduled ==
  /\ Timeouts
  /\ byepackets # <<>>
  /\ byepackets' = Tail(byepackets) /\ byescheduled' = FALSE
  /\ Go(Poll, "wait")
  /\ said' = said \cup {Head(byepackets)}
  /\ sentpackets' = TRUE
  /\ UNCHANGED <<ssrc, own, carried, batch, hassent, data, reports, lost,
                 ghosts>>

(* A BYE packet waits: the first one goes out, the next one is scheduled.  *)
SendBYE ==
  /\ Timeouts
  /\ byepackets # <<>>
  /\ byepackets' = Tail(byepackets) /\ byescheduled' = (byepackets' # <<>>)
  /\ Go(Poll, "wait")
  /\ said' = said \cup {Head(byepackets)}
  /\ sentpackets' = TRUE
  /\ UNCHANGED <<ssrc, own, carried, batch, hassent, data, reports, lost,
                 ghosts>>

(* The packet that is due cannot be built or sent: a BYE packet is gone,   *)
(* and the poll thread ends.                                               *)
SendFails ==
  /\ Timeouts
  /\ byescheduled' = FALSE
  /\ IF byepackets = <<>> THEN UNCHANGED <<byepackets, lost>>
     ELSE /\ byepackets' = Tail(byepackets)
          /\ lost' = lost \cup {Head(byepackets)}
  /\ Go(Poll, "dead")
  /\ UNCHANGED <<ssrc, own, sentpackets, carried, batch, hassent, data,
                 reports, said, ghosts>>

(* Waiting, polling or processing a packet fails: the poll thread ends.    *)
PollError ==
  /\ At(Poll, "wait") \/ (At(Poll, "packets") /\ batch > 0)
  /\ Go(Poll, "dead")
  /\ UNCHANGED <<ssrc, own, ownsender, sentpackets, leaving, collisions,
                 carried, batch, hassent, network, ghosts>>

-----------------------------------------------------------------------------
(* The end of the session.  The application has no SendPacket under way,   *)
(* and the poll thread has been stopped where it holds no lock.            *)

Stoppable == SourcesFree /\ \A t \in Thread : At(t, "idle")

(* BYEDestroy queues a BYE packet if one can be built, and then sends      *)
(* those in the queue itself.                                              *)
BYEDestroy ==
  /\ Stoppable
  /\ Go(Poll, "leaving")
  /\ IF sentpackets
     THEN QueueBYE /\ owed' = owed \cup (returned \cap {ssrc})
     ELSE UNCHANGED <<leaving, owed>>
  /\ UNCHANGED <<ssrc, own, ownsender, sentpackets, collisions, carried, batch,
                 hassent, network, returned, heard>>

(* A BYE packet is due in BYEDestroy's loop; a failure is ignored.         *)
LeaveSend ==
  /\ At(Poll, "leaving") /\ byepackets # <<>>
  /\ byepackets' = Tail(byepackets) /\ byescheduled' = (byepackets' # <<>>)
  /\ \/ said' = said \cup {Head(byepackets)} /\ UNCHANGED lost
     \/ lost' = lost \cup {Head(byepackets)} /\ UNCHANGED said
  /\ UNCHANGED <<ssrc, own, ownsender, sentpackets, collisions, pc, carried,
                 batch, hassent, data, reports, ghosts>>

(* Mutant: the queue is not cleared.                                       *)
DestroyKeepingQueue ==
  /\ Stoppable \/ At(Poll, "leaving")
  /\ Go(Poll, "closed")
  /\ byescheduled' = FALSE
  /\ collisions' = [a \in Addr |-> Absent]
  /\ own' = 0 /\ ownsender' = FALSE
  /\ UNCHANGED <<ssrc, sentpackets, byepackets, carried, batch, hassent,
                 network, ghosts>>

(* Destroy, BYEDestroy without a BYE packet, or the end of its loop: the   *)
(* last packet is sent or maxwaittime is over.                             *)
Destroy ==
  /\ Stoppable \/ At(Poll, "leaving")
  /\ Go(Poll, "closed")
  /\ lost' = lost \cup Queued
  /\ byepackets' = <<>> /\ byescheduled' = FALSE
  /\ collisions' = [a \in Addr |-> Absent]
  /\ own' = 0 /\ ownsender' = FALSE
  /\ UNCHANGED <<ssrc, sentpackets, carried, batch, hassent, data, reports,
                 said, ghosts>>

(* The same object is used for another session.                            *)
Create ==
  /\ At(Poll, "closed") /\ ssrc < MaxSSRC
  /\ Go(Poll, "wait")
  /\ ssrc' = ssrc + 1 /\ own' = ssrc' /\ ownsender' = FALSE
  /\ sentpackets' = FALSE
  /\ heard' = [a \in Addr |-> CollDelay + 1]
  /\ UNCHANGED <<leaving, collisions, carried, batch, hassent, network,
                 returned, owed>>

(* Time passes.                                                            *)
Older(age) == IF age \in 0 .. CollDelay THEN age + 1 ELSE age

Tick ==
  /\ collisions' = [a \in Addr |-> Older(collisions[a])]
  /\ heard' = [a \in Addr |-> Older(heard[a])]
  /\ UNCHANGED <<ssrc, own, ownsender, sentpackets, leaving, pc, carried,
                 batch, hassent, network, returned, owed>>

-----------------------------------------------------------------------------
SendPacket(t) == BuildAndSend(t) \/ SentRTPPacket(t) \/ MarkSent(t)

TakePacket ==
  \/ OrdinaryPacket
  \/ \E a \in Addr : KnownCollision(a) \/ NewCollision(a)

SendQueued == SendBYE \/ (SendFails /\ byepackets # <<>>)

PollStep ==
  \/ \E n \in 0 .. MaxBatch : GetPackets(n)
  \/ TakePacket
  \/ BuildBYE \/ BuildBYEFails
  \/ CreateNewSSRC
  \/ ChangeOwnEntry
  \/ NotTime \/ SendReport \/ SendBYE \/ SendFails
  \/ PollError

Next ==
  \/ \E t \in Thread : SendPacket(t)
  \/ PollStep
  \/ BYEDestroy
  \/ LeaveSend
  \/ Destroy
  \/ Create
  \/ Tick

Spec == Init /\ [][Next]_vars

(* The poll thread is scheduled; as time passes, IsTime says yes again and *)
(* again (after a finite interval, drawn anew each time); BYEDestroy waits *)
(* at most maxwaittime.                                                    *)
FairSpec ==
  /\ Spec
  /\ WF_vars(PollStep)
  /\ SF_vars(SendQueued)
  /\ WF_vars(At(Poll, "leaving") /\ Destroy)

-----------------------------------------------------------------------------
(* Properties.                                                             *)

(* Outside a change of SSRC the packet builder and the source table agree  *)
(* on who we are: RTP data and the own entry go by one SSRC.  The two are  *)
(* guarded by different locks.                                             *)
OneIdentity ==
  pc[Poll] \notin {"newssrc", "closed"} => own = ssrc

Ascending(q) == \A i, j \in DOMAIN q : i < j => q[i] < q[j]

(* At most one BYE packet exists for an SSRC, they leave in the order the  *)
(* SSRCs were given up, and none is queued for the SSRC still in use,      *)
(* except in the middle of the change or at the end of the session.        *)
OneByeEach ==
  /\ Ascending(byepackets)
  /\ \A g \in Queued, h \in said \cup lost : h < g
  /\ said \cap lost = {}
  /\ ssrc \in Queued => pc[Poll] \in {"byebuilt", "leaving"}

(* If a SendPacket call had returned before the collision was noticed, the *)
(* SSRC it used is not given up silently, although the flag is written     *)
(* without SOURCES_LOCK: its BYE packet is queued, sent or lost.           *)
OwedByes ==
  owed \subseteq Queued \cup said \cup lost
                 \cup (IF At(Poll, "collided") THEN {ssrc} ELSE {})

(* Whenever the poll thread lets go of the session, the scheduler runs the *)
(* BYE backoff exactly when a BYE packet waits.                            *)
ScheduledWhenQueued ==
  At(Poll, "wait") => (byescheduled <=> byepackets # <<>>)

(* No RTP packet carries an SSRC whose BYE is already on the wire, though  *)
(* threads send while the poll thread changes the SSRC.                    *)
SilentAfterBye ==
  [][\A t \in Thread : carried'[t] # carried[t] => carried'[t] \notin said]_vars

(* One host gets us to change the SSRC at most once per timeout of the     *)
(* collision list: packets that keep coming (a loop) are ignored.          *)
LoopsIgnored ==
  [][(At(Poll, "packets") /\ pc'[Poll] = "collided") =>
       \E a \in Addr : heard[a] > CollDelay /\ heard'[a] = 0]_vars

(* A queued BYE packet goes out or is dropped with the session, unless the *)
(* poll thread has ended with an error.                                    *)
QueuedByesGoOut ==
  \A g \in SSRCs :
    g \in Queued ~> (g \in said \cup lost \/ At(Poll, "dead"))

(* "Only send BYE packet if we've actually sent data using this SSRC"      *)
(* (rtpsession.cpp:1425-1426), regular RTCP packets included.              *)
ByeOnlyAfterUse == Queued \subseteq data \cup reports

=============================================================================
