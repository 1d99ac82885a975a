# Formal models of Jrtplib4Android

This directory holds TLA+ models of the program in this repository, TLC
configurations that check them on small instances, and proofs that the TLA+
proof system checks for all instances. `R/` stands for
`src/jrtp/src/main/jni/JRTPLIB/src`, the Android port of JRTPLIB.

`PROJECT.json` maps every definition to the lines it models, and lists the
components, the runs, the mutants that break each property, the theorems, the
findings, and the hazards the properties are aimed at.

Contents: 1 the system, 2 the modules, 3 what the runs show, 4 what is proved,
5 known divergences, 6 what is not modelled, 7 plan.

## 1. The system

An Android app receives the stream of an IP camera, passes it on, or publishes
its own video. It talks RTSP to the camera, RTP and RTCP over `R/`, and RTMP
over librtmp. The JNI classes `CRTPSender` and `CRTPReceiver` derive from
`RTPSession`; a session has a poll thread, a transmitter, a participant table,
a packet builder, an RTCP builder and an RTCP scheduler. The table calls back
into the session and from there into the JNI class and the app.

| Component | State | Operations | What is hard | What makes it correct |
|---|---|---|---|---|
| Participant table `R/rtpsources.cpp` | entries with flags, addresses, times; three counters; own entry | packet in, own SSRC, five sweeps, clear | counters kept entry by entry; entries made on many paths | counts, addresses and callbacks agree with the entries; silent sources go |
| Source statistics and queue `R/rtpsourcedata.*` | probation, numbers, queue, loss counts, reports heard | packet in and out, report in | 16- and 32-bit numbers, disorder | numbers exact, queue sorted, reports tell what happened |
| Session `R/rtpsession.cpp`, `R/rtpcollisionlist.cpp` | SSRC, sent flag, BYE queue, collision list | SendPacket, ProcessPolledData, BYEDestroy, Destroy, Create | four locks; an SSRC change while threads send; failures half way | one identity at a time, one BYE for each |
| RTCP builder `R/rtcppacketbuilder.cpp` | flags per source, SDES round | BuildNextPacket, BuildBYEPacket | rounds over several packets | each source and item gets its turn |
| RTCP scheduler `R/rtcpscheduler.cpp` | last and next report, BYE back-off | IsTime, AnalyseIncoming, ActiveMemberDecrease | reconsideration on counts that change | no report too early, none put off for good |
| Poll thread `R/rtppollthread.cpp`, `jthread.cpp` | stop flag, thread | Start, Stop, Kill, loop | Stop races the wait | Stop ends the thread |
| UDP transmitters `R/rtpudpv4transmitter.cpp`, `R/rtpudpv6transmitter.cpp` | sockets, destinations, groups, filter, queue, abort pipe | Create, send, Poll, wait, abort, Destroy | partial failures; lost wake-ups; list semantics | nothing leaks, tables mirror the kernel, filter exact |
| TCP and external transmitters `R/rtptcptransmitter.cpp`, `R/rtpexternaltransmitter.*` | buffers per socket; queue and abort count | framing; injection | pieces of a stream; signals between sections | whole packets in order; wake-ups heard |
| Packets `R/rtppacket*.cpp`, `R/rtcpcompoundpacket*.cpp` | the numbers of the next packet; parts of a compound packet | build, parse | sizes reckoned apart from writing | what is built is read as meant |
| Hash tables `R/rtphashtable.h`, `R/rtpkeyhashtable.h` | two linked lists, a cursor | add, find, walk, delete | deleting under the cursor | a list of keys with a place in it |
| Android endpoints `RtpHandle.cpp`, `RtpReceiver.cpp`, `RtpSender.cpp` | handle, frame buffer, destinations | init, sendByte, fini, callbacks | fini races; losses; address against SSRC | frames and units whole; destinations match who is there |
| RTSP client and app (Java) | status, request out, session id | connect, answers, fini | two threads on plain fields | requests in order |
| RTMP connection `librtmp/rtmp.c`, `amf.c` | chunks per channel, calls that wait, pause state | send, read, invoke, pause | compressed headers; answers matched by number | whole messages in order; frames in full |
| RTMP publisher `RtmpHandle.cpp`, `RtmpUtil.cpp` | one packet per handle, one mutex | init, pushes, release, file | release takes no mutex | messages whole and in order |

How they interact: the app's threads call `SendPacket`, which takes the packet
builder's lock, then the table's, then the sent flag's. The poll thread waits
on the transmitter, then runs `ProcessPolledData` under the table's lock: each
packet goes through the table, a collision of the own SSRC changes the identity
of the session, the sweeps follow, and if the scheduler says it is time the
RTCP builder walks the table and a report or a queued BYE packet is sent.
Callbacks reach the JNI class with the lock held. In the app, the RTSP client's
thread, the worker of the camera helper, the poll threads and the thread of the
user interface share plain Java fields. The RTMP publisher stands apart: its
threads share one mutex.

## 2. The modules

| Module | Models | Checked with |
|---|---|---|
| `SourceTable`, `SourceTableProofs` | the participant table, one action per handler | `MCSourceTable`: `SourceTable.cfg`, `SourceAddresses.cfg`, `SourceExpiry.cfg` |
| `Session`, `SessionProofs` | sending threads, poll thread, SSRC change, BYE queue, end of the session | `MCSession`: `Session.cfg`, `SessionLeaving.cfg` |
| `RTCPBuilder`, `WalkProofs` | report blocks and SDES items over the rounds | `MCRTCPBuilder`: `ReportRounds.cfg`, `ReportTwice.cfg` |
| `SourceData`, `ThreadProofs` | probation, sequence numbers, queue of one source | `SourceData.cfg`, `HighestReceived.cfg` |
| `TransmitterWait`, `ThreadProofs` | wait, abort and Destroy by several threads | `MCTransport`: `Transport.cfg` |
| `PollThread`, `ThreadProofs` | Start, Stop and Kill over JThread | `MCTransport`; `PollThreadKilled.cfg` |
| `SessionLocks`, `ThreadProofs` | the order in which API calls take the mutexes | `MCNetwork`: `Network.cfg`, like all below |
| `ReceiveFilter`, `ReceiveFilterProofs` | accept and ignore lists | |
| `UDPTransmitter`, `UDPTraffic` | sockets and groups; destinations, datagrams, queue, host name | |
| `UDPv6Transmitter` | the IPv6 transmitter, session after session | |
| `TCPTransmitter` | framing of packets over a stream | |
| `ExternalTransmitter` | injected packets and the abort pipe | |
| `RTPPackets`, `RTCPCompound` | packets from builder over bytes to parser | |
| `ReceptionReport`, `TimingProofs` | loss counts, jitter, sender reports, round trips | |
| `RTCPScheduler`, `TimingProofs` | intervals, reconsideration, BYE back-off | |
| `HashTable`, `KeyHashTable`, `WalkProofs` | both hash tables | |
| `VideoSender`, `VideoReceiver` | H.264 into packets, program stream out of packets | |
| `ReceiverDestinations` | the receiver's list of destinations | |
| `RtspClient`, `MediaProofs`; `IpCamera` | the RTSP client, the camera helper with its handle | |
| `RtmpChunks`, `TimingProofs`; `RtmpSession`, `RtmpPause`, `MediaProofs` | chunk streams, remote calls, pause and resume | |
| `Timing`, `TimingProofs` | no state: `TimesKept`, of the chunks, the scheduler and the reports | |
| `RtmpPusher`, `MediaProofs` | the publisher and its threads | |
| `AMF` | AMF values to bytes and back | |
| `Endpoints`, `EndpointsProofs` | no state: `WakeupsHeard`, `NothingLeaked`, `StateMirrored`, `CallsInOrder` and `FramesWhole`, which name the same hazard in the transmitters, the RTMP side and the app; proofs about the transmitters and the camera helper | |
| `MessageChannel` | abstract: whole messages in order on each connection | implemented by `TCPTransmitter` and `RtmpChunks` |
| `OrderedTable` | abstract: keys in order with a place among them | implemented by `KeyHashTable` |

`MCTransport` and `MCNetwork` put parts side by side: an initial state picks
the part that takes the steps, and the others keep still. The parts share no
variable, so their product would show nothing more; the components that do
interact step by step are in one module (`Session`: threads, poll thread, table
identity, builder and scheduler; `IpCamera`: worker, poll thread, the
threads in fini, and sessions; `ReceptionReport`: sender and receiver; `PollThread`:
application, thread and transmitter). A property of such a module names, part
by part, the properties of the modules. Where the variables of one module never
read each other, `MCNetwork` takes them one at a time too: destinations,
arrivals and the host name in `UDPTraffic`, the three parts of
`UDPv6Transmitter`, and losses, delays and jitter in `ReceptionReport`.

### SourceTable

State: the set `known` of SSRCs in the table, the flags as sets (`validated`,
`senders`, `byes`, `named`), `probation`, the two addresses `addr`, three ages,
the three counters, the SSRCs `announced` to the application and the flag
`owncollision`. Each handler of `RTPSources` is one action with everything it
calls, because the caller holds the table's lock. A compound RTCP packet
becomes one action per report or item in it, in any order; that allows more
than one packet does. `Sweep` is the walk that the five timeout functions have
in common. A moment in time is kept as its age, cut off just above the delay it
is compared with, so `Tick` only makes ages grow. Probation depends on sequence
numbers, which `SourceData` has; here a packet is in order or not.

### Session

An action is a critical section. `BuildAndSend`, `SentRTPPacket` and `MarkSent`
are the three parts of `SendPacket`. The poll thread goes through the places of
`ProcessPolledData`: `wait`, `packets`, `collided`, `byebuilt`, `newssrc` (the
steps of an SSRC change, between which senders may take the builder's lock or
the flag's), and back. It ends in `dead` when a step fails, in `leaving` when
the application calls `BYEDestroy`, in `closed` after `Destroy`; `Create`
starts the next session with the same object. An SSRC is the number of its
draw. `data`, `reports`, `said`, `lost`, `returned`, `owed` and `heard` observe
the wire and the callers; no guard reads them. Left out: that an old SSRC comes
back by chance, and destroying a session while another thread is inside
`SendPacket`, which is a misuse (`Stoppable`).

`SessionLocks` looks at the same calls as sequences of lock steps, one for each
path through the call with its failures: a thread picks one and takes its
steps. Between `BeginDataAccess` and `EndDataAccess` the application may make any
of its calls. Two kinds then hang, and the model lets them: `SetSessionBandwidth`
asks for the scheduler's mutex with the table's in hand, while the poll thread
asks for them in the other order, and `SendPacket` or a second `BeginDataAccess`
asks for the table's mutex again. `NoDeadlock` says that threads wait for one
another for ever in no other way.

### RTCPBuilder, ReceptionReport, RTCPScheduler

`RTCPBuilder`: the table as a list, the sources that have sent data since the
packet before (`recent`, in the code a comparison of two times), the flags
`processedinrtcp`, and the SDES round. `BuildNextPacket` has three outcomes:
full of report blocks (`BuildReports`), the walk ends and an SDES round begins
(`BuildReportsAndItems`), or a round continues (`BuildItems`). How much fits is
open on each build (`Rooms`), counted in report blocks; at least one fits,
because `RTP_MINPACKETSIZE` is 600 bytes.

`ReceptionReport` is one sender and one receiver whose clock is ahead. Packets
with extended numbers (`SourceData` makes them), sender reports and report
blocks are lost, late, repeated and out of order. `ProcessPacket` counts a
packet and takes its part in the jitter; `BuildReport` makes a block if data
came since the packet before and there is room, and only then begins a new
interval. A packet may have a second block for the source, of the interval that
the first one has just begun: `BuildNextPacket` walks the list again for sources
that an earlier packet had covered, with all flags clear. When it does is
`RTCPBuilder`'s business; here it may after any but the first packet. `SenderReport` ties the clock to the media clock; `RoundtripTime`,
`Estimates` and `EstimatedRate` are what the two ends work out. A time unit is
1/65536 second, so the middle 32 bits of an NTP time are exact; numbers wrap at
`ReportModulus`.

`RTCPScheduler` keeps times relative to the present, so that waiting is a shift
of all of them, and draws intervals between the two factors of the code in
tenths. Forward and reverse reconsideration, the half interval at the start and
the BYE back-off are as in the code.

### SourceData

A packet is its true position, a pair of cycle and sequence number; the code
sees the second half only. Extended numbers are pairs too, so the 32-bit
numbers of the code are exact with `SeqMod = 2^16`. The network loses, repeats
and reorders, at most `Gap` ahead of the newest position and `Lag` behind; the
assumption keeps the sum below half a cycle, where 16-bit numbers are ambiguous
for any algorithm. `newest`, `highest`, `last`, `run` and `disturbed` observe
the packets; `Arrives` reads `newest` to say what the network may do.

### The transmitters

`TransmitterWait`: each thread is at a place of `WaitForIncomingData` or
outside; `MAINMUTEX`, `WAITMUTEX`, the flags `created` and `waitingfordata` and
the bytes in the abort pipe are its state. `Destroy` gives the main mutex up
while it waits for the wait mutex, so it takes several actions; everything else
between a lock and its unlock is one. `PollThread` takes the wait as single
steps and adds time: a tick passes only while everybody waits for something, so
five seconds (`StopLimit` ticks) and the delay of a wait can be compared.

`UDPTransmitter` goes through `Create` step by step with a failure at each, and
keeps the open descriptors, their ports and memberships as the kernel has them,
next to what the transmitter's fields say. Its local addresses are those of the
application's list, or what `CreateLocalIPList` finds of the interfaces, and
loopback; with the ports they decide `ComesFromThisTransmitter`. `UDPTraffic` has
the destinations, the datagrams in the sockets and the queue; `PollSocket` is a loop
whose rounds are actions (look at FIONREAD, ask select, take one, end or fail)
while more arrive, and an empty datagram looks like none to FIONREAD, as on the
phone. `ReceiveFilter` keeps an entry as the code does
(`all` with exceptions, or a list of ports) next to `want`, what was asked for
in plain words, and `without`, what was taken out of an IP address added as a whole. `UDPv6Transmitter` runs several sessions on one object.

`TCPTransmitter`: each of the two sends of a packet may fail or be short
(`MaybeWritten`), and the peer goes on using the socket: the stream is then cut,
and astray once more is written (`FlowAfter`). Bytes arrive in pieces of any size;
`TCPReceive` is one `recv` with what follows from it. `ExternalTransmitter`: an injection and the wait are
split where the code gives up its mutex.

### Packets and values

`RTPPackets`, `RTCPCompound` and `AMF` write bytes and read them back.
Properties about layouts are about bytes, so bytes are modelled here and
nowhere else. `RTCPCompound` reckons sizes in one set of operators and writes
in another, as the code does: the first decides on the size of the buffer that
the second fills. The bytes left for a report are a `size_t` (`SizeLeft`), which
goes below 0 when the parts are over the maximum already. `AMF` encodes into buffers of every size that cuts a value
somewhere. `HashTable` keeps the links of the nodes themselves.

### RTMP

`RtmpChunks` has the packets of both directions per channel with the fields that
a chunk's header leaves out; `RtmpSession` has the calls that wait for an
answer and a server that answers in turn, refuses, and stops; `RtmpPause` has
the time stamps that decide which frames are skipped after a pause.
`RtmpPusher` takes the pushes of several threads apart at the grain of memory
that is filled, the mutex and the send, with a release that takes no mutex.

### The app

`VideoSender` cuts units into packets and a receiver puts them together by the
RFC's rules; `VideoReceiver` is the state of the buffer `psBuf`, with packets
lost on the way. `ReceiverDestinations` has the callbacks of the participant
table as events: entries come with an RTP or an RTCP address or none, learn the
other later, say BYE, time out; the port below an RTCP port is computed in as many
bits as ports have.
`RtspClient` takes the client's thread and the user interface apart where
fields are read and written. `IpCamera` has the worker, the poll thread and the
threads that call fini over one handle: every read of a field, the steps of
`sendByte` and those of `finiHandle` (read a part, end its session, delete it,
set it to 0, free) are actions of their own. What a freed handle holds is any
value.

## 3. What the runs show

| Run | Shows | Bounds |
|---|---|---|
| `source_table` | `CountsExact`, `ActiveCountNotOver`: the counters; `ChangesAnnounced`: the callbacks | 3 SSRCs, 1 address, lists of at most one contributing source, no probation, delays of 0 |
| `source_addresses` | `ActiveCountExact`, `AddressesAgree`, `AddressesStick`, `OwnEntryIntact` | 2 SSRCs, 3 addresses on 2 hosts, own packets accepted, probation of 2, no mixers |
| `source_expiry` | `SilentSourcesExpire` (liveness) | 2 SSRCs, 1 address |
| `session` | `OneIdentity`, `OneByeEach`, `OwedByes`, `ScheduledWhenQueued`, `SilentAfterBye`, `LoopsIgnored` | 2 threads, 2 addresses, 3 SSRCs, batches of 2 |
| `session_leaving` | `QueuedByesGoOut` (liveness) | 1 thread, 2 addresses, 3 SSRCs |
| `report_rounds` | `ItemsOnSchedule`, `EverySourceReported`, `ItemsGoOut` (the last two liveness) | 3 sources, 2 items with periods 1 and 2, room for 1 or 2 |
| `source_data` | `QueueAscending`, `NumbersExact`, `ProbationExact` | cycles of 10, three of them, gaps and delays of 2, probation of 2, 2 packets stored on probation, 3 in the queue |
| `transport` | `WaitSafe`: no read of an empty pipe, no waiter after Destroy; `AbortHeard`: a signalled wait ends; `PollSafe`: a thread outlives Stop only if the abort came before its wait; `CallsReturn`, `StopEndsThread` (liveness) | 3 threads; 2 poll threads one after the other, delays of 4 ticks, Stop's limit of 2 |
| `network` | 14 properties, see below | small sets per part, in `Network.cfg` |

The properties of `network`:

- `NetworkTypeOK`: the type invariant of each part.
- `NoDeadlock`: a set of threads that wait for one another's mutexes has one that,
  inside data access, asks for the scheduler's mutex or the table's again.
- `WakeupsHeard`: a wait is told of a socket added (TCP), of a packet injected
  (external), and none outlives its session (IPv6).
- `NothingLeaked`: every descriptor is in use or closed once (IPv4, IPv6), every
  buffer of the TCP transmitter belongs to something; sessions of the app run only
  under a live handle and outlive all finis exactly if an init failed or every
  fini came too early; freed memory is used by a worker for one packet at most
  (unless it began after the fini), and by finis only when two overlap; and the
  camera's queue drops only the oldest.
- `StateMirrored`: port pairs and memberships are those of the kernel, and a
  packet from one of the transmitter's own sockets is known as its own; the host
  name is one name; nothing of the session before is left (IPv6); the each
  destination of the receiver belongs to a source that is there and has not said
  BYE, unless it was made of an RTCP port and RTP then came from another than the
  one below; and an announced source is served exactly until it, or another one
  at its address, leaves.
- `FilterExact`: an address is let in exactly when the calls say so, and no call
  admits or shuts out another as a side effect, whatever form its entry has. The
  one exception is stated in it: what was taken out of an IP address added as a
  whole stays out when it is added again.
- `TrafficExact`: each packet went exactly once to each address asked for, and to
  no other; a Poll that returns no error has taken all that was there when it
  began, empty datagrams included.
- `CarriesPackets`, `CarriesMessages`: `TCPTransmitter` and `RtmpChunks`
  implement `MessageChannel`. The mapping takes what was sent and what was put
  together per connection or channel; every other step stutters. For TCP, what was
  sent are the packets before the first that a failed or short send left in pieces,
  and as many of those put together count (`Delivered`); more are put together
  only when the peer wrote on behind the piece (`NothingMadeUp`).
- `KeepsOrder`: `KeyHashTable` implements `OrderedTable`. The keys are read off
  the list of all elements and the place is the key under the cursor.
- `TimesKept`: RTMP messages have the times they were sent with; reports keep
  the least interval and are never put off for good; and `ReportsSound`: the
  round trip is the way of a sender report plus the way of the block that
  answers it, a sender report is true to the media clock, losses are what is
  missing, the intervals of two blocks add up, and the jitter is the change of
  the way, over the end of 32 bits. A block has packets to report and a fraction
  of them, unless it is the second one of its packet (`report_twice`): that one
  only says again what the first said of the loss, and its fraction is 0.0/0.0 in
  the code, so none is claimed.
- `CallsInOrder`: RTMP calls and RTSP requests go out in the order of the
  protocol, each after the answer it needs.
- `FramesWhole`: the frames of a stream over pause and resume, and the messages
  of the publisher while threads push at once.
- `RoundTrips`: RTP packets, compound packets, AMF values, H.264 units and
  program stream video come out as they went in. A compound packet keeps its
  maximum size, with one exception (`MaximumKept`). The class promises that a call
  refuses "if the action would cause the maximum allowed size to be exceeded"
  (`rtcpcompoundpacketbuilder.h:53-58`), but `AddSDESSource` takes a first chunk
  with less than 12 bytes left (`rtcpcompoundpacketbuilder.h:352`), and after it
  the starts of a report take 28 bytes more, because the bytes left are unsigned
  (`rtcpcompoundpacketbuilder.cpp:168`). `overdrawn` notes the call, and the
  property says that nothing else exceeds the maximum, by how much this does, and
  that a chunk right after the report is not concerned. That is where
  `RTCPPacketBuilder` puts its own, so the packets of a session keep the maximum.

Why these bounds are enough to show something. Two SSRCs meet in every address
conflict, and the third in `source_table` lets a packet, its contributing
source and the own entry be three entries. Delays of 0 make every sweep possible
at once and after each tick. Two colliding addresses and three SSRCs give two
BYE packets in the queue, the case in which the back-off is scheduled again.
Three sources with room for one make a round of several packets with sources on
both sides of the walk. Two ends of a cycle are passed in `source_data`, one on
probation. Three threads in `transport` let one wait, one abort and one
destroy. In `network`, every limit is reached: port numbers up to `MaxPort` (5)
let the neighbour of a port be taken or missing, buffers have sizes on both
sides of each value, chunks of 1 and 2 bytes split every message, two keys share
a hash bucket, timestamps wrap at 8, clocks of reports start just below the end
of the 32 bits, and the publisher has two threads. Three packets on
a TCP connection let one go whole, one be cut and one go astray. For `ReceptionReport`, three
instants let a report be overtaken by a younger one, and three packets let one
be late, one lost and one repeated.

Beside the constants, `MCNetwork` cuts what would only multiply states, in one
operator per part with its reason: a forced RTCP port where Create does not
read it and groups joined under another list of local addresses (`SocketsPart`);
a third TCP packet unless one was cut before it (`TCPPart`); the second closer
before the first, who is like it, and a third camera packet when both have begun
(`CameraPart`); report packets beyond the one the round trip needs
(`ReportsPart`). The theorems have none of these bounds.

The bounds in guards: `MaxSSRC`, `MaxBatch` (`Session`); `MaxCycle`, `MaxQueue`
(`SourceData`); `Cycle` (`RTCPBuilder`; `sdesbuildcount` is only used modulo the
periods); `MaxBytes`, `MaxThreads`, `MaxDelay`, `MaxWork` (`transport`); and the
constants beginning with `Max` in the modules of `network`. Deadlock checking is
off: every module ends in states where nothing is left to do (a closed session,
a source at the last cycle, a limit), which is how the system may stop.
`NoDeadlock`, `CallsReturn` and `AbortHeard` say what matters about waiting.

Three runs refute a statement of the code's own comments; `findings` quotes
each:

- `report_twice`: one RTCP packet may have two report blocks for one source,
  the second for an empty interval.
- `highest_received`: a packet that is late across the end of a cycle raises the
  highest sequence number by nearly a cycle.
- `poll_thread_killed`: Stop returns while the thread it "killed" goes on.

### Fairness

- `SourceTable`: weak fairness of `Tick` and `MultipleTimeouts`. The poll thread
  waits at most until the next report is due and sweeps in every round.
- `Session`: weak fairness of the poll thread's steps, strong fairness of
  sending a queued BYE packet (the scheduler draws a finite time again and
  again, and says no in between), weak fairness of `Destroy` after `BYEDestroy`,
  which waits at most `maxwaittime`. No fairness for the application.
- `RTCPBuilder`: weak fairness of `Build`, for the same reason.
- `TransmitterWait`: strong fairness of taking a mutex, which other threads take
  and free in between (a mutex that is free again and again is obtained in the
  end), weak fairness of the steps of a call that has begun. The delay of a
  wait is not relied on: `AbortHeard` rests on the abort alone.
- `PollThread`: weak fairness of the steps of each thread, of Start and Stop once
  begun, and of time.
- `network` checks safety only.

## 4. What is proved

For all values of the constants that satisfy the named assumptions
(`...Assumption` in each module). The invariants that carry the arguments:

- `SourceTableProofs`: `TypeOK`, `CountsExact`, `ActiveCountNotOver`,
  `AddressesAgree` and `OwnEntryIntact` are invariants, and `AddressesStick` and
  `ChangesAnnounced` hold of every step; `ActiveCountExact` is an invariant if no
  packet has a contributing-source list. The counters need no strengthening
  beyond the type invariant and the counting lemmas: each action changes
  `known`, `senders` and `Active` by a set whose size is what it adds. The
  callbacks need `Told`, that every entry has been announced; what an action adds
  to `announced` or takes from it is then what it adds to the table or takes from
  it, but for `ClearSourceList`, which takes all and tells nobody. The addresses need `AddressInv`: both address properties
  together, and that an SSRC outside the table has no address.
- `SessionProofs`: the type invariant, four invariants and the two action
  properties of the run. The inductive invariant `IInv` adds: `Midway` (the
  packet that caused a change is still in the batch), `Drawn` (no SSRC is used
  before it is drawn), `FlagCovers` (if some call with the current SSRC has
  returned, the flag is set, and between the draw of a new SSRC and the reset of
  the flag no call with the new SSRC can return, because it needs the table's
  lock), `QueueOrdered` (the queue, the BYE packets sent and the current SSRC
  are in order), `Scheduled` and `ListExact` (the age in the collision list is
  that of the last collision). `FlagCovers` is the heart: without it a returned
  call could be forgotten by a reset.
- `ThreadProofs`, one source's data: the type invariant, the two invariants and the action
  property of the run, and the bound on packets stored on probation, for every
  `SeqMod` above twice `Gap + Lag`. The inductive invariant adds: `Counting` (on
  probation, the counter and the length of the run of packets add up),
  `Following` (the last and the highest position are at most `Lag` behind the
  newest) and `Held` (packets kept on probation have no cycle yet and, if
  nothing was disturbed, come from one). From nearness follow the two facts that
  the code relies on: only the next position has the next number
  (`NextIsNext`), and the shorter way around the cycle is the right one
  (`LaterIInv`). The queue rests on `InsertedAscending`.
- `WalkProofs`, the hash tables: `KeepsOrder`, the refinement of `OrderedTable`
  by `KeyHashTable`, for any finite set of keys, any buckets and elements. The
  invariant `Holds` says that the list of all is a `Chain` (a sequence of
  different keys, whose links lead from each to its neighbours in both
  directions), that each bucket is a chain of just the keys of that bucket, and
  that the cursor is on a node, at the end, or dangling. `ChainAdded`,
  `ChainBefore` and `ChainRemoved` say what the assignments to links make of a
  chain; `NodesRead`, that a walk along the links reads the chain off.
- `WalkProofs`, the RTCP builder: the type invariant and `ItemsOnSchedule`, for
  any participants, items, intervals and room. The invariant `OwedIsLeft`: while
  a round runs, what is owed is what the flags of `ownsdesinfo` leave of the items
  due, and outside a round no flag is set. `AmongPicks` says what the walks over
  the source table and the items find.
- `ThreadProofs`, the wait: for any number of threads, the abort pipe is read only
  when a byte is in it, and when Destroy is over no thread is left in the part
  of the wait that uses the sockets (`WaitSafe`). The inductive invariant says
  who holds which mutex at which place (`Holders`), that `waiting` is set just
  while one thread is inside the wait (`OneWaiter`), and that only the owner
  destroys, with a waiter left only while it stands before the wait mutex
  (`OwnerDestroys`). With one waiter and Destroy waiting for it, nobody can take
  the byte from a thread that saw the pipe readable (`ReadsOnlyBytes`).
- `ThreadProofs`, the locks: `NoDeadlock` for any number of application threads,
  with and without a poll thread; with one, also that the sections of a mutex
  exclude each other (`SectionsExclude`; without a poll thread the code takes
  most mutexes not at all, and it does not hold). Each call is followed as a
  path of sections: `KeepsToOrder` says that what is left of every thread's call
  takes a mutex only in sections in which `Order` allows it, and `OwnersInside`
  that who holds a mutex is in its section. The pairs of mutexes that are taken
  in both orders (the scheduler's and the table's, the transmitter's two) are
  taken so by the poll thread alone, but for an application inside data access
  that wants the scheduler's (`InDataAccess`, which `NoDeadlock` names), so no
  other circle of waiting threads closes (`OrderPreventsDeadlock`).
- `ThreadProofs`, the poll thread: `PollSafe` for any number of threads started
  one after another and any RTCP delay, provided that a round of work takes no
  longer than Stop waits (`MaxWork <= StopLimit`; with a longer one Stop gives up
  on a thread in the middle of its work).
  The invariant `StopProtocol` says for each place of the application what the
  flags and the thread may be; in it `Answering`: a thread that Stop waits for,
  and whose wake-up was not lost, has been woken or is at work, and for no longer
  than a round.
- `ReceiveFilterProofs`: `FilterExact` for any addresses, ports and sequence of
  calls. The invariant (`EntriesMatch`): an entry for all ports belongs to an IP address
  added as a whole, and what is in the list was asked for and not taken out. An
  entry has two forms (all but some ports, or some ports), and what each call makes of each
  form is a case of its own (`AddIsExact`, `DeleteIsExact`).
- `EndpointsProofs`, the TCP transmitter: `CarriesPackets`, the refinement of `MessageChannel` by
  `TCPTransmitter`, for any base of the bytes, any packets, connections, and
  pieces of any size. The invariant `Stream`: what a connection holds (the length
  bytes and the data read, then what is under way) is laid out as the packets
  sent and not yet put together, each behind its two length bytes, and after the
  last of them nothing, the beginning of a packet that the peer did not send to
  its end, or, when it wrote on, anything (`Layout`, `CutOff`).
- `EndpointsProofs`, the rest: `WakeupsHeard`, `NothingLeaked`, `StateMirrored` and
  `TrafficExact`, part by part. For the external transmitter: the count of
  signals is never ahead of the pipe (`CountNeverAhead`). For the sockets of the
  UDP transmitter, `SocketInv`: every open descriptor is one of the application's,
  one in use, or one put aside until Create is over (`SocketsAccounted`); the ports
  of those in use are a pair at every stage of Create (`PortsKnown`), and the
  kernel's memberships are the table's (`GroupsKnown`). For traffic: two
  destinations differ in their address (`AddressesDiffer`) and are the addresses
  asked for (`AskedAreServed`), one name has been told (`NameKept`), and what Poll
  found is still in the sockets but for what it took (`PollCounts`). For IPv6: each list is empty while the transmitter is not
  created, and what is in it came in the present session (`ApartInv6`), with the
  receive filter's invariant taken over from `ReceiveFilterProofs` as an
  instance. For the TCP transmitter: the buffers are the packets being put together
  and those in the queue, counted (`BufferInv`). For the camera helper: what the
  worker, the closing threads and the handle may be at each place
  (`HandleInStep`, `SessionsInStep`), that a closing thread has the handle to
  itself unless two overlap (`CloserAlone`), and that the queue and what was passed on end with the latest
  packet (`QueueInv`). For the receiver: each destination that is not stale is what some source that
  is there was announced with and still has (`Backed`).

- `MediaProofs`, pause and resume: `FramesInFull` for streams of any length and
  any number of pauses. Two invariants. `NoGap`: no frame was shown before those
  ahead of it, every stamp that may go into a request is of a frame shown, and
  the frames under way go on from there without a hole; it holds in every step.
  `InTurn`: while the server begins no buffer unasked, the two are in one phase
  together: the server streams (`StreamAt`, which also says which frames the
  player skips after a resume), or it rests and a pause or a resume is under way.
- `MediaProofs`, the publisher: `MessagesWhole`, `StraysFew` and `FileInOrder` for
  any finite number of threads. `OneInside`: only who has the mutex is between
  filling the packet and sending it, so what it put there is still there when it
  goes on (`PacketKept`), although the release takes no mutex; `StraysCounted`:
  what was used after the release and the pushes that are not over are no more
  than the threads. The order in the file is given by where each message was
  read (`from`), because `SelectSeq` is closed to the prover.
- `MediaProofs`, the RTMP session: `PlaysItsStream` and `CallsAwaited` for any
  number of calls and messages. The invariant `SessionInv`: a session that does
  not play waits for exactly one call of the chain connect, createStream, publish
  or play (`Waits`), which is with the server, or answered by exactly one message
  that fits it, or was refused; one that plays waits for none (`Plays`); and no
  number is used twice (`Numbered`). `Chained` shows why an answer is never taken
  for one to an earlier call: the next call of the chain is invoked only when
  nothing of the chain is left.
- `TimingProofs`, the chunks of RTMP: `CarriesMessages`, the refinement of
  `MessageChannel` by `RtmpChunks`, and `TimesCarried`, for any channels, messages,
  chunk sizes and any mixing of the chunks of several channels. The invariant
  `ChunksInv` says of each channel that what is on the wire leads from the spot
  where its reader is to the spot where its sender is (`Path`): each chunk is a
  new size, or another channel's, or just the next piece of the message there
  (`ChunkAt`), with a header that leaves out what the message before it has. So
  the reader, which keeps the message before (`ReaderAt`), fills in what the
  sender left out (`DecodedAs`), and a change of the chunk size reaches it
  between the right two chunks.
- `TimingProofs`, the scheduler: `SchedulerSound` for any bandwidth, any number of
  members, and however late the session polls. The invariant `Timer`: the time
  that the next report is reckoned from is never before the last report (unless
  that was longer ago than any interval). Reverse reconsideration only draws it
  nearer to the present, so a report that is due by it has kept its distance
  from the last one by the interval of the members there are. The proof showed that the timer is
  bound by the longest interval only while it is not over: one that is late when
  members go is set to the present, and the time it is reckoned from keeps its
  part of the delay. `NotPutOff` says so.
- `TimingProofs`, the reports: `ReportsSound` for any clocks, any loss, delay,
  repetition and order of packets and reports, and any modulus of the 32-bit
  numbers that times and timestamps differ by less than a sixteenth of. The
  invariant `ReportsInv`: every timestamp is the media clock at an instant that is
  known (`PacketsTied`, `ReportsTied`, `LastSeen`), every block has the times of a
  report that was heard, no later than the block was made (`Answers`), the blocks
  make a chain in which each continues or says again the one before (`Chain`), and
  the losses up to the last block are those of the saved numbers (`BlocksAnswer`).
  `StepsTold` says what the threshold 0x10000000 finds out of two timestamps.
- `MediaProofs`, the RTSP client: `HandshakeInOrder` for two threads and answers
  in pieces. The invariant `RtspInv`: there is one step `k` of the handshake to
  which status, request flag and program counter belong (`AtStep`), the server
  has got the first `k` (or `k - 1`) requests (`CleanTo`), and the client never
  counts more answers than it was given (`OksAnswered`).

The assumptions say what the code and its surroundings give: ports end at an odd
number, the kernel gives out the lowest free descriptor, never 0, the queue
of the camera helper has room (`queueSize`), no host is called `none`, no
datagram has the sender's port 0, sizes of TCP packets fit in the two length
bytes, keys are finitely many and differ from the null pointer, the threads of
the publisher are finitely many and a frame lasts a positive time (`Step`),
`Items` is a sequence without repetition, chunks are not empty, RTMP times fit in
their modulus, and the senders' part of the RTCP bandwidth is no more than
`ShareOf` says (`SchedAssumption`).

The type invariants of `SourceTable`, `Session`, `SourceData`, `RTCPBuilder` and
`TransmitterWait` are proved and not listed in a run.

A recursive function can be reasoned about: existence and values are shown by
induction for a set of numbers (`Induction`), which needs no operator as a
parameter. What is declared `RECURSIVE`, the folds of the community modules and
`SelectSeq` cannot be unfolded; where a proof needed one (`Nodes`, `Among`,
`OrderedTable!Take`), the module has a function instead.

Only model-checked:

- the liveness properties (`SilentSourcesExpire`, `QueuedByesGoOut`,
  `EverySourceReported`, `ItemsGoOut`, `AbortHeard`, `CallsReturn`,
  `StopEndsThread`), which are out of the prover's reach;
- `NetworkTypeOK`, of which the proofs contain the parts they need;
- `RoundTrips`, which is about recursive encoders and decoders for every input.

## 5. Known divergences

What modelling showed besides the three findings. No run is given to these,
either because the code says nothing to the contrary that could be quoted, or
because they are plain once seen.

- Participant table and session: `GetActiveMemberCount` misses a known source
  that a contributing-source list validates until the next sweep
  (`R/rtpsources.cpp:329`); a BYE packet may be built for an SSRC that was never
  used (`R/rtpsession.cpp:1541`). `SetSessionBandwidth` between `BeginDataAccess`
  and `EndDataAccess` can deadlock with the poll thread, `SendPacket` there always
  hangs (`InDataAccess` in `SessionLocks`); nothing in the documentation forbids
  either. At the end of a session `OnRemoveSource` is called for no entry
  (`R/rtpsources.cpp:76`), against `R/rtpsources.h:316`. In a session without a poll thread, an
  application that polls between `BeginDataAccess` and `EndDataAccess` does not
  exclude anybody, as the locks are not taken.
- Reports: a sender report that arrives twice or out of order takes the estimated
  timestamp unit away until the next pair, and the jitter falls to 0; a round
  trip is given as 0 if the middle bits of the sender's time and the delay
  happen to be 0. The scheduler halves the second interval too, and never
  updates `pbyemembers`. `SDES::NeededBytesWithExtraSource` returns 0 for the
  first source.
- Transmitters: after `Add(ip, 0)`, `Delete(ip, p)`, a further `Add(ip, p)` does
  nothing; a TCP packet of which a send failed or was short is not made good, and
  every later packet of that connection is misread, without an error to either
  side; the TCP transmitter's `ComesFromThisTransmitter` returns without
  unlocking when it was not created, the external transmitter's `Inject...` when
  memory runs out; both UDP transmitters unlock the main mutex twice in Destroy
  of one that was not created. With a free choice of ports IPv6 does not learn
  its port for `ComesFromThisTransmitter`, and knows only the local addresses that
  the name service tells, and loopback. A wait may outlast an abort that came
  before it. `JThread::Kill` only clears a flag.
- Hash tables: the cursor is not set by the constructor nor by `Clear`.
- Video: the sender repeats the header and loses the last byte of units of at
  most 1100 bytes, and a unit of an exact multiple has no end fragment, marker
  or clock step; every receiver and sender shares one frame buffer; the marker
  of a new packet is given with the old frame; an announced PES length is
  copied even if it is not there; both ends have the same predefined SSRC.
- Handles of the app: a failed init leaks a running sender, though the comment
  says that resources are deleted (`RtpHandle.cpp:83`); fini may end and delete
  under a running `sendByte`, for one packet; two finis at once end, delete and
  free twice; a fini before init is over leaves everything running, and one before
  the worker has begun is undone by it; a worker in `take()` never ends. Frames
  passed on whole
  exceed the packet size, and the array is then not released.
- Destinations of the receiver: two SSRCs on one address lose it when one
  leaves; a contributing source that later sends itself is never added; a
  source heard by RTCP first, whose RTP port is not the one below, leaves a stale
  destination that no BYE deletes.
- RTSP client: an answer other than 200 leaves the request flag set for ever;
  keys in the second piece of an answer are ignored; a third empty read calls the
  listener as if answered; TEARDOWN may mix with or replace a request, and its
  answer may be taken for another's; the thread never ends after fini.
- RTMP: a repeated header without a time adds the last difference again;
  `RTMP_Close` keeps chunk sizes and can recurse when a send fails; three calls
  are never taken out of the list; the media stamp is not updated by the first
  frame after a resume. AMF: a named NULL loses its name, an unreadable value
  followed by an object ends the outer one early, AMF3 integers are read as plain
  `char`.
- RTMP publisher: release takes no mutex, so a push in progress uses what was
  given back, at most once per thread; a failed init leaks; `pushFlvFile` leaves
  the file open when the connection fails; SPS and PPS carry the time 0 in the
  middle of a stream; the time advances even when a frame is not sent.

## 6. What is not modelled

- Out-of-memory errors: no handler recovers from one.
- The smoothing of the jitter: floating-point arithmetic on the modelled part.
- The RTMP handshake (this build has no cryptography), RTMPT, SOCKS proxies, the
  FLV reader of `RTMP_Read`, AMF3 objects, SWF verification.
- The fake transmitter, which this build does not compile, memory managers,
  random numbers, vendored JThread beyond Start and Kill, generated files.
- Pixel arithmetic, the activities, the phone's camera, and the JNI attachment
  of threads: no state of the protocol. A helper that is started again while its
  fini is running has two workers; `IpCamera` has one. Its plain fields are read
  and written at once and in order.
- Sessions without a poll thread: the same handlers without concurrency.
- Getters, dumps, and calls that only return an error.
- Sending over IPv6 and `GetTransmissionInfo`, as over IPv4.

## 7. Plan

Done: all components of section 1 are modelled and checked; proofs of the
participant table, the session, one source's data, the RTCP builder's items, the
locks, the wait, the poll thread, the transmitters, the receive filter, the hash
tables, the RTCP scheduler, the reports, the chunks of RTMP, its session with its
pauses, the publisher, the RTSP client and the ends of the app.

What would come next, in this order: an abstract specification of
the identity of a session that `Session` implements; and the composition of
`ReceptionReport` with `RTCPBuilder` for several sources.
