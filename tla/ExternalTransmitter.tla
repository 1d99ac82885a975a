------------------------ MODULE ExternalTransmitter ------------------------
(***************************************************************************)
(* RTPExternalTransmitter: the application injects packets, the poll       *)
(* thread waits for them.  A wait begins under mainmutex, sleeps on the    *)
(* abort pipe without it, and ends under it; the other calls are sections  *)
(* under mainmutex.  An injection signals the pipe only if m_abortCount    *)
(* says that nothing is in it.                                             *)
(***************************************************************************)
EXTENDS Naturals, Sequences

CONSTANTS MaxInjected  \* bound on the packets in the queue and in the pipe

ASSUME ExternalAssumption == MaxInjected \in Nat

VARIABLES
  extcreated,
  extqueue,    \* rawpacketlist: for each packet, whether it is RTP
  signals,     \* bytes in the abort pipe
  abortcount,  \* m_abortCount
  waiter,      \* where the poll thread is
  isset        \* RTPSelect found the pipe readable

extvars == <<extcreated, extqueue, signals, abortcount, waiter, isset>>

ExtTypeOK ==
  /\ extcreated \in BOOLEAN /\ isset \in BOOLEAN
  /\ extqueue \in Seq(BOOLEAN) /\ Len(extqueue) <= MaxInjected
  /\ signals \in Nat /\ abortcount \in Nat
  /\ waiter \in {"away", "asleep", "awake"}
  /\ waiter = "asleep" => extcreated

ExtInit ==
  /\ extcreated = FALSE /\ extqueue = <<>> /\ signals = 0 /\ abortcount = 0
  /\ waiter = "away" /\ isset = FALSE

ExtCreate ==
  /\ ~extcreated /\ waiter = "away" /\ extcreated' = TRUE
  /\ signals' = 0 /\ abortcount' = 0
  /\ UNCHANGED <<extqueue, waiter, isset>>

(* Destroy signals a sleeper and waits until it is awake and gone.         *)
ExtDestroy ==
  /\ extcreated /\ waiter # "awake"
  /\ extcreated' = FALSE /\ extqueue' = <<>> /\ signals' = 0
  /\ abortcount' = IF waiter = "asleep" THEN abortcount + 1 ELSE abortcount
  /\ waiter' = "away"
  /\ UNCHANGED isset

-----------------------------------------------------------------------------

ExtWaitBlindly ==
  /\ extcreated /\ waiter = "away" /\ waiter' = "asleep"
  /\ UNCHANGED <<extcreated, extqueue, signals, abortcount, isset>>

(* With a packet in the queue the call returns at once.                    *)
ExtWait ==
  /\ extcreated /\ waiter = "away" /\ extqueue = <<>> /\ waiter' = "asleep"
  /\ UNCHANGED <<extcreated, extqueue, signals, abortcount, isset>>

(* The pipe is readable, or the delay is over, or both.                    *)
ExtSelect ==
  /\ waiter = "asleep" /\ waiter' = "awake" /\ isset' = (signals > 0)
  /\ UNCHANGED <<extcreated, extqueue, signals, abortcount>>

ExtWakeKeepingCount ==
  /\ waiter = "awake" /\ waiter' = "away"
  /\ signals' = IF isset THEN 0 ELSE signals
  /\ UNCHANGED <<extcreated, extqueue, abortcount, isset>>

(* ClearAbortSignal reads until nothing is left.                           *)
ExtWake ==
  /\ waiter = "awake" /\ waiter' = "away"
  /\ signals' = IF isset THEN 0 ELSE signals
  /\ abortcount' = IF isset THEN 0 ELSE abortcount
  /\ UNCHANGED <<extcreated, extqueue, isset>>

ExtAbortWait ==
  /\ extcreated /\ waiter # "away" /\ signals < MaxInjected
  /\ signals' = signals + 1 /\ abortcount' = abortcount + 1
  /\ UNCHANGED <<extcreated, extqueue, waiter, isset>>

-----------------------------------------------------------------------------

Inject(rtp) ==
  /\ extcreated /\ Len(extqueue) < MaxInjected
  /\ extqueue' = Append(extqueue, rtp)
  /\ IF abortcount = 0 THEN signals' = signals + 1 /\ abortcount' = 1
                       ELSE UNCHANGED <<signals, abortcount>>
  /\ UNCHANGED <<extcreated, waiter, isset>>

(* The second byte, if there is one, tells RTCP packets of the types       *)
(* 200 .. 204 from RTP packets.                                            *)
InjectRTP == Inject(TRUE)
InjectRTCP == Inject(FALSE)
InjectRTPorRTCP(length, type) ==
  Inject(~(length >= 2 /\ type \in 200 .. 204))

ExtGetNextPacket ==
  /\ extcreated /\ extqueue # <<>> /\ extqueue' = Tail(extqueue)
  /\ UNCHANGED <<extcreated, signals, abortcount, waiter, isset>>

ExtNext ==
  \/ ExtCreate \/ ExtDestroy \/ ExtWait \/ ExtSelect \/ ExtWake
  \/ ExtAbortWait \/ InjectRTP \/ InjectRTCP \/ ExtGetNextPacket
  \/ \E length \in 1 .. 2, type \in {96, 200} : InjectRTPorRTCP(length, type)

ExtSpec == ExtInit /\ [][ExtNext]_extvars

-----------------------------------------------------------------------------

(* The poll thread does not sleep while a packet is in the queue: one that *)
(* was injected between its look at the queue and its sleep, or while an   *)
(* older signal was being read, has left a byte in the pipe.               *)
InjectedHeard ==
  waiter = "asleep" /\ extqueue # <<>> => signals > 0

=============================================================================
