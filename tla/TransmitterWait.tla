--------------------------- MODULE TransmitterWait ---------------------------
(***************************************************************************)
(* Waiting for data in RTPUDPv4Transmitter: WaitForIncomingData, AbortWait *)
(* and Destroy by several threads, with the two mutexes and the pipe of    *)
(* RTPAbortDescriptors.  MAINMUTEX is held for a while only by a thread    *)
(* that waits for WAITMUTEX; every other section under it is one step.     *)
(***************************************************************************)
EXTENDS Integers, FiniteSets

CONSTANTS
  Thread,
  Owner,         \* the thread that creates and destroys the transmitter
  NoOne,         \* a mutex nobody holds
  MaxBytes       \* bound on the bytes in the pipe

ASSUME WaitAssumption ==
  /\ Owner \in Thread /\ NoOne \notin Thread
  /\ MaxBytes \in Nat \ {0}

VARIABLES
  created,   \* the transmitter's flag
  waiting,   \* waitingfordata
  external,  \* the application's own abort descriptors are used
  bytes,     \* bytes in the abort pipe in use
  kept,      \* bytes in the application's pipe while it is not in use
  main,      \* holder of mainmutex
  wait,      \* holder of waitmutex
  pc,        \* where each thread is
  heard      \* the thread's readflags[idxAbort]

pipe == <<external, bytes, kept>>
waitvars == <<created, waiting, pipe, main, wait, pc, heard>>

Places == {"idle", "takeWait", "select", "relock", "unlockWait", "blocked",
           "destroyWait", "destroyUnlock"}

WaitTypeOK ==
  /\ created \in BOOLEAN /\ waiting \in BOOLEAN
  /\ external \in BOOLEAN /\ bytes \in Nat /\ kept \in Nat
  /\ main \in Thread \cup {NoOne} /\ wait \in Thread \cup {NoOne}
  /\ pc \in [Thread -> Places]
  /\ heard \in [Thread -> BOOLEAN]

WaitInit ==
  /\ created = FALSE /\ waiting = FALSE
  /\ external = FALSE /\ bytes = 0 /\ kept = 0
  /\ main = NoOne /\ wait = NoOne
  /\ pc = [t \in Thread |-> "idle"]
  /\ heard = [t \in Thread |-> FALSE]

At(t, place) == pc[t] = place
Go(t, place) == pc' = [pc EXCEPT ![t] = place]

Create ==
  /\ At(Owner, "idle") /\ main = NoOne /\ ~created
  /\ created' = TRUE /\ waiting' = FALSE
  /\ external' \in BOOLEAN
  /\ bytes' = IF external' THEN kept ELSE 0
  /\ UNCHANGED <<kept, main, wait, pc, heard>>

-----------------------------------------------------------------------------
(* WaitForIncomingData.  A second waiter is sent away by waitingfordata.   *)

WaitBegin(t) ==
  /\ At(t, "idle") /\ main = NoOne /\ created /\ ~waiting
  /\ waiting' = TRUE /\ main' = t /\ Go(t, "takeWait")
  /\ UNCHANGED <<created, pipe, wait, heard>>

TakeWait(t) ==
  /\ At(t, "takeWait") /\ wait = NoOne
  /\ wait' = t /\ main' = NoOne /\ Go(t, "select")
  /\ UNCHANGED <<created, waiting, pipe, heard>>

SelectReturns(t, flag) ==
  /\ At(t, "select") /\ Go(t, "relock")
  /\ heard' = [heard EXCEPT ![t] = flag]
  /\ UNCHANGED <<created, waiting, pipe, main, wait>>

WokenByCloseOnly(t) == ~created /\ SelectReturns(t, TRUE)

(* RTPSelect returns because the pipe is readable, or was closed.          *)
Woken(t) == (bytes > 0 \/ ~created) /\ SelectReturns(t, TRUE)

(* Data, the delay, a signal or an error.  A delay below zero never ends.  *)
Expires(t) == SelectReturns(t, FALSE) \/ (bytes > 0 /\ SelectReturns(t, TRUE))

FinishWaitReadingAlways(t) ==
  /\ At(t, "relock") /\ main = NoOne
  /\ waiting' = FALSE /\ bytes' = bytes - 1 /\ Go(t, "unlockWait")
  /\ UNCHANGED <<created, external, kept, main, wait, heard>>

FinishWaitKeepingWait(t) ==
  /\ At(t, "relock") /\ main = NoOne
  /\ waiting' = FALSE
  /\ bytes' = bytes - (IF created /\ heard[t] THEN 1 ELSE 0)
  /\ Go(t, IF created THEN "unlockWait" ELSE "idle")
  /\ UNCHANGED <<created, external, kept, main, wait, heard>>

(* A pipe read on with nothing in it holds both mutexes for good.          *)
FinishWait(t) ==
  /\ At(t, "relock") /\ main = NoOne
  /\ waiting' = FALSE
  /\ IF created /\ heard[t] /\ bytes = 0
     THEN main' = t /\ Go(t, "blocked") /\ UNCHANGED bytes
     ELSE /\ bytes' = bytes - (IF created /\ heard[t] THEN 1 ELSE 0)
          /\ Go(t, "unlockWait") /\ UNCHANGED main
  /\ UNCHANGED <<created, external, kept, wait, heard>>

EndWait(t) ==
  /\ At(t, "unlockWait") /\ wait' = NoOne /\ Go(t, "idle")
  /\ UNCHANGED <<created, waiting, pipe, main, heard>>

-----------------------------------------------------------------------------

AbortWait(t) ==
  /\ At(t, "idle") /\ main = NoOne /\ created /\ waiting /\ bytes < MaxBytes
  /\ bytes' = bytes + 1
  /\ UNCHANGED <<created, waiting, external, kept, main, wait, pc, heard>>

(* The signal to a waiter goes into the pipe, which is closed after that   *)
(* unless it is the application's.                                         *)
PipeAfterDestroy ==
  IF waiting THEN bytes + 1 ELSE bytes

(* Every call is refused on a transmitter that is not created, a second    *)
(* wait while one goes on, and an abort without a wait.                    *)
Refused(t) == At(t, "idle") /\ main = NoOne /\ UNCHANGED waitvars

DestroyHasty ==
  /\ At(Owner, "idle") /\ main = NoOne /\ created /\ bytes < MaxBytes
  /\ created' = FALSE /\ bytes' = PipeAfterDestroy
  /\ kept' = IF external THEN PipeAfterDestroy ELSE kept
  /\ UNCHANGED <<waiting, external, main, wait, pc, heard>>

Destroy ==
  /\ At(Owner, "idle") /\ main = NoOne /\ created /\ bytes < MaxBytes
  /\ created' = FALSE /\ bytes' = PipeAfterDestroy
  /\ kept' = IF external THEN PipeAfterDestroy ELSE kept
  /\ Go(Owner, IF waiting THEN "destroyWait" ELSE "idle")
  /\ UNCHANGED <<waiting, external, main, wait, heard>>

DestroyAwaits ==
  /\ At(Owner, "destroyWait") /\ wait = NoOne /\ Go(Owner, "destroyUnlock")
  /\ UNCHANGED <<created, waiting, pipe, main, wait, heard>>

(* mainmutex was unlocked before the wait and is unlocked here again.      *)
DestroyEnds ==
  /\ At(Owner, "destroyUnlock") /\ main' = NoOne /\ Go(Owner, "idle")
  /\ UNCHANGED <<created, waiting, pipe, wait, heard>>

WaiterStep(t) ==
  WaitBegin(t) \/ TakeWait(t) \/ Woken(t) \/ Expires(t) \/ FinishWait(t)
    \/ EndWait(t) \/ AbortWait(t) \/ Refused(t)

WaitNext ==
  \/ Create \/ Destroy \/ DestroyAwaits \/ DestroyEnds
  \/ \E t \in Thread : WaiterStep(t)

(* Operations go on once begun.  A mutex that is free again and again is   *)
(* obtained in the end; the delay of a wait is not relied on.              *)
WaitFairness ==
  /\ \A t \in Thread :
       /\ SF_waitvars(TakeWait(t)) /\ SF_waitvars(FinishWait(t))
       /\ WF_waitvars(Woken(t)) /\ WF_waitvars(EndWait(t))
  /\ SF_waitvars(DestroyAwaits) /\ WF_waitvars(DestroyEnds)

WaitSpec == WaitInit /\ [][WaitNext]_waitvars
WaitFairSpec == WaitSpec /\ WaitFairness

-----------------------------------------------------------------------------

(* The threads between the first and the last section of a wait.           *)
Waiters == {t \in Thread : pc[t] \in {"takeWait", "select", "relock"}}

(* The abort pipe is read only when a byte is in it: ReadSignallingByte    *)
(* blocks on an empty pipe, and would do so with both mutexes held.  This  *)
(* rests on one waiter at a time and on Destroy waiting for it, or the     *)
(* byte a waiter saw would be taken by another or belong to a pipe that    *)
(* is closed.                                                              *)
ReadsOnlyBytes ==
  /\ \A t \in Thread : ~At(t, "blocked")
  /\ \A t \in Thread : At(t, "relock") /\ heard[t] /\ created => bytes > 0

(* When Destroy is over, no thread is left in select or before the flags   *)
(* that WaitForIncomingData reads after it: the sockets are closed and the *)
(* object may be deleted or created anew.                                  *)
NoWaiterAfterDestroy ==
  ~created /\ At(Owner, "idle") => Waiters = {}

(* The wait as a whole: no read blocks on an empty pipe, and no thread is  *)
(* left inside when Destroy is over.                                       *)
WaitSafe == ReadsOnlyBytes /\ NoWaiterAfterDestroy

(* What the comment in Destroy says: locking waitmutex is "to make sure    *)
(* that the WaitForIncomingData function ended".                           *)
WaitEnded ==
  ~created /\ At(Owner, "idle") =>
    \A t \in Thread : pc[t] \in {"idle", "destroyWait", "destroyUnlock"}

(* A wait that AbortWait or Destroy has signalled ends, whatever delay it  *)
(* was called with.                                                        *)
AbortHeard ==
  \A t \in Thread : (At(t, "select") /\ (bytes > 0 \/ ~created)) ~> At(t, "idle")

(* Destroy returns, though it waits for a waiter that needs mainmutex.     *)
DestroyReturns == At(Owner, "destroyWait") ~> At(Owner, "idle")
=============================================================================
