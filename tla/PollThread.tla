----------------------------- MODULE PollThread -----------------------------
(***************************************************************************)
(* The life of the poll thread: RTPPollThread::Start, Thread and Stop over *)
(* JThread, with the wait of the transmitter that Stop aborts.             *)
(*                                                                         *)
(* Time is counted in ticks.  A tick passes only while the application and *)
(* every thread waits for something, so each step takes much less than a   *)
(* tick.  The lock sections of TransmitterWait are single steps here.      *)
(***************************************************************************)
EXTENDS Integers, FiniteSets

CONSTANTS
  MaxThreads,  \* bound on the threads ever started
  MaxDelay,    \* the longest RTCP delay a wait is given, in ticks
  MaxWork,     \* the longest time in ProcessPolledData and the callbacks
  StopLimit    \* the five seconds of Stop, in ticks

ASSUME PollThreadAssumption ==
  /\ MaxThreads \in Nat \ {0} /\ MaxDelay \in Nat /\ MaxWork \in Nat
  /\ StopLimit \in Nat

VARIABLES
  app,       \* what the application's thread does
  alive,     \* the transmitter object exists
  attached,  \* RTPPollThread::transmitter is set
  stop,      \* RTPPollThread::stop
  running,   \* JThread::running
  started,   \* how many threads were created
  tpc,       \* where each thread is
  left,      \* ticks until a thread's wait or work is over
  inwait,    \* the transmitter's waitingfordata
  pipebytes, \* bytes in the abort pipe
  sawpipe,   \* the thread saw the pipe readable
  elapsed,   \* ticks spent in Stop
  lost,      \* AbortWait found no waiter
  rounds     \* rounds of the thread in this session, bounded

thread == <<started, tpc, left>>
waitstate == <<inwait, pipebytes, sawpipe>>
pollvars == <<app, alive, attached, stop, running, thread, waitstate, elapsed,
              lost, rounds>>

Threads == 1 .. MaxThreads
MaxRounds == 2
AppPlaces == {"idle", "starting", "handshake", "abort", "polling", "stopped",
              "closing", "destroying"}
ThreadPlaces == {"none", "new", "launched", "first", "loop", "enter", "select",
           "relock", "work", "again", "stopping", "exit", "ended", "crashed"}

PollTypeOK ==
  /\ app \in AppPlaces
  /\ alive \in BOOLEAN /\ attached \in BOOLEAN /\ stop \in BOOLEAN
  /\ running \in BOOLEAN /\ inwait \in BOOLEAN /\ lost \in BOOLEAN
  /\ started \in 0 .. MaxThreads
  /\ tpc \in [Threads -> ThreadPlaces]
  /\ left \in [Threads -> 0 .. MaxDelay + MaxWork]
  /\ pipebytes \in Nat /\ sawpipe \in BOOLEAN
  /\ elapsed \in 0 .. StopLimit + 1
  /\ rounds \in 0 .. MaxRounds

PollInit ==
  /\ app = "idle" /\ alive = FALSE /\ attached = FALSE /\ stop = FALSE
  /\ running = FALSE
  /\ started = 0 /\ tpc = [t \in Threads |-> "none"]
  /\ left = [t \in Threads |-> 0]
  /\ inwait = FALSE /\ pipebytes = 0 /\ sawpipe = FALSE
  /\ elapsed = 0 /\ lost = FALSE /\ rounds = 0

Dead == {"none", "ended", "crashed"}
Live == {t \in Threads : tpc[t] \notin Dead}
Move(t, place) == tpc' = [tpc EXCEPT ![t] = place]

-----------------------------------------------------------------------------
(* Start, and the handshake by which JThread::Start returns only when the  *)
(* new thread is in Thread().                                              *)

Start ==
  /\ app = "idle" /\ ~alive /\ ~running /\ started < MaxThreads
  /\ \A t \in Threads : tpc[t] \in {"none", "ended"}
  /\ alive' = TRUE /\ attached' = TRUE /\ stop' = FALSE
  /\ started' = started + 1 /\ Move(started + 1, "new")
  /\ app' = "starting"
  /\ inwait' = FALSE /\ pipebytes' = 0 /\ sawpipe' = FALSE
  /\ lost' = FALSE /\ rounds' = 0
  /\ UNCHANGED <<running, left, elapsed>>

LaunchUnnoticed(t) ==
  /\ tpc[t] = "new" /\ Move(t, "launched")
  /\ UNCHANGED <<app, alive, attached, stop, running, started, left,
                 waitstate, elapsed, lost, rounds>>

Launch(t) ==
  /\ tpc[t] = "new" /\ running' = TRUE /\ Move(t, "launched")
  /\ UNCHANGED <<app, alive, attached, stop, started, left, waitstate,
                 elapsed, lost, rounds>>

SeesRunning ==
  /\ app = "starting" /\ running /\ app' = "handshake"
  /\ UNCHANGED <<alive, attached, stop, running, thread, waitstate, elapsed,
                 lost, rounds>>

ThreadStarted(t) ==
  /\ tpc[t] = "launched" /\ app = "handshake"
  /\ Move(t, "first") /\ app' = "idle"
  /\ UNCHANGED <<alive, attached, stop, running, started, left, waitstate,
                 elapsed, lost, rounds>>

-----------------------------------------------------------------------------
(* Thread().                                                               *)

(* OnPollThreadStart may refuse.                                           *)
First(t) ==
  /\ tpc[t] = "first"
  /\ \/ Move(t, IF stop THEN "stopping" ELSE "loop")
     \/ Move(t, "stopping")
  /\ UNCHANGED <<app, alive, attached, stop, running, started, left,
                 waitstate, elapsed, lost, rounds>>

GetDelay(t) ==
  /\ tpc[t] = "loop" /\ Move(t, "enter")
  /\ \E d \in 0 .. MaxDelay : left' = [left EXCEPT ![t] = d]
  /\ UNCHANGED <<app, alive, attached, stop, running, started, waitstate,
                 elapsed, lost, rounds>>

(* A thread that Stop has given up on may go through a pointer that Stop   *)
(* has cleared.                                                            *)
EnterWait(t) ==
  /\ tpc[t] = "enter"
  /\ IF alive /\ attached
     THEN /\ Move(t, IF inwait THEN "stopping" ELSE "select")
          /\ inwait' = TRUE
     ELSE Move(t, "crashed") /\ UNCHANGED inwait
  /\ UNCHANGED <<app, alive, attached, stop, running, started, left,
                 pipebytes, sawpipe, elapsed, lost, rounds>>

PollReturns(t) ==
  /\ tpc[t] = "select" /\ Move(t, "relock")
  /\ sawpipe' = (pipebytes > 0)
  /\ UNCHANGED <<app, alive, attached, stop, running, started, left, inwait,
                 pipebytes, elapsed, lost, rounds>>

Data(t) == rounds < MaxRounds /\ PollReturns(t)
Wakes(t) == (pipebytes > 0 \/ left[t] = 0 \/ ~alive) /\ PollReturns(t)

LeaveWaitReadingAlways(t) ==
  /\ tpc[t] = "relock" /\ Move(t, "work")
  /\ inwait' = FALSE /\ pipebytes' = pipebytes - 1
  /\ rounds' = IF rounds < MaxRounds THEN rounds + 1 ELSE rounds
  /\ \E w \in 0 .. MaxWork : left' = [left EXCEPT ![t] = w]
  /\ UNCHANGED <<app, alive, attached, stop, running, started, sawpipe,
                 elapsed, lost>>

LeaveWait(t) ==
  /\ tpc[t] = "relock" /\ Move(t, "work")
  /\ inwait' = FALSE
  /\ pipebytes' = IF alive /\ sawpipe THEN pipebytes - 1 ELSE pipebytes
  /\ rounds' = IF rounds < MaxRounds THEN rounds + 1 ELSE rounds
  /\ \E w \in 0 .. MaxWork : left' = [left EXCEPT ![t] = w]
  /\ UNCHANGED <<app, alive, attached, stop, running, started, sawpipe,
                 elapsed, lost>>

(* Poll, ProcessPolledData and OnPollThreadStep, or an error in one.       *)
Work(t) ==
  /\ tpc[t] = "work" /\ left[t] = 0
  /\ IF alive /\ attached THEN Move(t, "again") \/ Move(t, "stopping")
                          ELSE Move(t, "crashed")
  /\ UNCHANGED <<app, alive, attached, stop, running, started, left,
                 waitstate, elapsed, lost, rounds>>

ReadStop(t) ==
  /\ tpc[t] = "again" /\ Move(t, IF stop THEN "stopping" ELSE "loop")
  /\ UNCHANGED <<app, alive, attached, stop, running, started, left,
                 waitstate, elapsed, lost, rounds>>

OnPollThreadStop(t) ==
  /\ tpc[t] = "stopping" /\ Move(t, "exit")
  /\ UNCHANGED <<app, alive, attached, stop, running, started, left,
                 waitstate, elapsed, lost, rounds>>

ExitUnnoticed(t) ==
  /\ tpc[t] = "exit" /\ Move(t, "ended")
  /\ UNCHANGED <<app, alive, attached, stop, running, started, left,
                 waitstate, elapsed, lost, rounds>>

Exit(t) ==
  /\ tpc[t] = "exit" /\ Move(t, "ended") /\ running' = FALSE
  /\ UNCHANGED <<app, alive, attached, stop, started, left, waitstate,
                 elapsed, lost, rounds>>

-----------------------------------------------------------------------------
(* Stop, called by the destructor that Destroy and BYEDestroy run.         *)

StopUnflagged ==
  /\ app = "idle" /\ alive
  /\ app' = (IF running THEN "abort" ELSE "closing")
  /\ UNCHANGED <<alive, attached, stop, running, thread, waitstate, elapsed,
                 lost, rounds>>

Stop ==
  /\ app = "idle" /\ alive
  /\ IF running THEN stop' = TRUE /\ app' = "abort"
                ELSE app' = "closing" /\ UNCHANGED stop
  /\ UNCHANGED <<alive, attached, running, thread, waitstate, elapsed, lost,
                 rounds>>

StopAbortsUnsent ==
  /\ app = "abort" /\ app' = "polling" /\ elapsed' = 0
  /\ lost' = ~inwait
  /\ UNCHANGED <<alive, attached, stop, running, thread, waitstate, rounds>>

StopAborts ==
  /\ app = "abort" /\ app' = "polling" /\ elapsed' = 0
  /\ lost' = ~inwait
  /\ pipebytes' = IF inwait THEN pipebytes + 1 ELSE pipebytes
  /\ UNCHANGED <<alive, attached, stop, running, thread, inwait, sawpipe,
                 rounds>>

SeesStopped ==
  /\ app = "polling" /\ ~running /\ app' = "stopped"
  /\ UNCHANGED <<alive, attached, stop, running, thread, waitstate, elapsed,
                 lost, rounds>>

(* JThread::Kill only clears the flag here: bionic has no pthread_cancel.  *)
Kill ==
  /\ app = "polling" /\ running /\ elapsed > StopLimit
  /\ running' = FALSE /\ app' = "stopped"
  /\ UNCHANGED <<alive, attached, stop, thread, waitstate, elapsed, lost,
                 rounds>>

Forget ==
  /\ app = "stopped" /\ app' = "closing"
  /\ stop' = FALSE /\ attached' = FALSE
  /\ UNCHANGED <<alive, running, thread, waitstate, elapsed, lost, rounds>>

(* Destroy goes on: the transmitter closes its sockets, which ends a wait  *)
(* that a surviving thread is in, and is deleted.                          *)
Close ==
  /\ app = "closing" /\ app' = IF inwait THEN "destroying" ELSE "idle"
  /\ alive' = FALSE
  /\ UNCHANGED <<attached, stop, running, thread, waitstate, elapsed, lost,
                 rounds>>

CloseEnds ==
  /\ app = "destroying" /\ app' = "idle"
  /\ \A t \in Threads : tpc[t] \notin {"select", "relock"}
  /\ UNCHANGED <<alive, attached, stop, running, thread, waitstate, elapsed,
                 lost, rounds>>

-----------------------------------------------------------------------------

Sleeping(t) ==
  /\ left[t] > 0
  /\ tpc[t] = "work" \/ (tpc[t] = "select" /\ pipebytes = 0 /\ alive)

Tick ==
  /\ app = "polling" \/ (app = "idle" /\ alive)
  /\ Live # {} /\ \A t \in Live : Sleeping(t)
  /\ app = "polling" => running
  /\ left' = [t \in Threads |->
                IF t \in Live /\ Sleeping(t) THEN left[t] - 1 ELSE left[t]]
  /\ elapsed' = IF app = "polling" /\ elapsed <= StopLimit
                THEN elapsed + 1 ELSE elapsed
  /\ UNCHANGED <<app, alive, attached, stop, running, started, tpc, waitstate,
                 lost, rounds>>

ThreadStep(t) ==
  Launch(t) \/ ThreadStarted(t) \/ First(t) \/ GetDelay(t) \/ EnterWait(t)
    \/ Wakes(t) \/ LeaveWait(t) \/ Work(t) \/ ReadStop(t)
    \/ OnPollThreadStop(t) \/ Exit(t)

StopStep ==
  StopAborts \/ SeesStopped \/ Kill \/ Forget \/ Close \/ CloseEnds

PollNext ==
  \/ Start \/ SeesRunning \/ Stop \/ StopStep \/ Tick
  \/ \E t \in Threads : ThreadStep(t) \/ Data(t)

(* The scheduler of the operating system runs every thread, and time goes  *)
(* on.                                                                     *)
PollFairness ==
  /\ \A t \in Threads : WF_pollvars(ThreadStep(t))
  /\ WF_pollvars(SeesRunning) /\ WF_pollvars(StopStep) /\ WF_pollvars(Tick)

PollSpec == PollInit /\ [][PollNext]_pollvars
PollFairSpec == PollSpec /\ PollFairness

-----------------------------------------------------------------------------

(* BYEDestroy: "first, stop the thread so we have full control over all    *)
(* components".  Once Stop has returned no thread is left that could touch *)
(* the session or the transmitter.                                         *)
StopReturned == app \in {"closing", "destroying"} \/ (app = "idle" /\ ~alive)
FullControl == StopReturned => Live = {}

(* A thread survives Stop, to go through a cleared pointer or into the     *)
(* deleted transmitter, only if AbortWait came between its look at the     *)
(* flag and its wait: a signalled wait is never slept through, whatever    *)
(* delay the scheduler gave.                                               *)
SurvivesOnlyIfLost ==
  /\ StopReturned => Live = {} \/ lost
  /\ (\E t \in Threads : tpc[t] = "crashed") => lost

(* IsRunning tells the truth while the session is in use, so that the      *)
(* check in Stop does not skip a thread that is still to run.              *)
RunningTruthful ==
  app \in {"idle", "abort"} /\ alive => (running <=> Live # {})

(* What Stop may rely on: the flag it reads is true to the threads, and it *)
(* leaves a thread behind only if its abort found no wait.                 *)
PollSafe == PollTypeOK /\ RunningTruthful /\ SurvivesOnlyIfLost

(* Start returns, though it waits for the new thread twice.                *)
StartReturns == app = "starting" ~> app = "idle"

(* A thread that is told to stop in time comes to its own end.             *)
StopEndsThread ==
  app = "abort" ~> lost \/ \A t \in Threads : tpc[t] \in {"none", "ended"}
=============================================================================
