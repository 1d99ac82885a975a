----------------------------- MODULE MCTransport -----------------------------
(***************************************************************************)
(* The wait of the transmitter and the life of the poll thread.  They      *)
(* share no state at the grain of their modules, so one run checks them    *)
(* side by side: an initial state picks the part that takes the steps, and *)
(* the other keeps still.                                                  *)
(***************************************************************************)
EXTENDS TransmitterWait, PollThread

CONSTANTS t1, t2, t3

VARIABLE part

Init ==
  /\ part \in {"waiters", "poll"}
  /\ WaitInit /\ PollInit

Keep(p, vs) == part # p /\ UNCHANGED vs

Next ==
  /\ UNCHANGED part
  /\ (part = "waiters" /\ WaitNext) \/ Keep("waiters", waitvars)
  /\ (part = "poll" /\ PollNext) \/ Keep("poll", pollvars)

allvars == <<part, waitvars, pollvars>>

Spec ==
  /\ Init /\ [][Next]_allvars
  /\ part = "waiters" => WaitFairness
  /\ part = "poll" => PollFairness

(* The calls that wait for another thread while they are inside Start or   *)
(* Destroy come back.                                                      *)
CallsReturn == DestroyReturns /\ StartReturns
=============================================================================
