------------------------------- MODULE Timing -------------------------------
(***************************************************************************)
(* The times that RTMP messages and RTCP reports go by.  The chunks, the   *)
(* timer of the reports and what the reports say share no state.           *)
(***************************************************************************)
EXTENDS RtmpChunks, RTCPScheduler, ReceptionReport

(* RTMP messages come with the times they were sent with, RTCP reports     *)
(* keep the intervals that RFC 3550 wants between them, and tell what was  *)
(* lost and how long things took.                                          *)
TimesKept == TimesCarried /\ SchedulerSound /\ ReportsSound
=============================================================================
