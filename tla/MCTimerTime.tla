----------------------------- MODULE MCTimerTime -----------------------------
(***************************************************************************)
(* TimerTime with 3 for 1000 and a 6-bit word, so that the Mac times cover *)
(* 31 microseconds (three seconds) and 31 milliseconds (ten seconds).      *)
(***************************************************************************)
EXTENDS TimerTime
=============================================================================
