---------------------------- MODULE MCTimeManager ----------------------------
(***************************************************************************)
(* TimeManager, with its histories, on a table of two slots.               *)
(***************************************************************************)
EXTENDS TimeManagerHistory

CONSTANTS t1, t2

MCTasks == {t1, t2}
MCHandled == {t1}
MCDelays == {0, 1}
=============================================================================
