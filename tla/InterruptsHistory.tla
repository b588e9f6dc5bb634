-------------------------- MODULE InterruptsHistory --------------------------
(***************************************************************************)
(* Interrupts with a history of what other threads have done to the        *)
(* request with which the CPU leaves a routine called by Execute68k.  The  *)
(* history restricts no step.                                              *)
(***************************************************************************)
EXTENDS Interrupts

VARIABLE undone  \* since the routine has ended, a producer's store, of a word it had
                 \* loaded before, has taken SPCFLAG_BRK out of spcflags

hvars == <<setup, vars, undone>>

\* A producer stores over the request.
StoresOver ==
  \E s \in Sources : ppc[s] = "loaded" /\ ppc'[s] = "idle" /\ "BRK" \in spcflags \ preg[s]

HInit == Init /\ undone = FALSE

HNext == Next /\ undone' = (quit_program' /\ (undone \/ StoresOver))

HSpec == HInit /\ [][HNext]_hvars /\ Fairness

-----------------------------------------------------------------------------
\* A routine called by Execute68k is left where it ends, whatever interrupts and
\* nested calls come together there, and with the plain word of the default build:
\* nothing that the CPU thread does makes it run past the end, nor any other thread's
\* update but one that has loaded the word before the end and stores it after
\* (spcflags.h:66).
CallsReturn == undone \/ ReturnsToCaller
=============================================================================
