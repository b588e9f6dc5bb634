-------------------------- MODULE TimeManagerHistory --------------------------
(***************************************************************************)
(* TimeManager with two history variables: what was promised to each task  *)
(* when it was last primed, and whom the current pass has called so far.   *)
(* The histories never restrict a step, except that a program which is     *)
(* Disciplined clears tmWakeUp before it installs a task, as the Mac       *)
(* documentation asks of it.                                               *)
(***************************************************************************)
EXTENDS TimeManager

CONSTANT Disciplined

ASSUME DisciplineAssumption == Disciplined \in BOOLEAN

VARIABLES
  due,      \* the time for which each task was last primed, counted for the
            \* task itself: its own last due time plus the delay, or the clock
            \* plus the delay
  called    \* the plain tasks this pass has found expired

hvars == <<desc, active, extended, tmWakeUp, clock, pass, due, called>>

HInit == Init /\ due = [t \in Tasks |-> 0] /\ called = {}

OwnDue(t, d) ==
  IF t \in extended /\ t \in tmWakeUp THEN due[t] + d ELSE clock + d

HInsTime(t, x) ==
  /\ Disciplined => Installed(t) \/ t \notin tmWakeUp
  /\ InsTime(t, x)
  /\ UNCHANGED <<due, called>>

HPrimeTime(t, d) ==
  /\ OwnDue(t, d) <= MaxWakeup
  /\ PrimeTime(t, d)
  /\ due' = [due EXCEPT ![t] = OwnDue(t, d)]
  /\ UNCHANGED called

HScanSlot ==
  /\ ScanSlot
  /\ called' = IF Due(pass.i) /\ desc[pass.i].task \notin extended
                 THEN called \cup {desc[pass.i].task} ELSE called
  /\ UNCHANGED due

HTimerInterrupt == TimerInterrupt /\ called' = {} /\ UNCHANGED due

HNext ==
  \/ \E t \in Tasks :
       \/ \E x \in BOOLEAN : HInsTime(t, x)
       \/ RmvTime(t) /\ UNCHANGED <<due, called>>
       \/ \E d \in Delays : HPrimeTime(t, d)
       \/ ClearWakeUp(t) /\ UNCHANGED <<due, called>>
  \/ HScanSlot
  \/ HTimerInterrupt
  \/ (TimerReset \/ HandlerReturns \/ Tick) /\ UNCHANGED <<due, called>>

HHandlerReturns == HandlerReturns /\ UNCHANGED <<due, called>>

HFairness == WF_hvars(HTimerInterrupt) /\ WF_hvars(HScanSlot) /\ WF_hvars(HHandlerReturns)

HSpec == HInit /\ [][HNext]_hvars /\ HFairness

\* A periodic task does not drift and does not inherit a schedule: the wakeup
\* time of a running extended task is the one counted from the task's own last
\* due time (timer.cpp:256, "calculate wakeup time relative to last scheduled
\* time").  The table keeps that time in the slot, which changes hands.
OwnSchedule ==
  \A t \in Tasks : Installed(t) /\ t \in active => Wakeup(t) = due[t]

\* One pass finds a plain task expired at most once, although its handler may
\* re-install and re-prime it into a slot the pass has yet to look at while the
\* clock runs on: a task primed during a pass is due after the pass began.
OncePerPass ==
  pass.pc = "scan" /\ Due(pass.i) /\ desc[pass.i].task \notin extended
    => desc[pass.i].task \notin called
=============================================================================
