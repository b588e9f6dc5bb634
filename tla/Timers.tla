-------------------------------- MODULE Timers --------------------------------
(***************************************************************************)
(* What a Mac program relies on when it uses the Time Manager: each task   *)
(* it installed has its own deadline or none, an operation on one task     *)
(* leaves the deadlines of the others alone, and a task's handler is due   *)
(* only once its deadline has passed.  TimeManager implements this with a  *)
(* table whose slots are reused and whose scan runs the program's own code *)
(* between two slots.                                                      *)
(***************************************************************************)
EXTENDS Integers, FiniteSets

CONSTANTS
  Tasks,      \* the timer tasks
  Capacity,   \* how many can be installed at a time
  Times       \* the deadlines that can be set

VARIABLES
  installed,  \* the tasks that are installed
  deadline,   \* when each task is due, or Never
  clock

vars == <<installed, deadline, clock>>

Never == -1

Init ==
  /\ installed = {}
  /\ deadline = [t \in Tasks |-> Never]
  /\ clock = 0

\* Installing disarms the task.  It can fail, and fails silently, only when
\* Capacity other tasks are installed.
Install(t) ==
  /\ installed' = IF t \in installed \/ Cardinality(installed) < Capacity
                    THEN installed \cup {t} ELSE installed
  /\ deadline' = [deadline EXCEPT ![t] = Never]
  /\ UNCHANGED clock

Remove(t) ==
  /\ installed' = installed \ {t}
  /\ deadline' = [deadline EXCEPT ![t] = Never]
  /\ UNCHANGED clock

Prime(t, w) ==
  /\ t \in installed
  /\ deadline' = [deadline EXCEPT ![t] = w]
  /\ UNCHANGED <<installed, clock>>

Expire(t) ==
  /\ deadline[t] # Never
  /\ deadline[t] < clock
  /\ deadline' = [deadline EXCEPT ![t] = Never]
  /\ UNCHANGED <<installed, clock>>

Reset ==
  /\ installed' = {}
  /\ deadline' = [t \in Tasks |-> Never]
  /\ UNCHANGED clock

Tick ==
  /\ clock' = clock + 1
  /\ UNCHANGED <<installed, deadline>>

Next ==
  \/ \E t \in Tasks :
       \/ Install(t)
       \/ Remove(t)
       \/ \E w \in Times : Prime(t, w)
       \/ Expire(t)
  \/ Reset
  \/ Tick

Spec == Init /\ [][Next]_vars
=============================================================================
