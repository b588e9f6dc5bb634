----------------------------- MODULE TimeManager -----------------------------
(***************************************************************************)
(* The Time Manager replacement of BasiliskII/src/timer.cpp.               *)
(*                                                                         *)
(* A Mac program owns a TMTask record in emulated memory; the emulator     *)
(* keeps one descriptor (a slot of `desc') for each installed task.  The   *)
(* emulator thread runs everything: the program's InsTime, RmvTime and     *)
(* PrimeTime traps and, inside the 60Hz interrupt, TimerInterrupt.  The    *)
(* one source of interleaving is the callback: TimerInterrupt calls the    *)
(* program's handler with Execute68k in the middle of its scan of the      *)
(* table, and the handler may call the three traps on any task before it   *)
(* returns.  Times are whole units of the host clock; their representation *)
(* as (seconds, nanoseconds) and the Mac encoding are module TimerTime.    *)
(***************************************************************************)
EXTENDS Integers, FiniteSets

CONSTANTS
  Tasks,        \* addresses of the TMTask records the program uses
  Handled,      \* those whose tmAddr is not 0, so that there is code to call
  NumDescs,     \* NUM_DESCS, the size of the table
  NoTask,       \* the `task' field of a descriptor that was never used
  Delays,       \* the delays, in clock units, the program passes to PrimeTime
  MaxTime,      \* bound: the clock stops here
  MaxWakeup     \* bound: no wakeup time is later than this

ASSUME TimeManagerAssumption ==
  /\ IsFiniteSet(Tasks)
  /\ Handled \subseteq Tasks
  /\ NumDescs \in Nat \ {0}
  /\ NoTask \notin Tasks
  /\ Delays \subseteq Nat
  /\ MaxTime \in Nat
  /\ MaxWakeup \in Nat

VARIABLES
  desc,         \* the descriptor table
  active,       \* tasks with bit 0x8000 of qType set
  extended,     \* tasks with bit 0x4000 of qType set (installed by InsXTime)
  tmWakeUp,     \* tasks whose tmWakeUp field is not 0
  clock,        \* the host clock
  pass          \* the activation of TimerInterrupt, if one is in progress

vars == <<desc, active, extended, tmWakeUp, clock, pass>>

Slots == 1 .. NumDescs

\* Where TimerInterrupt is: not running, about to look at slot i of the table,
\* or in the handler of the task it found at slot i.  `now' is its local.
NoPass == [pc |-> "idle", i |-> 0, now |-> 0]

First(S) == CHOOSE i \in S : \A j \in S : i <= j

SlotsOf(t) == {i \in Slots : desc[i].in_use /\ desc[i].task = t}
FreeSlots  == {i \in Slots : ~desc[i].in_use}

Installed(t) == SlotsOf(t) # {}
find_desc(t) == First(SlotsOf(t))
Wakeup(t)    == desc[find_desc(t)].wakeup

alloc_desc(t) ==
  desc' = IF FreeSlots = {} THEN desc
          ELSE [desc EXCEPT ![First(FreeSlots)] = [@ EXCEPT !.task = t, !.in_use = TRUE]]

free_desc(i) == desc' = [desc EXCEPT ![i].in_use = FALSE]

-----------------------------------------------------------------------------
Init ==
  /\ desc = [i \in Slots |-> [task |-> NoTask, wakeup |-> 0, in_use |-> FALSE]]
  /\ active = {} /\ extended = {} /\ tmWakeUp = {}
  /\ clock = 0
  /\ pass = NoPass

\* 68k code runs outside of TimerInterrupt, or in a handler it calls.
ProgramRuns == pass.pc \in {"idle", "call"}

\* Mutated form: the search for an existing descriptor is dropped.
InsTimeNoSearch(t, x) ==
  /\ ProgramRuns
  /\ active' = active \ {t}
  /\ extended' = IF x THEN extended \cup {t} ELSE extended \ {t}
  /\ alloc_desc(t)
  /\ UNCHANGED <<tmWakeUp, clock, pass>>

\* Mutated form: the type bits are replaced with the mask 0x9fff, which leaves
\* the active bit of an earlier installation set.
InsTimeKeepsActive(t, x) ==
  /\ ProgramRuns
  /\ extended' = IF x THEN extended \cup {t} ELSE extended \ {t}
  /\ IF Installed(t) THEN UNCHANGED desc ELSE alloc_desc(t)
  /\ UNCHANGED <<active, tmWakeUp, clock, pass>>

\* InsTime (x = FALSE) and InsXTime (x = TRUE).  The trap number overwrites the
\* type bits, which also clears the active bit of a task that is re-inserted.
\* It returns 0 whether or not a descriptor was found.
InsTime(t, x) ==
  /\ ProgramRuns
  /\ active' = active \ {t}
  /\ extended' = IF x THEN extended \cup {t} ELSE extended \ {t}
  /\ IF Installed(t) THEN UNCHANGED desc ELSE alloc_desc(t)
  /\ UNCHANGED <<tmWakeUp, clock, pass>>

RmvTime(t) ==
  /\ ProgramRuns
  /\ Installed(t)
  /\ active' = active \ {t}
  /\ free_desc(find_desc(t))
  /\ UNCHANGED <<extended, tmWakeUp, clock, pass>>

\* Mutated form: the wakeup time is always counted from the current time.
PrimedWakeupDrifts(t, d) == clock + d

\* The wakeup time of an extended task that was scheduled before is counted
\* from its last wakeup time, so that a periodic task does not drift.
PrimedWakeup(t, d) ==
  IF t \in extended /\ t \in tmWakeUp THEN Wakeup(t) + d ELSE clock + d

PrimeTime(t, d) ==
  /\ ProgramRuns
  /\ Installed(t)
  /\ PrimedWakeup(t, d) <= MaxWakeup
  /\ desc' = [desc EXCEPT ![find_desc(t)].wakeup = PrimedWakeup(t, d)]
  /\ tmWakeUp' = IF t \in extended THEN tmWakeUp \cup {t} ELSE tmWakeUp
  /\ active' = active \cup {t}
  /\ UNCHANGED <<extended, clock, pass>>

\* The program stores 0 in the tmWakeUp field of a record it owns.
ClearWakeUp(t) ==
  /\ ProgramRuns
  /\ tmWakeUp' = tmWakeUp \ {t}
  /\ UNCHANGED <<desc, active, extended, clock, pass>>

\* The Mac is reset.  The records stay as they are in memory.
TimerReset ==
  /\ pass.pc = "idle"
  /\ desc' = [i \in Slots |-> [desc[i] EXCEPT !.in_use = FALSE]]
  /\ UNCHANGED <<active, extended, tmWakeUp, clock, pass>>

-----------------------------------------------------------------------------
\* Mutated forms: the loop runs one round too many, or one too few.
NextSlotPastEnd == IF pass.i <= NumDescs
                     THEN [pass EXCEPT !.pc = "scan", !.i = @ + 1]
                     ELSE NoPass

NextSlotSkipsLast == IF pass.i < NumDescs - 1
                       THEN [pass EXCEPT !.pc = "scan", !.i = @ + 1]
                       ELSE NoPass

NextSlot == IF pass.i < NumDescs
              THEN [pass EXCEPT !.pc = "scan", !.i = @ + 1]
              ELSE NoPass

\* Mutated form: the clock is read for each slot and not once for the pass.
DueByClock(i) ==
  /\ desc[i].in_use
  /\ desc[i].task \in active
  /\ desc[i].wakeup < clock

Due(i) ==
  /\ desc[i].in_use
  /\ desc[i].task \in active
  /\ desc[i].wakeup < pass.now

TimerInterrupt ==
  /\ pass.pc = "idle"
  /\ pass' = [pc |-> "scan", i |-> 1, now |-> clock]
  /\ UNCHANGED <<desc, active, extended, tmWakeUp, clock>>

\* One round of the loop: an expired task becomes inactive and, if it has a
\* handler, the handler is called.
ScanSlot ==
  /\ pass.pc = "scan"
  /\ IF Due(pass.i)
       THEN LET t == desc[pass.i].task IN
            /\ active' = active \ {t}
            /\ pass' = IF t \in Handled THEN [pass EXCEPT !.pc = "call"]
                                        ELSE NextSlot
       ELSE /\ pass' = NextSlot
            /\ UNCHANGED active
  /\ UNCHANGED <<desc, extended, tmWakeUp, clock>>

HandlerReturns ==
  /\ pass.pc = "call"
  /\ pass' = NextSlot
  /\ UNCHANGED <<desc, active, extended, tmWakeUp, clock>>

Tick ==
  /\ clock < MaxTime
  /\ clock' = clock + 1
  /\ UNCHANGED <<desc, active, extended, tmWakeUp, pass>>

Program ==
  \E t \in Tasks :
     \/ \E x \in BOOLEAN : InsTime(t, x)
     \/ RmvTime(t)
     \/ \E d \in Delays : PrimeTime(t, d)
     \/ ClearWakeUp(t)

Next ==
  \/ Program
  \/ TimerReset
  \/ TimerInterrupt
  \/ ScanSlot
  \/ HandlerReturns
  \/ Tick

\* The tick thread interrupts the emulator again and again, the loop advances
\* as long as the emulator thread runs, and a handler is expected to return.
Fairness == WF_vars(TimerInterrupt) /\ WF_vars(ScanSlot) /\ WF_vars(HandlerReturns)

Spec == Init /\ [][Next]_vars /\ Fairness
-----------------------------------------------------------------------------
TypeOK ==
  /\ desc \in [Slots -> [task : Tasks \cup {NoTask}, wakeup : Nat, in_use : BOOLEAN]]
  /\ \A i \in Slots : desc[i].in_use => desc[i].task \in Tasks
  /\ active \subseteq Tasks /\ extended \subseteq Tasks /\ tmWakeUp \subseteq Tasks
  /\ clock \in Nat
  /\ pass \in [pc : {"idle", "scan", "call"}, i : 0 .. NumDescs, now : Nat]
  /\ pass.pc # "idle" => pass.i \in Slots
  /\ pass.now <= clock

\* However installs, removals and handlers are interleaved, a task never has two
\* descriptors: find_desc, which returns the first, cannot leave a second one
\* behind that keeps firing after RmvTime (timer.cpp, InsTime and free_desc).
UniqueDesc ==
  \A i, j \in Slots :
     desc[i].in_use /\ desc[j].in_use /\ desc[i].task = desc[j].task => i = j

Expired(t) == Installed(t) /\ t \in active /\ Wakeup(t) < clock

\* A task whose time has come is dealt with: some pass of TimerInterrupt makes
\* it inactive, or the program cancels or re-primes it first.  Handlers that
\* move tasks between slots in the middle of the scan must not hide one forever.
ExpiredIsServed == \A t \in Tasks : Expired(t) ~> ~Expired(t)

\* The table implements one independent deadline per installed task.
InstalledTasks == {t \in Tasks : Installed(t)}
Deadlines == [t \in Tasks |-> IF Installed(t) /\ t \in active THEN Wakeup(t) ELSE -1]

Abs == INSTANCE Timers WITH
         Tasks <- Tasks, Capacity <- NumDescs, Times <- 0 .. MaxWakeup,
         installed <- InstalledTasks, deadline <- Deadlines, clock <- clock

\* Every step of the Time Manager is a step of Timers or changes nothing there.
ImplementsTimers == Abs!Spec
=============================================================================
