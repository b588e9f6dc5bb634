-------------------------- MODULE EmulatorLifecycle --------------------------
(***************************************************************************)
(* How the iOS application starts, stops and restarts the emulator         *)
(* (B2AppDelegate.mm, with B2ViewController.mm and ios_main.mm).  The main *)
(* thread asks for a start, if need be waits until the device is held in   *)
(* landscape, and has the disk snapshots prepared on a background queue,   *)
(* which creates the emulator thread; a block delayed by a second starts   *)
(* it.  The emulator thread initialises everything, lets the Mac run and,  *)
(* when the Mac restarts, tears everything down and begins again, for      *)
(* which it waits until the main thread has the geometry ready.  From the  *)
(* settings the main thread kills the emulator thread and tears down for   *)
(* it.  All of these fields are plain instance variables without a lock.   *)
(*                                                                         *)
(* The tick thread loops for ever once started.  The video setting does    *)
(* not change, and preparing a start takes less than the second by which   *)
(* its thread is delayed.  Start680x0 returns only because the Mac has     *)
(* asked for a restart.                                                    *)
(***************************************************************************)
EXTENDS Naturals

CONSTANTS
  Attempts,    \* bound: attempts to start, with their threads, at the same time
  None,        \* no attempt
  User,        \* the pending completion of startEmulator
  Terminated,  \* the pending completion of a thread that was terminated
  MaxTickers,  \* bound: failed starts stop after this many tick threads
  Setups       \* what is considered: the video setting and what may happen

ASSUME LifecycleAssumption ==
  /\ None \notin Attempts /\ User \notin Attempts \cup {None}
  /\ Terminated \notin Attempts \cup {None, User}
  /\ MaxTickers \in Nat \ {0}
  /\ Setups \subseteq [landscape : BOOLEAN, settings : BOOLEAN, fails : BOOLEAN,
                      terminates : BOOLEAN, restarts : BOOLEAN]

VARIABLES
  setup,            \* one of Setups, for good
  snapshotPreparationInProgress, emulThread, emulMachThread, emulatorRunning,
  tickThread,       \* the object: "nil", "new" or "executing"
  tickers,          \* number of tick threads that execute
  pendingLandscapeStartCompletion,
  modal, upright,   \* settings are presented; the device is not in landscape
  attempt,          \* where each attempt to start is, and then its thread
  tickThreadStarted,\* the threads whose local variable of this name is set
  main,             \* where the main thread is in terminateEmulator
  devices, prefs    \* whether ExitAll has something to exit, PrefsInit was called

app    == <<snapshotPreparationInProgress, emulThread, emulMachThread, emulatorRunning>>
ticks  == <<tickThread, tickers, tickThreadStarted>>
view   == <<pendingLandscapeStartCompletion, modal, upright>>
system == <<devices, prefs>>
vars   == <<app, ticks, view, attempt, main, system>>

Init ==
  /\ setup \in Setups
  /\ snapshotPreparationInProgress = FALSE
  /\ emulThread = None /\ emulMachThread = None /\ emulatorRunning = FALSE
  /\ tickThread = "nil" /\ tickers = 0 /\ tickThreadStarted = {}
  /\ pendingLandscapeStartCompletion = None /\ modal = FALSE /\ upright = TRUE
  /\ attempt = [a \in Attempts |-> "none"]
  /\ main = "idle"
  /\ devices = FALSE /\ prefs = TRUE

At(a, pc) == attempt[a] = pc
Becomes(a, pc) == attempt' = [attempt EXCEPT ![a] = pc]

-----------------------------------------------------------------------------
\* The main thread: starting.

\* Attempts are alike, so it does not matter which of them is the next.
Free == {a \in Attempts : At(a, "none")}
NextAttempt == CHOOSE a \in Free : TRUE

prepareSnapshotsAndStartEmulator ==
  IF emulThread # None \/ snapshotPreparationInProgress
    THEN UNCHANGED <<snapshotPreparationInProgress, attempt>>
    ELSE /\ snapshotPreparationInProgress' = TRUE
         /\ Free # {} /\ Becomes(NextAttempt, "snapshots")

startEmulator ==
  /\ IF emulThread # None \/ snapshotPreparationInProgress
       THEN UNCHANGED <<pendingLandscapeStartCompletion, snapshotPreparationInProgress, attempt>>
       ELSE IF setup.landscape
       THEN /\ pendingLandscapeStartCompletion' = User
            /\ UNCHANGED <<snapshotPreparationInProgress, attempt>>
       ELSE /\ prepareSnapshotsAndStartEmulator
            /\ UNCHANGED pendingLandscapeStartCompletion
  /\ UNCHANGED <<emulThread, emulMachThread, emulatorRunning, ticks, upright, main, system>>

\* The application becomes active with nothing presented.
bootOrShowSettingsIfNeeded ==
  /\ main = "idle"
  /\ ~emulatorRunning /\ ~modal
  /\ startEmulator
  /\ UNCHANGED modal

\* unwindToMainScreen: the settings are closed, which asks for a start.
CloseSettings ==
  /\ main = "idle"
  /\ modal
  /\ modal' = FALSE
  /\ startEmulator

showSettings ==
  /\ main = "idle"
  /\ setup.settings /\ ~modal
  /\ pendingLandscapeStartCompletion' = None
  /\ modal' = TRUE
  /\ UNCHANGED <<app, ticks, upright, attempt, main, system>>

\* Choosing another directory to share initialises the preferences again.
resetFileSharingDirectory ==
  /\ main = "idle"
  /\ modal
  /\ prefs' = TRUE
  /\ UNCHANGED <<app, ticks, view, attempt, main, devices>>

emulatorStartGeometryDidChange ==
  /\ setup.landscape
  /\ main = "idle"
  /\ upright' = ~upright
  /\ UNCHANGED <<app, ticks, pendingLandscapeStartCompletion, modal, attempt, main, system>>

\* checkPendingLandscapeEmulatorStart, as every change of the geometry and a retry
\* while something is presented call it, up to the completion.
completePendingLandscapeEmulatorStart ==
  /\ main = "idle"
  /\ pendingLandscapeStartCompletion # None
  /\ ~modal /\ ~upright
  /\ IF pendingLandscapeStartCompletion = User
       THEN prepareSnapshotsAndStartEmulator
       ELSE /\ IF pendingLandscapeStartCompletion = Terminated
                 THEN UNCHANGED attempt
                 ELSE Becomes(pendingLandscapeStartCompletion, "signalled")
            /\ UNCHANGED snapshotPreparationInProgress
  /\ pendingLandscapeStartCompletion' = None
  /\ UNCHANGED <<emulThread, emulMachThread, emulatorRunning, ticks, modal, upright, main,
                 system>>

\* The block that prepareForEmulatorRestartSynchronously sends to the main queue is the
\* next there.
Queued(a) ==
  \/ At(a, "terminated")
  \/ At(a, "restart") /\ \A b \in Attempts : ~At(b, "terminated")

\* Mutated form: the emulator goes on although the completion is pending.
prepareForEmulatorStartSignals(a) ==
  /\ main = "idle"
  /\ Queued(a)
  /\ pendingLandscapeStartCompletion' =
       IF ~setup.landscape THEN pendingLandscapeStartCompletion
       ELSE IF At(a, "terminated") THEN Terminated ELSE a
  /\ Becomes(a, IF At(a, "terminated") THEN "none" ELSE "signalled")
  /\ UNCHANGED <<app, ticks, modal, upright, main, system>>

\* The block runs, for a thread that was terminated meanwhile too: then the semaphore is
\* nobody's.
prepareForEmulatorStart(a) ==
  /\ main = "idle"
  /\ Queued(a)
  /\ pendingLandscapeStartCompletion' =
       IF ~setup.landscape THEN pendingLandscapeStartCompletion
       ELSE IF At(a, "terminated") THEN Terminated ELSE a
  /\ Becomes(a, IF At(a, "terminated") THEN "none"
                ELSE IF setup.landscape THEN "waiting" ELSE "signalled")
  /\ UNCHANGED <<app, ticks, modal, upright, main, system>>

-----------------------------------------------------------------------------
\* The main thread: terminateEmulator.

\* Mutated form: that the emulator is running is not asked for.
terminateEmulatorAnyTime ==
  /\ main = "idle"
  /\ modal /\ setup.terminates
  /\ emulMachThread # None
  /\ main' = "suspend"
  /\ UNCHANGED <<app, ticks, view, attempt, system>>

terminateEmulator ==
  /\ main = "idle"
  /\ modal /\ setup.terminates
  /\ emulatorRunning /\ emulMachThread # None
  /\ main' = "suspend"
  /\ UNCHANGED <<app, ticks, view, attempt, system>>

\* The thread is gone, wherever it was, but not the block it may have sent to the main
\* queue.
Suspend ==
  /\ main = "suspend"
  /\ Becomes(emulMachThread, IF At(emulMachThread, "restart") THEN "terminated" ELSE "none")
  /\ tickThreadStarted' = tickThreadStarted \ {emulMachThread}
  /\ emulatorRunning' = FALSE
  /\ main' = "quit"
  /\ UNCHANGED <<snapshotPreparationInProgress, emulThread, emulMachThread, tickThread,
                 tickers, view, system>>

\* Mutated form: the preferences are not loaded again.
QuitAndInitOnlyQuits ==
  /\ main = "quit"
  /\ devices' = FALSE /\ prefs' = FALSE
  /\ main' = "forget"
  /\ UNCHANGED <<app, ticks, view, attempt>>

\* QuitEmuNoExit, then initEmulator.
QuitAndInit ==
  /\ main = "quit"
  /\ devices' = FALSE /\ prefs' = TRUE
  /\ main' = "forget"
  /\ UNCHANGED <<app, ticks, view, attempt>>

\* Mutated form: the thread object is kept.
ForgetMachThread ==
  /\ main = "forget"
  /\ emulMachThread' = None
  /\ main' = "idle"
  /\ UNCHANGED <<snapshotPreparationInProgress, emulThread, emulatorRunning, ticks, view,
                 attempt, system>>

Forget ==
  /\ main = "forget"
  /\ emulThread' = None /\ emulMachThread' = None
  /\ main' = "idle"
  /\ UNCHANGED <<snapshotPreparationInProgress, emulatorRunning, ticks, view, attempt, system>>

-----------------------------------------------------------------------------
\* The background queue.

\* ensureSnapshotsForConfiguredVolumes, and then finishSnapshotPreparation, which
\* runs on the same queue.
finishSnapshotPreparation(a) ==
  /\ At(a, "snapshots")
  /\ snapshotPreparationInProgress' = FALSE
  /\ Becomes(a, "prepared") \/ (setup.fails /\ Becomes(a, "none"))
  /\ UNCHANGED <<emulThread, emulMachThread, emulatorRunning, ticks, view, main, system>>

\* startEmulatorAfterSnapshotPreparation tests emulThread ...
BeginStart(a) ==
  /\ At(a, "prepared")
  /\ Becomes(a, IF emulThread = None THEN "extfs" ELSE "none")
  /\ UNCHANGED <<app, ticks, view, main, system>>

\* Mutated form: there is a new tick thread for every start.
CreateThreadsAnew(a) ==
  /\ At(a, "extfs")
  /\ emulThread' = a
  /\ tickThread' = "new"
  /\ Becomes(a, "delayed")
  /\ UNCHANGED <<snapshotPreparationInProgress, emulMachThread, emulatorRunning, tickers,
                 tickThreadStarted, view, main, system>>

\* ... and, once the external file system is set up, creates the threads.
CreateThreads(a) ==
  /\ At(a, "extfs")
  /\ emulThread' = a
  /\ tickThread' = IF tickThread = "nil" THEN "new" ELSE tickThread
  /\ Becomes(a, "delayed")
  /\ UNCHANGED <<snapshotPreparationInProgress, emulMachThread, emulatorRunning, tickers,
                 tickThreadStarted, view, main, system>>

\* Mutated form: the delayed block starts its thread in any case.
DelayedStartAnyway(a) ==
  /\ At(a, "delayed")
  /\ \A b \in Attempts : ~At(b, "extfs")
  /\ Becomes(a, "init")
  /\ emulMachThread' = a
  /\ UNCHANGED <<snapshotPreparationInProgress, emulThread, emulatorRunning, ticks, view,
                 main, system>>

\* A second later: no other attempt is still between its test and its threads.
DelayedStart(a) ==
  /\ At(a, "delayed")
  /\ \A b \in Attempts : ~At(b, "extfs")
  /\ IF emulThread = a
       THEN Becomes(a, "init") /\ emulMachThread' = a
       ELSE Becomes(a, "none") /\ UNCHANGED emulMachThread
  /\ UNCHANGED <<snapshotPreparationInProgress, emulThread, emulatorRunning, ticks, view,
                 main, system>>

-----------------------------------------------------------------------------
\* The emulator thread.

\* A failure calls QuitEmuNoExit.
InitEmulator(a) ==
  /\ At(a, "init")
  /\ \/ /\ devices' = TRUE
        /\ Becomes(a, "initialised")
        /\ UNCHANGED prefs
     \/ /\ setup.fails /\ tickers < MaxTickers
        /\ devices' = FALSE /\ prefs' = FALSE
        /\ Becomes(a, "failed")
  /\ UNCHANGED <<app, ticks, view, main>>

StartFailed(a) ==
  /\ At(a, "failed")
  /\ emulThread' = None
  /\ Becomes(a, "failed_tick")
  /\ UNCHANGED <<snapshotPreparationInProgress, emulMachThread, emulatorRunning, ticks, view,
                 main, system>>

StartFailedTick(a) ==
  /\ At(a, "failed_tick")
  /\ tickThread' = "nil"
  /\ tickThreadStarted' = tickThreadStarted \ {a}
  /\ Becomes(a, "none")
  /\ UNCHANGED <<app, tickers, view, main, system>>

\* The emulator is declared running, and the tick thread started on the first
\* round of the loop unless it executes; a message to nil does nothing.
Run(a) ==
  /\ At(a, "initialised")
  /\ emulatorRunning' = TRUE
  /\ tickThreadStarted' = tickThreadStarted \cup {a}
  /\ IF a \notin tickThreadStarted /\ tickThread = "new"
       THEN tickThread' = "executing" /\ tickers' = tickers + 1
       ELSE UNCHANGED <<tickThread, tickers>>
  /\ Becomes(a, "running")
  /\ UNCHANGED <<snapshotPreparationInProgress, emulThread, emulMachThread, view, main, system>>

\* M68K_EMUL_OP_RESET of a Mac that has started: Start680x0 returns.
MacReset(a) ==
  /\ At(a, "running")
  /\ setup.restarts
  /\ Becomes(a, "returned")
  /\ UNCHANGED <<app, ticks, view, main, system>>

Stopped(a) ==
  /\ At(a, "returned")
  /\ emulatorRunning' = FALSE
  /\ Becomes(a, "quit")
  /\ UNCHANGED <<snapshotPreparationInProgress, emulThread, emulMachThread, ticks, view, main,
                 system>>

\* QuitEmuNoExit, first the devices and the memory, then the preferences.
QuitEmuNoExit(a) ==
  /\ \/ At(a, "quit") /\ devices' = FALSE /\ UNCHANGED prefs /\ Becomes(a, "exit_prefs")
     \/ At(a, "exit_prefs") /\ prefs' = FALSE /\ UNCHANGED devices /\ Becomes(a, "restart")
  /\ UNCHANGED <<app, ticks, view, main>>

\* The semaphore is signalled: initEmulator, and the next round.
initEmulator(a) ==
  /\ At(a, "signalled")
  /\ prefs' = TRUE
  /\ Becomes(a, "init")
  /\ UNCHANGED <<app, ticks, view, main, devices>>

-----------------------------------------------------------------------------
Background(a) ==
  finishSnapshotPreparation(a) \/ BeginStart(a) \/ CreateThreads(a) \/ DelayedStart(a)

Emulator(a) ==
  \/ InitEmulator(a) \/ StartFailed(a) \/ StartFailedTick(a) \/ Run(a)
  \/ Stopped(a) \/ QuitEmuNoExit(a) \/ prepareForEmulatorStart(a) \/ initEmulator(a)

Terminating == Suspend \/ QuitAndInit \/ Forget

UserActs ==
  \/ bootOrShowSettingsIfNeeded \/ showSettings \/ CloseSettings
  \/ emulatorStartGeometryDidChange \/ terminateEmulator \/ resetFileSharingDirectory

Next ==
  /\ \/ UserActs \/ Terminating \/ completePendingLandscapeEmulatorStart
     \/ \E a \in Attempts : Background(a) \/ Emulator(a) \/ MacReset(a)
  /\ UNCHANGED setup

\* Threads and queues go on, the settings are closed in the end, and a user who is
\* asked to rotate the device does so.
Fairness ==
  /\ \A a \in Attempts : WF_vars(Background(a) \/ Emulator(a))
  /\ WF_vars(Terminating)
  /\ WF_vars(CloseSettings) /\ WF_vars(emulatorStartGeometryDidChange)
  /\ SF_vars(completePendingLandscapeEmulatorStart)

Spec == Init /\ [][Next]_<<setup, vars>> /\ Fairness

-----------------------------------------------------------------------------
Places ==
  {"none", "snapshots", "prepared", "extfs", "delayed", "init", "initialised", "running",
   "failed", "failed_tick", "returned", "quit", "exit_prefs", "restart", "waiting",
   "signalled", "terminated"}

\* Besides the types: a thread whose completion is pending is alive and waits for it, so
\* no signal is lost.
TypeOK ==
  /\ setup \in Setups
  /\ snapshotPreparationInProgress \in BOOLEAN /\ emulatorRunning \in BOOLEAN
  /\ emulThread \in Attempts \cup {None} /\ emulMachThread \in Attempts \cup {None}
  /\ tickThread \in {"nil", "new", "executing"} /\ tickers \in Nat
  /\ tickThreadStarted \subseteq Attempts
  /\ pendingLandscapeStartCompletion \in Attempts \cup {User, Terminated, None}
  /\ modal \in BOOLEAN /\ upright \in BOOLEAN
  /\ attempt \in [Attempts -> Places]
  /\ main \in {"idle", "suspend", "quit", "forget"}
  /\ devices \in BOOLEAN /\ prefs \in BOOLEAN
  /\ pendingLandscapeStartCompletion \in Attempts =>
       At(pendingLandscapeStartCompletion, "waiting")

\* No two emulator threads, although several attempts to start can pass the test
\* of emulThread at the same time: the delayed block looks whether its thread is
\* still the one (B2AppDelegate.mm:844).
Alive(a) ==
  attempt[a] \notin {"none", "snapshots", "prepared", "extfs", "delayed", "failed_tick",
                     "terminated"}

OneEmulator == \A a, b \in Attempts : Alive(a) /\ Alive(b) => a = b

\* While an emulator runs exactly one tick thread executes, however often the
\* emulator is terminated, started and restarted: the 60 Hz interrupt comes, and
\* not twice as often.  A failed start makes an exception, as it forgets a thread
\* that goes on (B2AppDelegate.mm:866).
OneTicker ==
  ~setup.fails => \A a \in Attempts : At(a, "running") => tickers = 1

\* The emulator is initialised with the preferences loaded, whoever tore it down.
PrefsLoaded == \A a \in Attempts : At(a, "init") => prefs

\* It is so unless a start has failed, after which QuitEmuNoExit has dropped them.
PrefsReloaded == ~setup.fails => PrefsLoaded

\* terminateEmulator tears down what is up, not what the emulator thread was
\* already tearing down: so far as the Mac does not restart at that moment.
QuitsWhatRuns == main = "quit" /\ ~setup.restarts => devices

\* There is always something left to the user: again and again the emulator either
\* is running, and can be terminated, or has no thread, and can be started.
Controllable == emulatorRunning \/ emulThread = None

NeverStuck == []<>Controllable
=============================================================================
