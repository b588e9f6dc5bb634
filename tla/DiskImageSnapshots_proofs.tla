----------------------- MODULE DiskImageSnapshots_proofs -----------------------
(***************************************************************************)
(* Proofs about the life cycle of the emulator, for any number of attempts *)
(* to start and any settings, and about disk images and snapshots, for any *)
(* volumes and restores.  The inductive invariant of the life cycle says   *)
(* what the fields without a lock are worth: a thread that lives is the    *)
(* one both of them name, and while the main thread tears down none lives. *)
(***************************************************************************)
EXTENDS DiskImageSnapshots, TLAPS

\* Where a thread can be that terminateEmulator suspends: it was running when that
\* was tested.
Up == {"running", "returned", "quit", "exit_prefs", "restart"}

ThreadsOK ==
  /\ \A a \in Attempts : Alive(a) =>
       /\ emulThread = a /\ emulMachThread = a
       /\ \A b \in Attempts : attempt[b] # "extfs"
  /\ emulatorRunning =>
       emulMachThread \in Attempts /\ attempt[emulMachThread] \in {"running", "returned"}
  /\ main = "suspend" => emulMachThread \in Attempts /\ attempt[emulMachThread] \in Up
  /\ main \in {"quit", "forget"} =>
       /\ \A a \in Attempts : ~Alive(a) /\ attempt[a] # "extfs"
       /\ emulThread \in Attempts /\ attempt[emulThread] \in {"none", "terminated"}

\* One tick thread, if no start fails.
TickerOK ==
  ~setup.fails =>
    /\ \A a \in Attempts : attempt[a] \notin {"failed", "failed_tick"}
    /\ tickers = IF tickThread = "executing" THEN 1 ELSE 0
    /\ emulThread # None => tickThread # "nil"
    /\ tickThreadStarted # {} => tickThread = "executing"
    /\ \A a \in Attempts : attempt[a] = "running" => tickThread = "executing"

\* Without preferences is only who loads them before the emulator is initialised.
PrefsOK ==
  ~setup.fails /\ ~prefs =>
    \/ \E a \in Attempts : attempt[a] \in {"restart", "waiting", "signalled"}
    \/ main = "quit"

\* The devices are there from the initialisation to the end, if the Mac does not
\* restart.
DevicesOK ==
  ~setup.restarts =>
    /\ \A a \in Attempts :
         /\ attempt[a] \in {"none", "snapshots", "prepared", "extfs", "delayed", "init",
                            "initialised", "running", "failed", "failed_tick"}
         /\ attempt[a] \in {"initialised", "running"} => devices
    /\ main = "quit" => devices

LifeInv == TypeOK /\ ThreadsOK /\ TickerOK /\ PrefsOK /\ DevicesOK

LEMMA LifeInitInv == Init => LifeInv
<1> SUFFICES ASSUME Init PROVE LifeInv
  OBVIOUS
<1>1. TypeOK
  BY LifecycleAssumption DEF Init, TypeOK, Places, At
<1>2. ThreadsOK /\ TickerOK
  BY DEF Init, ThreadsOK, TickerOK, Alive
<1>3. PrefsOK /\ DevicesOK
  BY DEF Init, PrefsOK, DevicesOK
<1> QED BY <1>1, <1>2, <1>3 DEF LifeInv

\* A start takes an attempt that is free.
LEMMA StartTakesFree ==
  prepareSnapshotsAndStartEmulator =>
    IF emulThread # None \/ snapshotPreparationInProgress
      THEN UNCHANGED <<snapshotPreparationInProgress, attempt>>
      ELSE /\ snapshotPreparationInProgress' = TRUE
           /\ \E a \in Attempts : At(a, "none") /\ Becomes(a, "snapshots")
<1>1. Free # {} => NextAttempt \in Free
  BY DEF NextAttempt
<1> QED BY <1>1 DEF prepareSnapshotsAndStartEmulator, Free

\* In the emulator thread's steps the thread lives, so no other does, and the main
\* thread is not between Suspend and Forget.
LEMMA LifeStep == LifeInv /\ [Next]_<<setup, vars>> => LifeInv'
<1> SUFFICES ASSUME LifeInv, [Next]_<<setup, vars>> PROVE LifeInv'
  OBVIOUS
<1> USE LifecycleAssumption
    DEF LifeInv, TypeOK, ThreadsOK, At, Becomes, Alive, Up, Places,
        app, ticks, view, system, vars
<1>1. CASE UNCHANGED <<setup, vars>>
  BY <1>1 DEF TickerOK, PrefsOK, DevicesOK
<1>2. ASSUME Next PROVE setup' = setup
  BY <1>2 DEF Next
<1>3. ASSUME Next, bootOrShowSettingsIfNeeded PROVE LifeInv'
  <2>1. TypeOK'
    BY ZenonT(40), StartTakesFree, <1>2, <1>3
    DEF bootOrShowSettingsIfNeeded, startEmulator
  <2>2. ThreadsOK'
    BY SMTT(40), StartTakesFree, <1>2, <1>3
    DEF bootOrShowSettingsIfNeeded, startEmulator
  <2>3. TickerOK' /\ PrefsOK' /\ DevicesOK'
    BY StartTakesFree, <1>2, <1>3
    DEF bootOrShowSettingsIfNeeded, startEmulator,
       TickerOK, PrefsOK, DevicesOK
  <2> QED BY <2>1, <2>2, <2>3
<1>4. ASSUME Next, CloseSettings PROVE LifeInv'
  <2>1. TypeOK'
    <3>1. /\ attempt' \in [Attempts -> Places]
          /\ snapshotPreparationInProgress' \in BOOLEAN
          /\ pendingLandscapeStartCompletion' \in Attempts \cup {User, Terminated, None}
      BY StartTakesFree, <1>4 DEF CloseSettings, startEmulator
    <3>2. pendingLandscapeStartCompletion' \in Attempts =>
            attempt'[pendingLandscapeStartCompletion'] = "waiting"
      BY StartTakesFree, <1>4 DEF CloseSettings, startEmulator
    <3>3. /\ modal' = FALSE
          /\ UNCHANGED <<emulThread, emulMachThread, emulatorRunning, ticks, upright, main,
                         system>>
      BY <1>4 DEF CloseSettings, startEmulator
    <3> QED BY ZenonT(40), <3>1, <3>2, <3>3, <1>2
  <2>2. ThreadsOK'
    BY SMTT(40), StartTakesFree, <1>2, <1>4
    DEF CloseSettings, startEmulator
  <2>3. TickerOK' /\ PrefsOK' /\ DevicesOK'
    BY StartTakesFree, <1>2, <1>4
    DEF CloseSettings, startEmulator,
       TickerOK, PrefsOK, DevicesOK
  <2> QED BY <2>1, <2>2, <2>3
<1>5. ASSUME Next, showSettings PROVE LifeInv'
  BY <1>2, <1>5 DEF showSettings, TickerOK, PrefsOK, DevicesOK
<1>6. ASSUME Next, emulatorStartGeometryDidChange PROVE LifeInv'
  BY <1>2, <1>6 DEF emulatorStartGeometryDidChange, TickerOK, PrefsOK, DevicesOK
<1>7. ASSUME Next, terminateEmulator PROVE LifeInv'
  BY <1>2, <1>7 DEF terminateEmulator, TickerOK, PrefsOK, DevicesOK
<1>8. ASSUME Next, resetFileSharingDirectory PROVE LifeInv'
  BY <1>2, <1>8 DEF resetFileSharingDirectory, TickerOK, PrefsOK, DevicesOK
<1>9. ASSUME Next, Suspend PROVE LifeInv'
  <2>1. TypeOK'
    BY ZenonT(40), <1>2, <1>9 DEF Suspend
  <2>2. ThreadsOK'
    BY <1>2, <1>9 DEF Suspend
  <2>3. TickerOK' /\ PrefsOK' /\ DevicesOK'
    BY <1>2, <1>9 DEF Suspend, TickerOK, PrefsOK, DevicesOK
  <2> QED BY <2>1, <2>2, <2>3
<1>10. ASSUME Next, QuitAndInit PROVE LifeInv'
  BY ZenonT(40), <1>2, <1>10 DEF QuitAndInit, TickerOK, PrefsOK, DevicesOK
<1>11. ASSUME Next, Forget PROVE LifeInv'
  <2>1. TypeOK' /\ ThreadsOK'
    BY <1>2, <1>11 DEF Forget
  <2>2. TickerOK' /\ PrefsOK' /\ DevicesOK'
    BY <1>2, <1>11 DEF Forget, TickerOK, PrefsOK, DevicesOK
  <2> QED BY <2>1, <2>2
<1>12. ASSUME Next, completePendingLandscapeEmulatorStart PROVE LifeInv'
  <2>1. TypeOK' /\ ThreadsOK'
    BY ZenonT(40), StartTakesFree, <1>2, <1>12 DEF completePendingLandscapeEmulatorStart
  <2>2. TickerOK' /\ PrefsOK' /\ DevicesOK'
    BY StartTakesFree, <1>2, <1>12 DEF completePendingLandscapeEmulatorStart,
       TickerOK, PrefsOK, DevicesOK
  <2> QED BY <2>1, <2>2
<1>13. ASSUME Next, NEW a \in Attempts, finishSnapshotPreparation(a) PROVE LifeInv'
  <2>1. TypeOK'
    <3>1. attempt' \in [Attempts -> Places]
      BY <1>13 DEF finishSnapshotPreparation
    <3>2. pendingLandscapeStartCompletion' \in Attempts =>
            attempt'[pendingLandscapeStartCompletion'] = "waiting"
      BY <1>13 DEF finishSnapshotPreparation
    <3>3. /\ snapshotPreparationInProgress' \in BOOLEAN
          /\ UNCHANGED <<emulThread, emulMachThread, emulatorRunning, ticks, view, main, system>>
      BY <1>13 DEF finishSnapshotPreparation
    <3> QED BY <3>1, <3>2, <3>3, <1>2
  <2>2. ThreadsOK'
    BY <1>2, <1>13 DEF finishSnapshotPreparation
  <2>3. TickerOK' /\ PrefsOK' /\ DevicesOK'
    BY <1>2, <1>13 DEF finishSnapshotPreparation, TickerOK, PrefsOK, DevicesOK
  <2> QED BY <2>1, <2>2, <2>3
<1>14. ASSUME Next, NEW a \in Attempts, BeginStart(a) PROVE LifeInv'
  <2>1. TypeOK' /\ ThreadsOK'
    BY <1>2, <1>14 DEF BeginStart
  <2>2. TickerOK' /\ PrefsOK' /\ DevicesOK'
    BY <1>2, <1>14 DEF BeginStart, TickerOK, PrefsOK, DevicesOK
  <2> QED BY <2>1, <2>2
<1>15. ASSUME Next, NEW a \in Attempts, CreateThreads(a) PROVE LifeInv'
  <2>1. TypeOK' /\ ThreadsOK'
    BY <1>2, <1>15 DEF CreateThreads
  <2>2. TickerOK' /\ PrefsOK' /\ DevicesOK'
    BY <1>2, <1>15 DEF CreateThreads, TickerOK, PrefsOK, DevicesOK
  <2> QED BY <2>1, <2>2
<1>16. ASSUME Next, NEW a \in Attempts, DelayedStart(a) PROVE LifeInv'
  <2>1. TypeOK' /\ ThreadsOK'
    BY <1>2, <1>16 DEF DelayedStart
  <2>2. TickerOK' /\ PrefsOK' /\ DevicesOK'
    BY <1>2, <1>16 DEF DelayedStart, TickerOK, PrefsOK, DevicesOK
  <2> QED BY <2>1, <2>2
<1>17. ASSUME Next, NEW a \in Attempts, InitEmulator(a) PROVE LifeInv'
  <2>1. TypeOK' /\ ThreadsOK'
    BY ZenonT(40), <1>2, <1>17 DEF InitEmulator
  <2>2. TickerOK' /\ PrefsOK' /\ DevicesOK'
    BY <1>2, <1>17 DEF InitEmulator, TickerOK, PrefsOK, DevicesOK
  <2> QED BY <2>1, <2>2
<1>18. ASSUME Next, NEW a \in Attempts, StartFailed(a) PROVE LifeInv'
  <2>1. TypeOK' /\ ThreadsOK'
    BY <1>2, <1>18 DEF StartFailed
  <2>2. TickerOK' /\ PrefsOK' /\ DevicesOK'
    BY <1>2, <1>18 DEF StartFailed, TickerOK, PrefsOK, DevicesOK
  <2> QED BY <2>1, <2>2
<1>19. ASSUME Next, NEW a \in Attempts, StartFailedTick(a) PROVE LifeInv'
  <2>1. TypeOK' /\ ThreadsOK'
    BY <1>2, <1>19 DEF StartFailedTick
  <2>2. TickerOK' /\ PrefsOK' /\ DevicesOK'
    BY <1>2, <1>19 DEF StartFailedTick, TickerOK, PrefsOK, DevicesOK
  <2> QED BY <2>1, <2>2
<1>20. ASSUME Next, NEW a \in Attempts, Run(a) PROVE LifeInv'
  <2>1. TypeOK' /\ ThreadsOK'
    BY <1>2, <1>20 DEF Run
  <2>2. TickerOK' /\ PrefsOK' /\ DevicesOK'
    BY <1>2, <1>20 DEF Run, TickerOK, PrefsOK, DevicesOK
  <2> QED BY <2>1, <2>2
<1>21. ASSUME Next, NEW a \in Attempts, MacReset(a) PROVE LifeInv'
  <2>1. TypeOK' /\ ThreadsOK'
    BY <1>2, <1>21 DEF MacReset
  <2>2. TickerOK' /\ PrefsOK' /\ DevicesOK'
    BY <1>2, <1>21 DEF MacReset, TickerOK, PrefsOK, DevicesOK
  <2> QED BY <2>1, <2>2
<1>22. ASSUME Next, NEW a \in Attempts, Stopped(a) PROVE LifeInv'
  <2>1. TypeOK'
    <3>1. attempt' \in [Attempts -> Places]
      BY <1>22 DEF Stopped
    <3>2. pendingLandscapeStartCompletion' \in Attempts =>
            attempt'[pendingLandscapeStartCompletion'] = "waiting"
      BY <1>22 DEF Stopped
    <3> HIDE DEF Becomes
    <3> QED BY <3>1, <3>2, <1>2, <1>22 DEF Stopped
  <2>2. ThreadsOK'
    BY <1>2, <1>22 DEF Stopped
  <2>3. TickerOK' /\ PrefsOK' /\ DevicesOK'
    BY <1>2, <1>22 DEF Stopped, TickerOK, PrefsOK, DevicesOK
  <2> QED BY <2>1, <2>2, <2>3
<1>23. ASSUME Next, NEW a \in Attempts, QuitEmuNoExit(a) PROVE LifeInv'
  <2>1. TypeOK'
    <3>1. attempt' \in [Attempts -> Places]
      BY <1>23 DEF QuitEmuNoExit
    <3>2. pendingLandscapeStartCompletion' \in Attempts =>
            attempt'[pendingLandscapeStartCompletion'] = "waiting"
      BY <1>23 DEF QuitEmuNoExit
    <3> HIDE DEF Becomes
    <3> QED BY ZenonT(40), <3>1, <3>2, <1>2, <1>23 DEF QuitEmuNoExit
  <2>2. ThreadsOK'
    BY <1>2, <1>23 DEF QuitEmuNoExit
  <2>3. TickerOK' /\ PrefsOK' /\ DevicesOK'
    BY <1>2, <1>23 DEF QuitEmuNoExit, TickerOK, PrefsOK, DevicesOK
  <2> QED BY <2>1, <2>2, <2>3
<1>24. ASSUME Next, NEW a \in Attempts, prepareForEmulatorStart(a) PROVE LifeInv'
  <2> USE DEF prepareForEmulatorStart, Queued
  <2>1. TypeOK'
    BY <1>2, <1>24
  <2>2. ThreadsOK'
    BY <1>2, <1>24
  <2>3. TickerOK' /\ PrefsOK' /\ DevicesOK'
    BY <1>2, <1>24 DEF TickerOK, PrefsOK, DevicesOK
  <2> QED BY <2>1, <2>2, <2>3
<1>25. ASSUME Next, NEW a \in Attempts, initEmulator(a) PROVE LifeInv'
  <2>1. TypeOK' /\ ThreadsOK'
    BY <1>2, <1>25 DEF initEmulator
  <2>2. TickerOK' /\ PrefsOK' /\ DevicesOK'
    BY <1>2, <1>25 DEF initEmulator, TickerOK, PrefsOK, DevicesOK
  <2> QED BY <2>1, <2>2
<1> QED
  BY <1>1, <1>3, <1>4, <1>5, <1>6, <1>7, <1>8, <1>9, <1>10, <1>11, <1>12, <1>13, <1>14,
     <1>15, <1>16, <1>17, <1>18, <1>19, <1>20, <1>21, <1>22, <1>23, <1>24, <1>25
  DEF Next, UserActs, Terminating, Background, Emulator

\* No two emulator threads, a single ticker, preferences when they are needed, and an
\* emulator to tear down when it is torn down.
LEMMA LifeInvSafe ==
  LifeInv => OneEmulator /\ OneTicker /\ PrefsReloaded /\ QuitsWhatRuns
BY DEF LifeInv, TypeOK, ThreadsOK, TickerOK, PrefsOK, DevicesOK, OneEmulator, OneTicker,
       PrefsReloaded, PrefsLoaded, QuitsWhatRuns, Alive, At

\* Of the application without its disk images: its types; no two emulator threads
\* (B2AppDelegate.mm:844); one tick thread, preferences and something to tear down, each
\* under its condition (B2AppDelegate.mm:866, 760).
THEOREM LifecycleSafe ==
  Spec => [](TypeOK /\ OneEmulator /\ OneTicker /\ PrefsReloaded /\ QuitsWhatRuns)
<1>1. LifeInv => TypeOK
  BY DEF LifeInv
<1> QED BY <1>1, LifeInvSafe, LifeInitInv, LifeStep, PTL DEF Spec
-----------------------------------------------------------------------------
\* A restore that has cloned the snapshot has what the snapshot is.
RestoreOK ==
  \A j \in Jobs :
    /\ job[j].pc = "clone" => job[j].volume \in Volumes
    /\ job[j].pc \in {"remove", "move"} =>
         /\ job[j].volume \in Volumes
         /\ snapshot[job[j].volume] # NoFile
         /\ job[j].temporary = snapshot[job[j].volume]

\* v has a snapshot, or need not have one.
Kept(v) == image[v] # NoFile => snapshot[v] # NoFile

\* An image has its snapshot before an emulator can open it, if volumes are not
\* configured meanwhile.
SnapshotFirst ==
  habit.configures # "any time" =>
    /\ \A a \in Attempts, v \in configured :
         /\ attempt[a] \notin {"none", "snapshots"} => Kept(v)
         /\ attempt[a] = "snapshots" /\ v \notin ensuring[a] => Kept(v)
    /\ \A v \in open : snapshot[v] # NoFile

\* Only an image that has a snapshot is modified, and the snapshot never is.
Unmodified ==
  habit.configures # "any time" =>
    \A v \in Volumes :
      /\ snapshot[v] # NoFile => ~snapshot[v].modified
      /\ image[v] # NoFile /\ snapshot[v] = NoFile => ~image[v].modified

VolumesInv ==
  VolumesTypeOK /\ LifeInv /\ RestoreOK /\ ImageKept /\ SnapshotFirst /\ Unmodified
-----------------------------------------------------------------------------
LEMMA KilledKeepsLife == LifeInv /\ Killed => LifeInv'
<1> SUFFICES ASSUME LifeInv, Killed PROVE LifeInv'
  OBVIOUS
<1>1. TypeOK'
  BY LifecycleAssumption DEF LifeInv, TypeOK, Killed, Places, At
<1>2. ThreadsOK' /\ TickerOK'
  BY DEF Killed, ThreadsOK, TickerOK, Alive
<1>3. PrefsOK' /\ DevicesOK'
  BY DEF Killed, PrefsOK, DevicesOK
<1> QED BY <1>1, <1>2, <1>3 DEF LifeInv

\* To the life cycle a step of the disk images is a step, nothing, or the end of the
\* application.
LEMMA VolumesAndLife ==
  VolumesNext => [Next]_<<setup, vars>> \/ Killed
<1> SUFFICES ASSUME VolumesNext, ~Killed PROVE [Next]_<<setup, vars>>
  OBVIOUS
<1>1. ASSUME NEW v \in Volumes, resetDiskImage(v) PROVE [Next]_<<setup, vars>>
  BY <1>1 DEF resetDiskImage, Next, UserActs
<1>2. ASSUME NEW v \in Volumes,
             createDiskImageWithName(v) \/ deleteDiskImage(v) \/ Sys_write(v)
      PROVE  UNCHANGED <<setup, vars>>
  BY <1>2 DEF createDiskImageWithName, deleteDiskImage, Sys_write
<1>3. ASSUME NEW v \in Volumes, NEW a \in Attempts, ensureSnapshot(a, v)
      PROVE  UNCHANGED <<setup, vars>>
  BY <1>3 DEF ensureSnapshot
<1>4. ASSUME NEW j \in Jobs, Restore(j) PROVE UNCHANGED <<setup, vars>>
  BY <1>4 DEF Restore, RestoreClones, RestoreRemoves, RestoreMoves
<1>5. CASE TerminatedForReset
  BY <1>5 DEF TerminatedForReset
<1>6. CASE Lifecycle
  BY <1>6 DEF Lifecycle
<1> QED BY <1>1, <1>2, <1>3, <1>4, <1>5, <1>6 DEF VolumesNext, VolumesAct

LEMMA VolumesLife == LifeInv /\ [VolumesNext]_volumeVars => LifeInv'
BY VolumesAndLife, KilledKeepsLife, LifeStep DEF volumeVars

\* How a step of the life cycle moves an attempt: those that are past their snapshots
\* were so before, or have just finished them.
LEMMA AttemptMoves ==
  ASSUME LifeInv, Next, NEW a \in Attempts
  PROVE  /\ attempt'[a] = "snapshots" => attempt[a] \in {"none", "snapshots"}
         /\ attempt'[a] \notin {"none", "snapshots"} /\ attempt[a] \in {"none", "snapshots"} =>
              attempt[a] = "snapshots" /\ attempt'[a] = "prepared"
<1> USE DEF LifeInv, TypeOK, At, Becomes
<1>1. CASE UserActs
  BY StartTakesFree, <1>1 DEF UserActs, bootOrShowSettingsIfNeeded, CloseSettings, startEmulator, vars, showSettings, emulatorStartGeometryDidChange,
     terminateEmulator, resetFileSharingDirectory
<1>2. CASE Terminating
  BY <1>2 DEF Terminating, Suspend, QuitAndInit, Forget, ThreadsOK
<1>3. CASE completePendingLandscapeEmulatorStart
  BY StartTakesFree, <1>3 DEF completePendingLandscapeEmulatorStart
<1>4. ASSUME NEW b \in Attempts, Background(b)
      PROVE  /\ \A c \in Attempts \ {b} : attempt'[c] = attempt[c]
             /\ \/ attempt[b] = "snapshots" /\ attempt'[b] = "prepared"
                \/ attempt[b] \notin {"none", "snapshots"} /\ attempt'[b] # "snapshots"
                \/ attempt'[b] = "none"
  BY <1>4 DEF Background, finishSnapshotPreparation, BeginStart, CreateThreads, DelayedStart
<1>5. ASSUME NEW b \in Attempts, Emulator(b) \/ MacReset(b)
      PROVE  /\ \A c \in Attempts \ {b} : attempt'[c] = attempt[c]
             /\ attempt[b] \notin {"none", "snapshots"} /\ attempt'[b] # "snapshots"
  BY <1>5 DEF Emulator, MacReset, InitEmulator, StartFailed, StartFailedTick, Run, Stopped,
     QuitEmuNoExit, prepareForEmulatorStart, Queued, initEmulator
<1> QED BY <1>1, <1>2, <1>3, <1>4, <1>5 DEF Next
-----------------------------------------------------------------------------
\* The devices, and with them the images, are opened by an emulator that is
\* initialised.
LEMMA DevicesOpen ==
  ASSUME LifeInv, Next, ~devices, devices'
  PROVE  \E a \in Attempts : attempt[a] = "init"
<1>1. CASE UserActs
  BY <1>1 DEF UserActs, bootOrShowSettingsIfNeeded, CloseSettings, startEmulator, showSettings,
     emulatorStartGeometryDidChange, terminateEmulator, resetFileSharingDirectory, system
<1>2. CASE Terminating \/ completePendingLandscapeEmulatorStart
  BY <1>2 DEF Terminating, Suspend, QuitAndInit, Forget, completePendingLandscapeEmulatorStart,
     system
<1>3. ASSUME NEW a \in Attempts, Background(a) \/ MacReset(a) PROVE FALSE
  BY <1>3 DEF Background, finishSnapshotPreparation, BeginStart, CreateThreads, DelayedStart,
     MacReset, system
<1>4. ASSUME NEW a \in Attempts, Emulator(a) PROVE attempt[a] = "init"
  BY <1>4 DEF Emulator, InitEmulator, StartFailed, StartFailedTick, Run, Stopped, QuitEmuNoExit,
     prepareForEmulatorStart, initEmulator, system, At
<1> QED BY <1>1, <1>2, <1>3, <1>4 DEF Next

JobType == [pc : {"none", "clone", "remove", "move"},
            volume : Volumes \cup {NoFile}, temporary : File \cup {NoFile}]

LEMMA BoundFact == MaxGeneration \in Nat
BY SnapshotsAssumption

LEMMA FileFacts ==
  /\ NoFile \notin File /\ NoFile \notin Volumes
  /\ \A f \in File : [f EXCEPT !.modified = TRUE] \in File
  /\ \A n \in 1 .. MaxGeneration : [generation |-> n, modified |-> FALSE] \in File
BY SnapshotsAssumption DEF File

Cloning(v) == [pc |-> "clone", volume |-> v, temporary |-> NoFile]

\* A restore takes a job that is free.
LEMMA RestoreTakesFree ==
  \A v : StartRestore(v) =>
    \E j \in Jobs : job[j] = NoJob /\ job' = [job EXCEPT ![j] = Cloning(v)]
<1>1. FreeJobs # {} => NextJob \in FreeJobs
  BY DEF NextJob
<1> QED BY <1>1 DEF StartRestore, FreeJobs, Cloning

LEMMA JobFacts ==
  /\ NoJob \in JobType /\ NoJob.pc = "none"
  /\ \A v : Cloning(v).pc = "clone" /\ Cloning(v).volume = v
  /\ \A v \in Volumes : Cloning(v) \in JobType
  /\ \A v \in Volumes, f \in File :
       [pc |-> "remove", volume |-> v, temporary |-> f] \in JobType
<1>1. NoJob \in JobType /\ NoJob.pc = "none"
  BY DEF NoJob, JobType
<1>2. \A v : Cloning(v).pc = "clone" /\ Cloning(v).volume = v
  BY DEF Cloning
<1>3. \A v \in Volumes : Cloning(v) \in JobType
  BY DEF Cloning, JobType
<1>4. \A v \in Volumes, f \in File :
        [pc |-> "remove", volume |-> v, temporary |-> f] \in JobType
  BY DEF JobType
<1> QED BY <1>1, <1>2, <1>3, <1>4

LEMMA VolumesInitInv == VolumesInit => VolumesInv
<1> SUFFICES ASSUME VolumesInit PROVE VolumesInv
  OBVIOUS
<1>1. LifeInv
  BY LifeInitInv DEF VolumesInit
<1>2. VolumesTypeOK
  <2>1. habit \in Habits /\ configured \subseteq Volumes /\ open \subseteq Volumes
    BY DEF VolumesInit
  <2>2. /\ image \in [Volumes -> File \cup {NoFile}]
        /\ snapshot \in [Volumes -> File \cup {NoFile}]
        /\ ensuring \in [Attempts -> SUBSET Volumes]
        /\ reset \in Volumes \cup {NoFile}
    BY DEF VolumesInit
  <2>3. generation \in [Volumes -> 0 .. MaxGeneration]
    <3>1. 0 \in 0 .. MaxGeneration
      BY BoundFact
    <3> QED BY <3>1 DEF VolumesInit
  <2>4. job \in [Jobs -> JobType]
    BY JobFacts DEF VolumesInit
  <2> QED BY <1>1, <2>1, <2>2, <2>3, <2>4 DEF VolumesTypeOK, JobType, LifeInv
<1>3. RestoreOK /\ ImageKept
  BY DEF VolumesInit, RestoreOK, ImageKept, NoJob
<1>4. SnapshotFirst /\ Unmodified
  BY DEF VolumesInit, Init, SnapshotFirst, Unmodified
<1> QED BY <1>1, <1>2, <1>3, <1>4 DEF VolumesInv

LEMMA VolumesStep == VolumesInv /\ [VolumesNext]_volumeVars => VolumesInv'
<1> SUFFICES ASSUME VolumesInv, [VolumesNext]_volumeVars PROVE VolumesInv'
  OBVIOUS
<1>1. LifeInv'
  BY VolumesLife DEF VolumesInv
<1> USE DEF VolumesInv
<1>2. ASSUME NEW v \in Volumes, createDiskImageWithName(v) PROVE VolumesInv'
  <2>1. generation[v] \in 0 .. MaxGeneration /\ generation[v] < MaxGeneration
    BY <1>2 DEF createDiskImageWithName, VolumesTypeOK
  <2>2. generation' = [generation EXCEPT ![v] = generation[v] + 1]
    BY <1>2 DEF createDiskImageWithName
  <2>3. generation'[v] \in 1 .. MaxGeneration /\ generation' \in [Volumes -> 0 .. MaxGeneration]
    BY <2>1, <2>2, BoundFact DEF VolumesTypeOK
  <2>4. image' \in [Volumes -> File \cup {NoFile}] /\ image'[v] \in File
    BY <1>2, <2>3, FileFacts DEF createDiskImageWithName, VolumesTypeOK
  <2>5. VolumesTypeOK'
    BY <1>2, <1>1, <2>3, <2>4
       DEF createDiskImageWithName, files, restoring, VolumesTypeOK, LifeInv
  <2>6. RestoreOK'
    BY <1>2 DEF createDiskImageWithName, restoring, VolumesTypeOK, RestoreOK
  <2>7. ImageKept'
    BY <1>2, <2>4, FileFacts
       DEF createDiskImageWithName, restoring, VolumesTypeOK, ImageKept
  <2>8. SnapshotFirst'
    <3>1. habit.configures # "any time" => \A a \in Attempts : attempt'[a] = "none"
      BY <1>2 DEF createDiskImageWithName, vars, At
    <3> QED BY <1>2, <3>1 DEF createDiskImageWithName, SnapshotFirst
  <2>9. Unmodified'
    BY <1>2 DEF createDiskImageWithName, restoring, VolumesTypeOK, Unmodified
  <2> QED BY <1>1, <2>5, <2>6, <2>7, <2>8, <2>9
<1>3. ASSUME NEW v \in Volumes, deleteDiskImage(v) PROVE VolumesInv'
  <2>1. VolumesTypeOK'
    BY <1>1, <1>3 DEF deleteDiskImage, restoring, VolumesTypeOK, LifeInv
  <2>2. RestoreOK'
    BY <1>3 DEF deleteDiskImage, restoring, VolumesTypeOK, RestoreOK
  <2>3. ImageKept'
    BY <1>3 DEF deleteDiskImage, restoring, VolumesTypeOK, ImageKept
  <2>4. SnapshotFirst'
    BY <1>3 DEF deleteDiskImage, restoring, vars, VolumesTypeOK, SnapshotFirst, Kept
  <2>5. Unmodified'
    BY <1>3 DEF deleteDiskImage, restoring, VolumesTypeOK, Unmodified
  <2> QED BY <1>1, <2>1, <2>2, <2>3, <2>4, <2>5
<1>4. ASSUME NEW v \in Volumes, resetDiskImage(v) PROVE VolumesInv'
  <2>1. /\ reset' \in Volumes \cup {NoFile}
        /\ \/ job' = job
           \/ \E w \in Volumes, j \in Jobs :
                job[j] = NoJob /\ job' = [job EXCEPT ![j] = Cloning(w)]
    BY <1>4, RestoreTakesFree DEF resetDiskImage, VolumesTypeOK
  <2>2. job' \in [Jobs -> JobType]
    <3>1. job \in [Jobs -> JobType]
      BY DEF VolumesTypeOK, JobType
    <3> QED BY <2>1, <3>1, JobFacts
  <2>3. \A j \in Jobs : job'[j] = job[j] \/
          (job[j].pc = "none" /\ job'[j].pc = "clone" /\ job'[j].volume \in Volumes)
    <3>1. job \in [Jobs -> JobType]
      BY DEF VolumesTypeOK, JobType
    <3> QED BY <2>1, <3>1, JobFacts
  <2>4. VolumesTypeOK'
    BY <1>4, <1>1, <2>1, <2>2 DEF resetDiskImage, files, VolumesTypeOK, LifeInv, JobType
  <2>5. RestoreOK'
    BY <1>4, <2>3 DEF resetDiskImage, files, VolumesTypeOK, RestoreOK
  <2>6. ImageKept'
    BY <1>4, <2>3 DEF resetDiskImage, files, VolumesTypeOK, ImageKept
  <2>7. SnapshotFirst'
    BY <1>4
       DEF resetDiskImage, StartRestore, terminateEmulator, files, vars, VolumesTypeOK,
           SnapshotFirst, Kept
  <2>8. Unmodified'
    BY <1>4
       DEF resetDiskImage, StartRestore, terminateEmulator, files, VolumesTypeOK,
           Unmodified
  <2> QED BY <1>1, <2>4, <2>5, <2>6, <2>7, <2>8
<1>5. ASSUME NEW v \in Volumes, Sys_write(v) PROVE VolumesInv'
  <2>1. image' \in [Volumes -> File \cup {NoFile}] /\ image'[v] \in File
    BY <1>5, FileFacts DEF Sys_write, VolumesTypeOK
  <2>2. VolumesTypeOK'
    BY <1>5, <1>1, <2>1 DEF Sys_write, restoring, VolumesTypeOK, LifeInv
  <2>3. RestoreOK'
    BY <1>5 DEF Sys_write, restoring, VolumesTypeOK, RestoreOK
  <2>4. ImageKept'
    BY <1>5, <2>1, FileFacts DEF Sys_write, restoring, VolumesTypeOK, ImageKept
  <2>5. SnapshotFirst'
    BY <1>5 DEF Sys_write, restoring, vars, VolumesTypeOK, SnapshotFirst, Kept
  <2>6. Unmodified'
    BY <1>5 DEF Sys_write, restoring, VolumesTypeOK, Unmodified, SnapshotFirst
  <2> QED BY <1>1, <2>2, <2>3, <2>4, <2>5, <2>6
<1>6. ASSUME NEW a \in Attempts, NEW v \in Volumes, ensureSnapshot(a, v) PROVE VolumesInv'
  <2>1. VolumesTypeOK'
    BY <1>1, <1>6 DEF ensureSnapshot, restoring, VolumesTypeOK, LifeInv
  <2>2. RestoreOK'
    BY <1>6 DEF ensureSnapshot, restoring, VolumesTypeOK, RestoreOK
  <2>3. ImageKept'
    BY <1>6 DEF ensureSnapshot, restoring, VolumesTypeOK, ImageKept
  <2>4. SnapshotFirst'
    BY <1>6 DEF ensureSnapshot, restoring, vars, VolumesTypeOK, SnapshotFirst, Kept
  <2>5. Unmodified'
    BY <1>6 DEF ensureSnapshot, restoring, VolumesTypeOK, Unmodified
  <2> QED BY <1>1, <2>1, <2>2, <2>3, <2>4, <2>5
<1>7. CASE TerminatedForReset
  <2>1. /\ reset' \in Volumes \cup {NoFile}
        /\ \/ job' = job
           \/ \E w \in Volumes, j \in Jobs :
                job[j] = NoJob /\ job' = [job EXCEPT ![j] = Cloning(w)]
    BY <1>7, RestoreTakesFree DEF TerminatedForReset, VolumesTypeOK
  <2>2. job' \in [Jobs -> JobType]
    <3>1. job \in [Jobs -> JobType]
      BY DEF VolumesTypeOK, JobType
    <3> QED BY <2>1, <3>1, JobFacts
  <2>3. \A j \in Jobs : job'[j] = job[j] \/
          (job[j].pc = "none" /\ job'[j].pc = "clone" /\ job'[j].volume \in Volumes)
    <3>1. job \in [Jobs -> JobType]
      BY DEF VolumesTypeOK, JobType
    <3> QED BY <2>1, <3>1, JobFacts
  <2>4. VolumesTypeOK'
    BY <1>7, <1>1, <2>1, <2>2 DEF TerminatedForReset, files, VolumesTypeOK, LifeInv, JobType
  <2>5. RestoreOK'
    BY <1>7, <2>3 DEF TerminatedForReset, files, VolumesTypeOK, RestoreOK
  <2>6. ImageKept'
    BY <1>7, <2>3 DEF TerminatedForReset, files, VolumesTypeOK, ImageKept
  <2>7. SnapshotFirst'
    BY <1>7
       DEF TerminatedForReset, StartRestore, files, vars, VolumesTypeOK, SnapshotFirst,
           Kept
  <2>8. Unmodified'
    BY <1>7 DEF TerminatedForReset, StartRestore, files, VolumesTypeOK, Unmodified
  <2> QED BY <1>1, <2>4, <2>5, <2>6, <2>7, <2>8
<1>8. ASSUME NEW j \in Jobs, RestoreClones(j) PROVE VolumesInv'
  <2>1. VolumesTypeOK'
    <3>1. \/ job' = [job EXCEPT ![j] = NoJob]
          \/ /\ snapshot[job[j].volume] \in File
             /\ job' = [job EXCEPT ![j] = [pc |-> "remove", volume |-> job[j].volume,
                                          temporary |-> snapshot[job[j].volume]]]
      BY <1>8 DEF RestoreClones, VolumesTypeOK, RestoreOK
    <3>2. job' \in [Jobs -> JobType]
      <4>1. job[j].volume \in Volumes /\ job \in [Jobs -> JobType]
        BY <1>8 DEF RestoreClones, VolumesTypeOK, RestoreOK, JobType
      <4> QED BY <3>1, <4>1, JobFacts
    <3> QED BY <1>8, <1>1, <3>2 DEF RestoreClones, files, VolumesTypeOK, LifeInv, JobType
  <2>2. RestoreOK'
    BY <1>8 DEF RestoreClones, files, VolumesTypeOK, RestoreOK, NoJob
  <2>3. ImageKept'
    BY <1>8 DEF RestoreClones, files, VolumesTypeOK, ImageKept
  <2>4. SnapshotFirst'
    BY <1>8 DEF RestoreClones, files, vars, VolumesTypeOK, SnapshotFirst, Kept
  <2>5. Unmodified'
    BY <1>8 DEF RestoreClones, files, VolumesTypeOK, Unmodified
  <2> QED BY <1>1, <2>1, <2>2, <2>3, <2>4, <2>5
<1>9. ASSUME NEW j \in Jobs, RestoreRemoves(j) PROVE VolumesInv'
  <2>1. VolumesTypeOK'
    BY ZenonT(40), <1>1, <1>9 DEF RestoreRemoves, VolumesTypeOK, LifeInv
  <2>2. RestoreOK'
    BY <1>9 DEF RestoreRemoves, VolumesTypeOK, RestoreOK
  <2>3. ImageKept'
    <3>1. /\ job'[j].pc = "move" /\ job'[j].volume = job[j].volume
          /\ \A i \in Jobs \ {j} : job'[i] = job[i]
      BY <1>9 DEF RestoreRemoves, VolumesTypeOK
    <3> QED BY <1>9, <3>1 DEF RestoreRemoves, VolumesTypeOK, ImageKept, RestoreOK
  <2>4. SnapshotFirst'
    BY <1>9 DEF RestoreRemoves, vars, VolumesTypeOK, SnapshotFirst, Kept
  <2>5. Unmodified'
    BY <1>9 DEF RestoreRemoves, VolumesTypeOK, Unmodified
  <2> QED BY <1>1, <2>1, <2>2, <2>3, <2>4, <2>5
<1>10. ASSUME NEW j \in Jobs, RestoreMoves(j) PROVE VolumesInv'
  <2>1. VolumesTypeOK'
    <3>1. image' \in [Volumes -> File \cup {NoFile}]
      BY <1>10 DEF RestoreMoves, VolumesTypeOK
    <3>2. job' \in [Jobs -> JobType]
      BY <1>10, JobFacts DEF RestoreMoves, VolumesTypeOK, JobType
    <3> QED BY <1>10, <1>1, <3>1, <3>2 DEF RestoreMoves, VolumesTypeOK, LifeInv, JobType
  <2>2. RestoreOK'
    BY <1>10 DEF RestoreMoves, VolumesTypeOK, RestoreOK, NoJob
  <2>3. ImageKept'
    <3>1. image'[job[j].volume] # NoFile
      BY <1>10 DEF RestoreMoves, VolumesTypeOK, RestoreOK
    <3> QED BY <1>10, <3>1 DEF RestoreMoves, VolumesTypeOK, ImageKept, RestoreOK
  <2>4. SnapshotFirst'
    BY <1>10 DEF RestoreMoves, vars, VolumesTypeOK, SnapshotFirst, Kept, RestoreOK
  <2>5. Unmodified'
    BY <1>10 DEF RestoreMoves, VolumesTypeOK, Unmodified, RestoreOK
  <2> QED BY <1>1, <2>1, <2>2, <2>3, <2>4, <2>5
<1>11. CASE Lifecycle
  <2>1. VolumesTypeOK'
    <3>1. ensuring' \in [Attempts -> SUBSET Volumes] /\ open' \subseteq Volumes
      BY <1>11 DEF Lifecycle, VolumesTypeOK, Present
    <3> QED BY <1>11, <1>1, <3>1 DEF Lifecycle, files, restoring, VolumesTypeOK, LifeInv
  <2>2. RestoreOK'
    BY <1>11 DEF Lifecycle, files, restoring, VolumesTypeOK, RestoreOK
  <2>3. ImageKept'
    BY <1>11 DEF Lifecycle, files, restoring, VolumesTypeOK, ImageKept
  <2>4. SnapshotFirst'
    <3> SUFFICES ASSUME habit.configures # "any time" PROVE SnapshotFirst'
      BY <1>11 DEF Lifecycle, SnapshotFirst
    <3>1. ASSUME NEW a \in Attempts, NEW v \in configured
          PROVE  /\ attempt'[a] \notin {"none", "snapshots"} => Kept(v)
                 /\ attempt'[a] = "snapshots" /\ v \notin ensuring'[a] => Kept(v)
      <4>1. CASE attempt[a] = "snapshots"
        BY <1>11, <4>1, AttemptMoves DEF Lifecycle, At, SnapshotFirst
      <4>2. CASE attempt[a] # "snapshots"
        BY <1>11, <4>2, AttemptMoves DEF Lifecycle, At, SnapshotFirst
      <4> QED BY <4>1, <4>2
    <3>2. \A v \in open' : snapshot[v] # NoFile
      <4>1. CASE ~devices /\ devices'
        <5>1. \E a \in Attempts : attempt[a] = "init"
          BY <1>11, <4>1, DevicesOpen DEF Lifecycle
        <5> QED BY <1>11, <4>1, <5>1 DEF Lifecycle, Present, SnapshotFirst, Kept
      <4>2. CASE ~(~devices /\ devices')
        BY <1>11, <4>2 DEF Lifecycle, SnapshotFirst
      <4> QED BY <4>1, <4>2
    <3> QED BY <1>11, <3>1, <3>2 DEF Lifecycle, files, SnapshotFirst, Kept
  <2>5. Unmodified'
    BY <1>11 DEF Lifecycle, files, restoring, VolumesTypeOK, Unmodified
  <2> QED BY <1>1, <2>1, <2>2, <2>3, <2>4, <2>5
<1>12. CASE Killed
  <2>1. VolumesTypeOK'
    <3>1. job' \in [Jobs -> JobType]
      BY <1>12, JobFacts DEF Killed
    <3> QED BY <1>12, <1>1, <3>1 DEF Killed, files, VolumesTypeOK, LifeInv, JobType
  <2>2. RestoreOK'
    BY <1>12 DEF Killed, files, VolumesTypeOK, RestoreOK, NoJob
  <2>3. ImageKept'
    BY <1>12 DEF Killed, files, VolumesTypeOK, ImageKept
  <2>4. SnapshotFirst'
    BY <1>12 DEF Killed, files, VolumesTypeOK, SnapshotFirst, Kept
  <2>5. Unmodified'
    BY <1>12 DEF Killed, files, VolumesTypeOK, Unmodified
  <2> QED BY <1>1, <2>1, <2>2, <2>3, <2>4, <2>5
<1>13. CASE UNCHANGED volumeVars
  <2>1. VolumesTypeOK'
    BY <1>1, <1>13
       DEF volumeVars, vars, files, restoring, volumeState, VolumesTypeOK, LifeInv
  <2>2. RestoreOK'
    BY <1>13 DEF volumeVars, vars, files, restoring, volumeState, VolumesTypeOK, RestoreOK
  <2>3. ImageKept'
    BY <1>13 DEF volumeVars, vars, files, restoring, volumeState, VolumesTypeOK, ImageKept
  <2>4. SnapshotFirst'
    BY <1>13
       DEF volumeVars, vars, files, restoring, volumeState, VolumesTypeOK, SnapshotFirst,
           Kept
  <2>5. Unmodified'
    BY <1>13 DEF volumeVars, vars, files, restoring, volumeState, VolumesTypeOK, Unmodified
  <2> QED BY <1>1, <2>1, <2>2, <2>3, <2>4, <2>5
<1> QED BY <1>2, <1>3, <1>4, <1>5, <1>6, <1>7, <1>8, <1>9, <1>10, <1>11, <1>12, <1>13
    DEF VolumesNext, VolumesAct, Restore

LEMMA VolumesAlways == VolumesSpec => []VolumesInv
BY VolumesInitInv, VolumesStep, PTL DEF VolumesSpec
-----------------------------------------------------------------------------
\* The state has its types: what a restore holds is a file or none, and who ensures
\* snapshots looks at volumes.
THEOREM VolumesTypes == VolumesSpec => []VolumesTypeOK
<1>1. VolumesInv => VolumesTypeOK
  BY DEF VolumesInv
<1> QED BY <1>1, VolumesAlways, PTL

\* However the life cycle, the settings and the disk images interleave, and wherever the
\* application is killed: no two emulator threads, although several attempts to start
\* pass the test of emulThread (B2AppDelegate.mm:844).
THEOREM NoTwoEmulators == VolumesSpec => []OneEmulator
<1>1. VolumesInv => OneEmulator
  BY LifeInvSafe DEF VolumesInv
<1> QED BY <1>1, VolumesAlways, PTL

\* While an emulator runs one tick thread executes, if no start fails
\* (B2AppDelegate.mm:866).
THEOREM NoTwoTickers == VolumesSpec => []OneTicker
<1>1. VolumesInv => OneTicker
  BY LifeInvSafe DEF VolumesInv
<1> QED BY <1>1, VolumesAlways, PTL

\* The emulator is initialised with the preferences loaded, if no start fails
\* (ios_main.mm's QuitEmuNoExit and initEmulator).
THEOREM PrefsAreThere == VolumesSpec => []PrefsReloaded
<1>1. VolumesInv => PrefsReloaded
  BY LifeInvSafe DEF VolumesInv
<1> QED BY <1>1, VolumesAlways, PTL

\* terminateEmulator tears down what is up, if the Mac does not restart
\* (B2AppDelegate.mm:760).
THEOREM TearsDownOnce == VolumesSpec => []QuitsWhatRuns
<1>1. VolumesInv => QuitsWhatRuns
  BY LifeInvSafe DEF VolumesInv
<1> QED BY <1>1, VolumesAlways, PTL

\* No volume loses its data, wherever a restore is and whatever else happens to the image
\* meanwhile (B2DiskImageSnapshots.mm:125).
THEOREM ImagesAreKept == VolumesSpec => []ImageKept
<1>1. VolumesInv => ImageKept
  BY DEF VolumesInv
<1> QED BY <1>1, VolumesAlways, PTL

LEMMA OnlyOne == \A n \in 1 .. 1 : n = 1
OBVIOUS

\* While no name is used twice, a reset gives the image of its first use, if volumes are
\* configured only while nothing starts or runs (B2DiskImageSnapshots.mm:84).
THEOREM SnapshotsAreOriginal ==
  ASSUME MaxGeneration = 1
  PROVE  VolumesSpec => []SnapshotIsOriginal
<1>1. VolumesInv => SnapshotIsOriginal
  <2> SUFFICES ASSUME VolumesInv, habit.configures # "any time",
                      NEW v \in Volumes, image[v] # NoFile, snapshot[v] # NoFile
               PROVE  snapshot[v] = [generation |-> image[v].generation, modified |-> FALSE]
    BY DEF SnapshotIsOriginal, ResetToFirstUse
  <2>1. image[v] \in File /\ snapshot[v] \in File
    BY DEF VolumesInv, VolumesTypeOK
  <2>2. image[v].generation = 1 /\ snapshot[v].generation = 1
    BY <2>1, OnlyOne, MaxGeneration = 1 DEF File
  <2>3. snapshot[v].modified = FALSE
    <3>1. ~snapshot[v].modified /\ snapshot[v].modified \in BOOLEAN
      BY <2>1 DEF VolumesInv, Unmodified, File
    <3> QED BY <3>1
  <2>4. snapshot[v] = [generation |-> snapshot[v].generation, modified |-> snapshot[v].modified]
    BY <2>1 DEF File
  <2> QED BY <2>2, <2>3, <2>4
<1> QED BY <1>1, VolumesAlways, PTL
=============================================================================
