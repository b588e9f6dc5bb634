-------------------------- MODULE DiskImageSnapshots --------------------------
(***************************************************************************)
(* Disk images and their snapshots (B2DiskImageSnapshots.mm), with the     *)
(* life cycle of the emulator that writes to the images and the settings   *)
(* that create, delete and reset them (B2VolumesSettingsViewController.m). *)
(* Before a start a background queue clones the image of every volume that *)
(* has no snapshot yet.  A reset terminates the emulator and then, on a    *)
(* concurrent queue, clones the snapshot to a temporary file, removes the  *)
(* image and moves the temporary file to its place.  The emulator opens    *)
(* the images that are configured whenever it is initialised, thus also    *)
(* when the Mac restarts.  iOS may kill the application at any time.       *)
(*                                                                         *)
(* Cloning, removing and moving a file are atomic and succeed if their     *)
(* source is there and their destination is not, and so do the test        *)
(* whether there is a snapshot and the clone that follows it.  Images are  *)
(* created in the settings, in the documents directory.                    *)
(***************************************************************************)
EXTENDS EmulatorLifecycle

CONSTANTS
  Volumes,
  Jobs,           \* bound: restores at the same time
  MaxGeneration,  \* bound: images created with one name
  NoFile,
  Habits,         \* what the user and iOS do
  Uses            \* which setups and habits are considered together

ASSUME SnapshotsAssumption ==
  /\ MaxGeneration \in Nat
  /\ NoFile \notin [generation : 1 .. MaxGeneration, modified : BOOLEAN] \cup Volumes
  /\ Habits \subseteq [configures : {"never", "before a start", "any time"},
                       deletes : BOOLEAN, resets : BOOLEAN, killed : BOOLEAN]
  /\ Uses \subseteq Setups \X Habits

VARIABLES
  habit,      \* one of Habits, for good
  image,      \* what the image file of a volume contains
  snapshot,   \* what its snapshot contains
  generation, \* how many images have been created with the name
  configured, \* volumes in the user defaults
  ensuring,   \* volumes an attempt to start has yet to look at
  open,       \* volumes whose image file is open; a file that is removed does not count
  reset,      \* the volume to be restored when the emulator is terminated
  job         \* where each restore is

files       == <<image, snapshot, generation, configured>>
restoring   == <<reset, job>>
volumeState == <<files, ensuring, open, restoring>>
volumeVars  == <<setup, vars, habit, volumeState>>

NoJob == [pc |-> "none", volume |-> NoFile, temporary |-> NoFile]

VolumesInit ==
  /\ Init
  /\ habit \in Habits /\ <<setup, habit>> \in Uses
  /\ image = [v \in Volumes |-> NoFile] /\ snapshot = [v \in Volumes |-> NoFile]
  /\ generation = [v \in Volumes |-> 0] /\ configured = {}
  /\ ensuring = [a \in Attempts |-> {}] /\ open = {}
  /\ reset = NoFile /\ job = [j \in Jobs |-> NoJob]

Idle == main = "idle" /\ modal

-----------------------------------------------------------------------------
\* The settings.

createDiskImageWithName(v) ==
  /\ Idle
  /\ \/ habit.configures = "any time"
     \/ habit.configures = "before a start" /\ \A a \in Attempts : At(a, "none")
  /\ image[v] = NoFile /\ generation[v] < MaxGeneration
  /\ generation' = [generation EXCEPT ![v] = @ + 1]
  /\ image' = [image EXCEPT ![v] = [generation |-> generation'[v], modified |-> FALSE]]
  /\ configured' = configured \cup {v}
  /\ UNCHANGED <<setup, vars, habit, snapshot, ensuring, open, restoring>>

\* The snapshot stays.
deleteDiskImage(v) ==
  /\ Idle /\ habit.deletes
  /\ v \in configured
  /\ image' = [image EXCEPT ![v] = NoFile]
  /\ configured' = configured \ {v}
  /\ open' = open \ {v}
  /\ UNCHANGED <<setup, vars, habit, snapshot, generation, ensuring, restoring>>

FreeJobs == {j \in Jobs : job[j] = NoJob}
NextJob == CHOOSE j \in FreeJobs : TRUE

StartRestore(v) ==
  /\ FreeJobs # {}
  /\ job' = [job EXCEPT ![NextJob] = [pc |-> "clone", volume |-> v, temporary |-> NoFile]]

\* resetDiskImage: an emulator that runs is terminated first.
resetDiskImage(v) ==
  /\ Idle /\ habit.resets
  /\ v \in configured /\ snapshot[v] # NoFile
  /\ IF emulatorRunning /\ emulMachThread # None
       THEN terminateEmulator /\ reset' = v /\ UNCHANGED job
       ELSE StartRestore(v) /\ UNCHANGED <<vars, reset>>
  /\ UNCHANGED <<setup, habit, files, ensuring, open>>

\* ... and then terminateEmulator returns.
TerminatedForReset ==
  /\ main = "idle" /\ reset # NoFile
  /\ StartRestore(reset)
  /\ reset' = NoFile
  /\ UNCHANGED <<setup, vars, habit, files, ensuring, open>>

-----------------------------------------------------------------------------
\* restoreSnapshotForVolumePath, on the concurrent queue.

\* Mutated form: the snapshot is moved, not cloned.
RestoreMovesSnapshot(j) ==
  /\ job[j].pc = "clone"
  /\ LET v == job[j].volume IN
     /\ job' = [job EXCEPT ![j] =
          IF snapshot[v] = NoFile THEN NoJob
          ELSE [pc |-> "remove", volume |-> v, temporary |-> snapshot[v]]]
     /\ snapshot' = [snapshot EXCEPT ![v] = NoFile]
  /\ UNCHANGED <<setup, vars, habit, image, generation, configured, ensuring, open, reset>>

RestoreClones(j) ==
  /\ job[j].pc = "clone"
  /\ LET v == job[j].volume IN
     job' = [job EXCEPT ![j] =
       IF snapshot[v] = NoFile THEN NoJob
       ELSE [pc |-> "remove", volume |-> v, temporary |-> snapshot[v]]]
  /\ UNCHANGED <<setup, vars, habit, files, ensuring, open, reset>>

RestoreRemoves(j) ==
  /\ job[j].pc = "remove"
  /\ image' = [image EXCEPT ![job[j].volume] = NoFile]
  /\ open' = open \ {job[j].volume}
  /\ job' = [job EXCEPT ![j].pc = "move"]
  /\ UNCHANGED <<setup, vars, habit, snapshot, generation, configured, ensuring, reset>>

\* If there is an image again, another restore or the user was faster.
RestoreMoves(j) ==
  /\ job[j].pc = "move"
  /\ image' = [image EXCEPT ![job[j].volume] = IF @ = NoFile THEN job[j].temporary ELSE @]
  /\ job' = [job EXCEPT ![j] = NoJob]
  /\ UNCHANGED <<setup, vars, habit, snapshot, generation, configured, ensuring, open, reset>>

Restore(j) == RestoreClones(j) \/ RestoreRemoves(j) \/ RestoreMoves(j)

-----------------------------------------------------------------------------
\* Mutated form: every start takes a new snapshot.
ensureSnapshotAnew(a, v) ==
  /\ At(a, "snapshots") /\ v \in ensuring[a]
  /\ snapshot' = [snapshot EXCEPT ![v] = IF image[v] # NoFile THEN image[v] ELSE @]
  /\ ensuring' = [ensuring EXCEPT ![a] = @ \ {v}]
  /\ UNCHANGED <<setup, vars, habit, image, generation, configured, open, restoring>>

\* ensureSnapshotForVolumePath, for each volume that was configured in the beginning.
ensureSnapshot(a, v) ==
  /\ At(a, "snapshots") /\ v \in ensuring[a]
  /\ snapshot' = [snapshot EXCEPT ![v] = IF @ = NoFile THEN image[v] ELSE @]
  /\ ensuring' = [ensuring EXCEPT ![a] = @ \ {v}]
  /\ UNCHANGED <<setup, vars, habit, image, generation, configured, open, restoring>>

\* The Mac writes to a disk.  What it writes to a file that was removed is lost.
Sys_write(v) ==
  /\ \E a \in Attempts : At(a, "running")
  /\ v \in open /\ image[v] # NoFile
  /\ image' = [image EXCEPT ![v].modified = TRUE]
  /\ UNCHANGED <<setup, vars, habit, snapshot, generation, configured, ensuring, open, restoring>>

Present == {v \in configured : image[v] # NoFile}

\* A step of the life cycle.  A start whose snapshots are ready has looked at all the
\* volumes; InitEmulator opens the images (DiskInit), and what ends the devices closes
\* them (DiskExit).
Lifecycle ==
  /\ Next
  /\ reset # NoFile => main # "idle"
  /\ \A a \in Attempts : At(a, "snapshots") /\ attempt'[a] = "prepared" => ensuring[a] = {}
  /\ ensuring' = [a \in Attempts |->
       IF attempt'[a] # "snapshots" THEN {}
       ELSE IF At(a, "snapshots") THEN ensuring[a] ELSE configured]
  /\ open' = IF ~devices' THEN {} ELSE IF ~devices THEN Present ELSE open
  /\ UNCHANGED <<habit, files, restoring>>

\* iOS kills the application, which is launched again.  A temporary file is left over.
Killed ==
  /\ habit.killed
  /\ snapshotPreparationInProgress' = FALSE
  /\ emulThread' = None /\ emulMachThread' = None /\ emulatorRunning' = FALSE
  /\ tickThread' = "nil" /\ tickers' = 0 /\ tickThreadStarted' = {}
  /\ pendingLandscapeStartCompletion' = None /\ modal' = FALSE /\ upright' = TRUE
  /\ attempt' = [a \in Attempts |-> "none"]
  /\ main' = "idle" /\ devices' = FALSE /\ prefs' = TRUE
  /\ ensuring' = [a \in Attempts |-> {}] /\ open' = {}
  /\ reset' = NoFile /\ job' = [j \in Jobs |-> NoJob]
  /\ UNCHANGED <<setup, habit, files>>

-----------------------------------------------------------------------------
VolumesAct ==
  \/ \E v \in Volumes :
       \/ createDiskImageWithName(v) \/ deleteDiskImage(v) \/ resetDiskImage(v)
       \/ Sys_write(v)
       \/ \E a \in Attempts : ensureSnapshot(a, v)
  \/ TerminatedForReset \/ (\E j \in Jobs : Restore(j)) \/ Lifecycle

VolumesNext == VolumesAct \/ Killed

\* ... and the background queues go on.
VolumesFairness ==
  /\ Fairness
  /\ \A a \in Attempts, v \in Volumes : WF_volumeVars(ensureSnapshot(a, v))
  /\ WF_volumeVars(TerminatedForReset)

VolumesSpec == VolumesInit /\ [][VolumesNext]_volumeVars /\ VolumesFairness

-----------------------------------------------------------------------------
File == [generation : 1 .. MaxGeneration, modified : BOOLEAN]

VolumesTypeOK ==
  /\ TypeOK
  /\ habit \in Habits
  /\ image \in [Volumes -> File \cup {NoFile}] /\ snapshot \in [Volumes -> File \cup {NoFile}]
  /\ generation \in [Volumes -> 0 .. MaxGeneration]
  /\ configured \subseteq Volumes /\ open \subseteq Volumes
  /\ ensuring \in [Attempts -> SUBSET Volumes]
  /\ reset \in Volumes \cup {NoFile}
  /\ job \in [Jobs -> [pc : {"none", "clone", "remove", "move"},
                       volume : Volumes \cup {NoFile}, temporary : File \cup {NoFile}]]

\* A reset gives back the image as it was at its first use: "All changes since the
\* first use will be lost" (en.lproj/Localizable.strings:34).
ResetToFirstUse ==
  \A v \in Volumes : image[v] # NoFile /\ snapshot[v] # NoFile =>
    snapshot[v] = [generation |-> image[v].generation, modified |-> FALSE]

\* It is so if volumes are configured only while no emulator runs, starts or restarts
\* and no name is used twice: no image is written to before it has a snapshot, however
\* starts, resets, restarts of the Mac and the end of the application are interleaved.
SnapshotIsOriginal ==
  habit.configures # "any time" /\ ~habit.deletes => ResetToFirstUse

\* No volume loses its data: its image is there or, between the second and the third
\* step of a restore, its snapshot is; only a killed application leaves it so, and
\* then it can be restored again.
ImageKept ==
  \A v \in configured : image[v] = NoFile =>
    /\ snapshot[v] # NoFile
    /\ habit.killed \/ \E j \in Jobs : job[j].pc = "move" /\ job[j].volume = v
=============================================================================
