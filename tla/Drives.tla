-------------------------------- MODULE Drives --------------------------------
(***************************************************************************)
(* How the drivers for floppy disks, hard disks and CD-ROMs (sony.cpp,     *)
(* disk.cpp, cdrom.cpp) tell the Mac that there is a disk: by a diskEvent. *)
(* A disk found when the driver is opened is flagged; the event is posted  *)
(* when the Mac, once it has started, calls the driver for its periodic    *)
(* action, and from then on the interrupt that comes once a second looks   *)
(* for disks.  PostEvent is 68k code, in which the main program can be     *)
(* interrupted while it is called for the periodic action.                 *)
(*                                                                         *)
(* Each driver has one drive.  Drives are image files, as on iOS: a disk   *)
(* is always found in them, and ejecting does nothing to the file          *)
(* (sys_ios.cpp).  The CD has no HFS partition.  The Mac has memory for    *)
(* the drives' status records, opens the drivers before it has started and *)
(* then calls each for its periodic action until the driver declines.      *)
(* Reading and writing are left out.                                       *)
(***************************************************************************)
EXTENDS Naturals, Sequences

CONSTANTS
  DriveSetups,  \* sets of drivers that have a drive
  MaxInserted   \* bound: how often a disk is inserted

Kinds == <<"floppy", "disk", "cdrom">>  \* in the order in which the interrupt calls them
AllKinds == {"floppy", "disk", "cdrom"}

ASSUME DrivesAssumption == DriveSetups \subseteq SUBSET AllKinds /\ MaxInserted \in Nat

VARIABLES
  drives,         \* the drivers that have a drive, for good
  drive,          \* the drive of each
  opened,         \* drivers opened since the Mac was last reset
  acc_run_called, \* drivers whose interrupt routine is active
  mount_non_hfs,
  started,        \* HasMacStarted
  main,           \* the driver that posts an event in its periodic action, or "none"
  oneHz           \* drivers the interrupt has yet to call, and whether the first one posts

driveState == <<drive, opened, acc_run_called, mount_non_hfs, started, main, oneHz>>
driveVars  == <<drives, driveState>>

NoInt == [left |-> <<>>, posts |-> FALSE]

\* inserted and posted count the disks that call for an event, and the events.
Closed == [dsDiskInPlace |-> 0, to_be_mounted |-> FALSE, inserted |-> 0, posted |-> 0]

DrivesInit ==
  /\ drives \in DriveSetups
  /\ drive = [k \in AllKinds |-> Closed]
  /\ opened = {} /\ acc_run_called = {} /\ mount_non_hfs = TRUE /\ started = FALSE
  /\ main = "none" /\ oneHz = NoInt

-----------------------------------------------------------------------------
InPlace(k) == IF k = "disk" THEN 8 ELSE 1

\* SonyOpen, DiskOpen, CDROMOpen.
Open(k) ==
  /\ k \in drives \ opened /\ ~started
  /\ opened' = opened \cup {k}
  /\ acc_run_called' = acc_run_called \ {k}
  /\ drive' = [drive EXCEPT ![k] = [dsDiskInPlace |-> InPlace(k), to_be_mounted |-> TRUE,
                                    inserted |-> 1, posted |-> 0]]
  /\ mount_non_hfs' = (k = "cdrom" \/ mount_non_hfs)
  /\ UNCHANGED <<drives, started, main, oneHz>>

MacStarts ==
  /\ opened = drives /\ drives # {} /\ ~started
  /\ started' = TRUE
  /\ UNCHANGED <<drives, drive, opened, acc_run_called, mount_non_hfs, main, oneHz>>

\* Mutated form: a disk that is found again is not flagged.
InsertedUnflagged(k, d) ==
  IF k = "cdrom" /\ d.dsDiskInPlace = 0
    THEN [d EXCEPT !.dsDiskInPlace = 1,
                   !.inserted = IF mount_non_hfs \/ d.to_be_mounted THEN @ + 1 ELSE @]
    ELSE d

\* The first part of mount_mountable_volumes: is there a disk in a drive that was empty?
\* With DISK_INSERT_CHECK 0 the floppy driver does not look, and a hard disk is fixed.
Inserted(k, d) ==
  IF k = "cdrom" /\ d.dsDiskInPlace = 0
    THEN [d EXCEPT !.dsDiskInPlace = 1,
                   !.inserted = IF mount_non_hfs \/ d.to_be_mounted THEN @ + 1 ELSE @,
                   !.to_be_mounted = @ \/ mount_non_hfs]
    ELSE d

\* ... and the second, up to the call of PostEvent; post is whether it is called.
Mount(k, post) ==
  LET d == Inserted(k, drive[k]) IN
  /\ post = d.to_be_mounted
  /\ drive' = [drive EXCEPT ![k] = [d EXCEPT !.posted = IF post THEN @ + 1 ELSE @]]

\* PostEvent returns.
Mounted(k) == drive' = [drive EXCEPT ![k].to_be_mounted = FALSE]

Main == main = "none" /\ oneHz = NoInt

\* Mutated form: the interrupt routine is active before the disks are mounted.
accRunActiveFirst(k) ==
  /\ Main /\ started
  /\ k \in opened \ acc_run_called
  /\ \E post \in BOOLEAN : /\ Mount(k, post)
                           /\ main' = IF post THEN k ELSE "none"
                           /\ acc_run_called' = acc_run_called \cup {k}
  /\ UNCHANGED <<drives, opened, mount_non_hfs, started, oneHz>>

\* Control 65.  The driver declines further periodic actions with the same step that
\* makes the interrupt routine active.
accRun(k) ==
  /\ Main /\ started
  /\ k \in opened \ acc_run_called
  /\ \E post \in BOOLEAN : /\ Mount(k, post)
                           /\ main' = IF post THEN k ELSE "none"
                           /\ acc_run_called' = IF post THEN acc_run_called
                                                ELSE acc_run_called \cup {k}
  /\ UNCHANGED <<drives, opened, mount_non_hfs, started, oneHz>>

accRunReturns ==
  /\ main # "none" /\ oneHz = NoInt
  /\ Mounted(main)
  /\ acc_run_called' = acc_run_called \cup {main}
  /\ main' = "none"
  /\ UNCHANGED <<drives, opened, mount_non_hfs, started, oneHz>>

\* Control 7.  A fixed disk is re-inserted at once; what was flagged stays flagged.
Eject(k) ==
  /\ Main
  /\ k \in opened /\ drive[k].inserted < MaxInserted
  /\ \/ /\ drive[k].dsDiskInPlace = 8
        /\ drive' = [drive EXCEPT ![k].inserted = @ + 1, ![k].posted = @ + 1]
     \/ /\ drive[k].dsDiskInPlace = 1
        /\ drive' = [drive EXCEPT ![k].dsDiskInPlace = 0, ![k].inserted = drive[k].posted]
  /\ UNCHANGED <<drives, opened, acc_run_called, mount_non_hfs, started, main, oneHz>>

\* A control code of the CD-ROM driver.
MountNonHFS ==
  /\ Main /\ "cdrom" \in opened
  /\ mount_non_hfs' = ~mount_non_hfs
  /\ UNCHANGED <<drives, drive, opened, acc_run_called, started, main, oneHz>>

-----------------------------------------------------------------------------
\* The interrupt that comes once a second.
OneHz ==
  /\ started /\ oneHz = NoInt
  /\ oneHz' = [left |-> Kinds, posts |-> FALSE]
  /\ UNCHANGED <<drives, drive, opened, acc_run_called, mount_non_hfs, started, main>>

\* SonyInterrupt, DiskInterrupt, CDROMInterrupt.
DriverInterrupt(k) ==
  /\ oneHz.left # <<>> /\ ~oneHz.posts
  /\ k = Head(oneHz.left)
  /\ IF k \in acc_run_called /\ k \in opened
       THEN \E post \in BOOLEAN :
              /\ Mount(k, post)
              /\ oneHz' = IF post THEN [oneHz EXCEPT !.posts = TRUE]
                        ELSE [oneHz EXCEPT !.left = Tail(@)]
       ELSE oneHz' = [oneHz EXCEPT !.left = Tail(@)] /\ UNCHANGED drive
  /\ UNCHANGED <<drives, opened, acc_run_called, mount_non_hfs, started, main>>

PostEventReturns ==
  /\ oneHz.posts
  /\ Mounted(Head(oneHz.left))
  /\ oneHz' = [left |-> Tail(oneHz.left), posts |-> FALSE]
  /\ UNCHANGED <<drives, opened, acc_run_called, mount_non_hfs, started, main>>

\* The emulator starts again: SonyExit, SonyInit and the like, and a Mac whose memory
\* is empty.  The flags acc_run_called stay as they are.
MacRestarts ==
  /\ started
  /\ drive' = [k \in AllKinds |-> Closed]
  /\ opened' = {} /\ started' = FALSE
  /\ main' = "none" /\ oneHz' = NoInt
  /\ UNCHANGED <<drives, acc_run_called, mount_non_hfs>>

-----------------------------------------------------------------------------
DriveInterrupt == (\E k \in AllKinds : DriverInterrupt(k)) \/ PostEventReturns

DrivesNext ==
  \/ \E k \in AllKinds : Open(k) \/ accRun(k) \/ Eject(k)
  \/ MacStarts \/ accRunReturns \/ MountNonHFS \/ OneHz \/ DriveInterrupt \/ MacRestarts

\* The Mac starts and calls the drivers, interrupts come and PostEvent returns.
DrivesFairness ==
  /\ \A k \in AllKinds : WF_driveVars(Open(k)) /\ SF_driveVars(accRun(k))
  /\ WF_driveVars(MacStarts) /\ SF_driveVars(accRunReturns)
  /\ SF_driveVars(OneHz) /\ WF_driveVars(DriveInterrupt)

-----------------------------------------------------------------------------
DrivesTypeOK ==
  /\ drives \in DriveSetups
  /\ drive \in [AllKinds -> [dsDiskInPlace : {0, 1, 8}, to_be_mounted : BOOLEAN,
                             inserted : Nat, posted : Nat]]
  /\ opened \subseteq drives /\ acc_run_called \subseteq drives
  /\ mount_non_hfs \in BOOLEAN /\ started \in BOOLEAN
  /\ main \in drives \cup {"none"}
  /\ oneHz \in [left : Seq(AllKinds), posts : BOOLEAN]

\* No more events than disks: the periodic action and the interrupt, which comes while
\* PostEvent runs and the flag is still set, never post the same disk twice.  A floppy
\* ejected before the periodic action is posted all the same, and stays out
\* (sony.cpp:430 leaves to_be_mounted set).
PostedOnce ==
  \A k \in AllKinds :
    drive[k].posted > drive[k].inserted => k = "floppy" /\ drive[k].dsDiskInPlace = 0

\* Every disk that was inserted is posted, unless the Mac ejects it or restarts before.
InsertedIsPosted ==
  \A k \in AllKinds :
    drive[k].inserted > drive[k].posted ~> drive[k].inserted <= drive[k].posted
=============================================================================
