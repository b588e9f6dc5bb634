------------------------------- MODULE Launch -------------------------------
(***************************************************************************)
(* The application as a whole: the preparation of ROM and disk image, the  *)
(* life cycle of the emulator, and the disk images with their snapshots.   *)
(* They share the main thread and the screen.  The emulator is started     *)
(* from the main screen when the preparation has ended, or an activation   *)
(* finds nothing to prepare, and the settings are opened if a file is      *)
(* missing still.                                                          *)
(*                                                                         *)
(* The downloaded image is none of the volumes with snapshots.             *)
(***************************************************************************)
EXTENDS DiskImageSnapshots, PrivateResources

CONSTANT Launches   \* which setups, habits and offers are considered together

ASSUME LaunchAssumption == Launches \subseteq Setups \X Habits \X Offers

launchVars == <<volumeVars, resources>>

LaunchInit == VolumesInit /\ ResourcesInit /\ <<setup, habit, offer>> \in Launches

\* bootOrShowSettingsIfNeeded, with what the preparation has come to.
BootOrShowSettings ==
  IF emulatorRunning \/ modal \/ presented' # <<>> THEN UNCHANGED volumeVars
  ELSE /\ Lifecycle
       /\ IF \A k \in Kinds : k \in defaults' /\ file[k] # Missing
            THEN bootOrShowSettingsIfNeeded
            ELSE showSettings

Activate ==
  /\ main = "idle" /\ reset = NoFile
  /\ ~emulatorRunning /\ ~modal
  /\ activateMainScreen
  /\ IF activationInProgress' THEN UNCHANGED volumeVars ELSE BootOrShowSettings

\* A step of the preparation, and the boot when it was the last.
Prepares(step) ==
  /\ step
  /\ IF activationInProgress /\ ~activationInProgress' THEN BootOrShowSettings
                                                       ELSE UNCHANGED volumeVars

\* What the preparation has no part in.  The settings are opened, and acted on, when
\* nothing else is presented.
Elsewhere ==
  /\ VolumesAct
  /\ vars' # vars => ~bootOrShowSettingsIfNeeded
  /\ (modal' # modal \/ main' = "suspend") => presented = <<>>
  /\ modal' /\ ~modal => offer.early \/ didPrepare
  /\ UNCHANGED resources

\* iOS kills the application, which is launched again.
KilledAtAll ==
  /\ Killed
  /\ didPrepare' = allRequiredResourcesConfigured
  /\ preparationActive' = FALSE /\ busy' = FALSE /\ activationInProgress' = FALSE
  /\ preparing' = "none" /\ stage' = "none" /\ presented' = <<>> /\ zip' = NewZip
  /\ UNCHANGED <<offer, onDisk>>

LaunchNext ==
  \/ Activate \/ Prepares(Main \/ Download \/ Dismiss \/ ImportFails)
  \/ Elsewhere \/ KilledAtAll

\* ... and so do the session and its queue, and alerts are tapped away in the end.
LaunchFairness ==
  /\ VolumesFairness
  /\ WF_resources(Main \/ Download) /\ WF_resources(Dismiss)

LaunchSpec == LaunchInit /\ [][LaunchNext]_launchVars /\ LaunchFairness

-----------------------------------------------------------------------------
LaunchTypeOK == VolumesTypeOK /\ ResourcesTypeOK

\* There is always something left to the user: again and again the emulator can be
\* terminated or started, the preparation is over, and nothing is on the screen.  It is
\* so unless the settings can be opened while the application waits for the device to be
\* rotated, which drops the completion (B2ViewController.mm:224), or the preparation
\* may present two things at once.
NeverStuckUnlessDropped ==
  []<>(/\ (setup.landscape /\ setup.settings) \/ Controllable
       /\ MayHang \/ (~activationInProgress /\ presented = <<>>))
=============================================================================
