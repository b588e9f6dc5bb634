SPECIFICATION LaunchSpec
CONSTANTS
  a1 = a1
  a2 = a2
  a3 = a3
  None = None
  User = User
  Terminated = Terminated
  Attempts <- MCAttempts
  MaxTickers = 2
  Setups <- MCLeanSetups
  Disk = Disk
  j1 = j1
  j2 = j2
  NoFile = NoFile
  Volumes <- MCVolumes
  Jobs <- MCJobs
  MaxGeneration = 1
  Habits <- MCLeanHabits
  Uses <- MCLaunchUses
  HeaderSize = 2
  MaxSize = 2
  MaxChunk = 3
  Missing = Missing
  Offers <- MCOffers
  Launches <- MCLaunches
INVARIANTS LaunchTypeOK OneEmulator OneTicker PrefsReloaded QuitsWhatRuns SnapshotIsOriginal ImageKept InstalledIsWhole
PROPERTIES NeverStuckUnlessDropped
