SPECIFICATION VolumesSpec
CONSTANTS
  a1 = a1
  a2 = a2
  a3 = a3
  None = None
  User = User
  Terminated = Terminated
  Attempts <- MCAttempts
  MaxTickers = 2
  Setups <- MCSetups
  Disk = Disk
  j1 = j1
  j2 = j2
  NoFile = NoFile
  Volumes <- MCVolumes
  Jobs <- MCJobs
  MaxGeneration = 1
  Habits <- MCHabits
  Uses <- MCUsesAnyTime
INVARIANTS ResetToFirstUse
