SPECIFICATION Spec
CONSTANTS
  a1 = a1
  a2 = a2
  a3 = a3
  None = None
  User = User
  Terminated = Terminated
  Attempts <- MCAttempts
  MaxTickers = 2
  Setups <- MCRotates
PROPERTIES NeverStuck
