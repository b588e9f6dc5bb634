SPECIFICATION HSpec
CONSTANTS
  VBL = VBL
  ETHER = ETHER
  Sources <- MCSources
  Tick = VBL
  Order <- MCOrder
  MaxCalls = 2
  Setups <- MCDefaultBuild
INVARIANTS ReturnsToCaller
