SPECIFICATION HSpec
CONSTANTS
  VBL = VBL
  ETHER = ETHER
  Sources <- MCSources
  Tick = VBL
  Order <- MCOrder
  MaxCalls = 2
  Setups <- MCSetups
INVARIANTS TypeOK NoForgottenInterrupt CallsReturn MainIsInterruptible
PROPERTIES WorkIsServed
