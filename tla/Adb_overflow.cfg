SPECIFICATION Spec
CONSTANTS
  A = A
  B = B
  Keys <- MCKeys
  KEY_BUFFER_SIZE = 4
  Steps <- MCSteps
  Positions <- MCPositions
  Half = 8
  Setups <- MCOverflow
INVARIANTS KeysAgree
