SPECIFICATION InputSpec
CONSTANTS
  A = A
  B = B
  Keys <- MCKeys
  KEY_BUFFER_SIZE = 4
  Steps <- MCSteps
  Positions <- MCPositions
  Half = 8
  Setups <- MCInputSetups
  MaxTouches = 2
  MaxClicks = 2
  MaxScheduled = 3
INVARIANTS InputTypeOK KeysAgree ButtonAgrees CursorFollows QueuedClicksAreSent ButtonIsHeld ButtonReleased
PROPERTIES ImplementsKeyQueue
