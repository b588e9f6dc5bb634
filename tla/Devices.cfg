SPECIFICATION DevicesSpec
CONSTANTS
  A = A
  B = B
  Silence = Silence
  Blocks <- MCBlocks
  MaxCount = 2
  Setups <- MCSetups
  AARP = AARP
  Foreign = Foreign
  Short = Short
  Types <- MCTypes
  BufferSize = 2
  PipeSize = 4
  MaxNesting = 2
  EtherSetups <- MCEtherSetups
  MaxInserted = 3
  DriveSetups <- MCDriveSetups
  Machines <- MCMachines
INVARIANTS DevicesTypeOK NoBlockDropped MixerIsOpen LastCloseClosesMixer AtMostOnePacket WholePackets PostedOnce
PROPERTIES ImplementsSoundQueue PacketsAreServed InsertedIsPosted
