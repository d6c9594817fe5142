SPECIFICATION Spec
CONSTANTS
  Interfaces = 3
  Handled = {0, 2}
  Hid = {0}
  EpTable <- MCEpTable
  MaxTransfer = 4
  MaxPacketSize = 2
  Setup <- MCSetup
  HostEp <- MCHostEp
  HostCommand <- MCHostCommand
  VirtualCommand <- MCVirtualCommand
  MaxHost = 2
  MaxVirtual = 2
INVARIANTS
  TypeOK
  FramingKept
  OneOutcome
  NoneForgotten
  ReplyFits
  FaultCauses
  HandlersForget
  OpAnswered
PROPERTIES
  InStep
  StopEnds
  QueuedWritten
CHECK_DEADLOCK FALSE
