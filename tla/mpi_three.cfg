CONSTANTS
  NumberOfProcesses = 3
  Message <- Texts
  EmptyMessage = EmptyMessage
  m1 = m1
  NoPacket = NoPacket
  NoSend = NoSend
  BufferSize = 1
  MaxSends <- Few
SPECIFICATION MpiSpec
INVARIANTS MpiTypeOK
PROPERTIES ImplementsCommunicator
CHECK_DEADLOCK FALSE
