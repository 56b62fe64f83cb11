CONSTANTS
  NumberOfProcesses = 2
  Message <- Texts
  EmptyMessage = EmptyMessage
  m1 = m1
  NoPacket = NoPacket
  NoSend = NoSend
  BufferSize = 1
  MaxSends <- TwoFromMain
SPECIFICATION MpiFairSpec
PROPERTIES SendReturns
CHECK_DEADLOCK FALSE
