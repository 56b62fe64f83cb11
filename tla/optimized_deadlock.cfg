CONSTANTS
  NumberOfProcesses = 2
  Message <- OneMutex
  MutexName <- OneMutex
  m1 = m1
  NoPacket = NoPacket
  Optimized = TRUE
  MaxAcquires <- OneEach
SPECIFICATION Spec
INVARIANTS NoMutualDelay
CHECK_DEADLOCK FALSE
