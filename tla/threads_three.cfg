CONSTANTS
  NumberOfProcesses = 3
  Message <- OneMutex
  MutexName <- OneMutex
  m1 = m1
  NoPacket = NoPacket
  Optimized = FALSE
  MaxAcquires <- OneOneNone
  MaxWaits <- OneNoneNone
  MaxCalls = 2
SPECIFICATION ThreadSpec
INVARIANTS ThreadTypeOK CallbackFound CallbackHasFrame NoLockCycle
PROPERTIES CallReturns ImplementsConditionVariable
CHECK_DEADLOCK FALSE
