CONSTANTS
  NumberOfProcesses = 3
  Message <- Names
  MutexName <- OneMutex
  CondName <- OneCondition
  MutexOf <- OfOneMutex
  m1 = m1
  c1 = c1
  NoPacket = NoPacket
  Optimized = FALSE
  NotifyOutside = FALSE
  MaxAcquires <- ZeroTwice
  MaxCalls <- TwoWait
  MaxSpurious <- Never
SPECIFICATION InTurnSpec
INVARIANTS NotifyFindsWaiter
CHECK_DEADLOCK FALSE
