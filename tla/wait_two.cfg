CONSTANTS
  NumberOfProcesses = 2
  Message <- Names
  MutexName <- OneMutex
  CondName <- OneCondition
  MutexOf <- OfOneMutex
  m1 = m1
  c1 = c1
  NoPacket = NoPacket
  Optimized = FALSE
  NotifyOutside = FALSE
  MaxAcquires <- TwoEach
  MaxCalls <- TwoEach
  MaxSpurious <- Never
SPECIFICATION CondFairSpec
INVARIANTS CondTypeOK NotificationExpected NoNotifyWhileHeld ConfirmationExpected NotifyFindsWaiter
PROPERTIES WaitReturns NotifiedTestsAgain LockReturns
CHECK_DEADLOCK FALSE
