CONSTANTS
  NumberOfProcesses = 3
  Message <- Names
  MutexName <- OneMutex
  CondName <- OneCondition
  MutexOf <- OfOneMutex
  m1 = m1
  c1 = c1
  NoPacket = NoPacket
  Optimized = FALSE
  NotifyOutside = FALSE
  MaxAcquires <- ZeroTwice
  MaxCalls <- TwoWait
  MaxSpurious <- Once
SPECIFICATION EndingSpec
CONSTRAINT Scenario
INVARIANTS TypeOK MutualExclusion HolderRequestedFirst NoMutualDelay NoUnexpectedAgreement TablesCurrent EveryWaiterTaken
