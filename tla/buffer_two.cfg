CONSTANTS
  NumberOfProcesses = 2
  Message <- Payload
  MutexName <- OneMonitor
  CondName <- TwoConditions
  MutexOf <- OfOneMonitor
  NotFull <- C1
  NotEmpty <- C2
  MonitorOrder <- OneOrder
  State <- Saved
  InitState <- Empty
  Effect <- Operations
  Item <- Items
  Capacity = 2
  m1 = m1
  m2 = m2
  c1 = c1
  c2 = c2
  NoPacket = NoPacket
  Optimized = FALSE
  NotifyOutside = FALSE
  NotifyAfterUnlock = FALSE
  MaxAcquires <- Enough
  MaxCalls <- Enough
  MaxEntries <- PutThree
  MaxSpurious <- Once
SPECIFICATION ProgFairSpec
INVARIANTS ProgTypeOK ProgInv
PROPERTIES EntriesEnd ImplementsBuffers
CHECK_DEADLOCK FALSE
