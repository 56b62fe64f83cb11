CONSTANTS
  NumberOfProcesses = 2
  Message <- Payload
  MutexName <- TwoMonitors
  CondName <- ThreeConditions
  MutexOf <- OfTwoMonitors
  NotFull <- C1OrOwn
  NotEmpty <- C2OrOwn
  MonitorOrder <- TwoOrder
  State <- Saved
  InitState <- Empty
  Effect <- Operations
  Item <- Items
  Capacity = 1
  m1 = m1
  m2 = m2
  c1 = c1
  c2 = c2
  NoPacket = NoPacket
  Optimized = FALSE
  NotifyOutside = FALSE
  NotifyAfterUnlock = FALSE
  MaxAcquires <- Enough
  MaxCalls <- Enough
  MaxEntries <- TwoPut
  MaxSpurious <- Never
SPECIFICATION ProgSpec
INVARIANTS MonitorInv RequestInOnePlace LatestOnEntry NoRestoreDuringEntry
PROPERTIES ImplementsBuffers ImplementsLock
CHECK_DEADLOCK FALSE
