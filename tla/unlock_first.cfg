CONSTANTS
  NumberOfProcesses = 2
  Message <- Payload
  MutexName <- OneMonitor
  CondName <- SameName
  MutexOf <- OfSameName
  NotFull <- OwnCondition
  NotEmpty <- OwnCondition
  MonitorOrder <- OneOrder
  State <- Saved
  InitState <- Empty
  Effect <- Operations
  Item <- Items
  Capacity = 1
  m1 = m1
  m2 = m2
  c1 = c1
  c2 = c2
  NoPacket = NoPacket
  Optimized = FALSE
  NotifyOutside = TRUE
  NotifyAfterUnlock = TRUE
  MaxAcquires <- Enough
  MaxCalls <- Enough
  MaxEntries <- TwoEach
  MaxSpurious <- Never
SPECIFICATION ProgSpec
INVARIANTS NotificationExpected
CHECK_DEADLOCK FALSE
