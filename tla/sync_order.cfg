CONSTANTS
  NumberOfProcesses = 3
  Message <- MonitorMessage
  MutexName <- OneMonitor
  State <- Count
  InitState = 0
  Effect <- CountUp
  m1 = m1
  NoPacket = NoPacket
  Optimized = FALSE
  MaxAcquires <- OneEach
SPECIFICATION InTurnSpec
INVARIANTS LatestOnEntry
CHECK_DEADLOCK FALSE
