CONSTANTS
  Thread <- Threads
  NoThread = 0
  CondVar <- CondVars
  Item <- Items
  Capacity = 2
  Program <- Programs
  MaxCalls <- ThreeEach
  MaxSpurious = 1
SPECIFICATION LocalFairSpec
INVARIANTS LocalTypeOK SleepersNotified
PROPERTIES ImplementsBuffer CallsReturn
CHECK_DEADLOCK FALSE
