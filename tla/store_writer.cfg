SPECIFICATION WriterFairSpec
CONSTANTS
  k1 = k1
  MaxRows = 4
  KeyOf <- OddRowsSameKey
  QueueSize = 1
  MaxBatchSize = 2
  MaxCancels = 1
  flushOp = flushOp
  InitialMode = 0
  MaxChanges = 1
  None = None
INVARIANTS
  FlushDue
  CloseDrains
  AckedAfterWritten
  NothingForgotten
PROPERTIES
  WrittenInNormalMode
  EventuallyAcked
  StopEnds
  ModeChangeEnds
CHECK_DEADLOCK FALSE
