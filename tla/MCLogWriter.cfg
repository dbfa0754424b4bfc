CONSTANTS
  Loggers = {a, b}
  Main = a
  Cap = 2
  RetryCap = 2
  RingCap = 2
  BatchMax = 2
  Timed = TRUE
  MaxRecords = 4
  MaxFaults = 4
SPECIFICATION Spec
CHECK_DEADLOCK FALSE
INVARIANTS
  InEmitOrder
  
  FlushIsBarrier
  
PROPERTIES
  EventuallyWritten
