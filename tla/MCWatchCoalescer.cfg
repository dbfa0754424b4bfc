CONSTANTS
  Paths = {a, b}
  Limit = 1
  OverflowLimit = 3
  Window = 1
  MaxEvents = 6
  MaxTime = 1
SPECIFICATION Spec
CHECK_DEADLOCK FALSE
INVARIANTS
  CatchUpComplete
  
  RecordAllIsLoop
  RetainedAnswered
PROPERTIES
  ImplementsFeed
