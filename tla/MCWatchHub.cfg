CONSTANTS
  Paths = {a, b}
  Limit = 1
  OverflowLimit = 2
  Window = 1
  MaxEvents = 3
  MaxTime = 1
  ChanCap = 2
SPECIFICATION HubSpec
CHECK_DEADLOCK FALSE
INVARIANTS
  DeliveredInOrder
  NoGapNoLoss
PROPERTIES
  EventuallyDelivered
