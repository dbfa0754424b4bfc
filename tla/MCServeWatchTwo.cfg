CONSTANTS
  Paths = {a}
  Limit = 1
  Conns = {c1, c2}
  Denied = {}
  HubStarts = FALSE
  ScanLimit = 1
  MaxWrites = 2
  MaxEdits = 0
SPECIFICATION Spec
SYMMETRY ConnSymmetry
CHECK_DEADLOCK FALSE
INVARIANTS
  
  PushIsJournaled
  PushedOnce
