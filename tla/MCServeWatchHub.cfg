CONSTANTS
  Paths = {a, b}
  Limit = 1
  Conns = {c1}
  Denied = {b}
  HubStarts = TRUE
  ScanLimit = 2
  MaxWrites = 2
  MaxEdits = 2
SPECIFICATION Spec
CHECK_DEADLOCK FALSE
INVARIANTS
  TypeOK
PROPERTIES
  PushesDrain
