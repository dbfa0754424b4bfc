CONSTANTS
  Files = {f, g}
  Nobody = Nobody
  Texts = {0, 1}
  MaxEdits = 3
  MaxQueries = 2
SPECIFICATION Spec
CHECK_DEADLOCK FALSE
INVARIANTS
  OneConversation
  AskedAboutLast
PROPERTIES
  OpenWarms
  MuxReturns
