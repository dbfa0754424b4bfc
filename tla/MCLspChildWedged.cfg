CONSTANTS
  Files = {f, g}
  Nobody = Nobody
  Texts = {0, 1}
  MaxEdits = 2
  MaxQueries = 1
SPECIFICATION SpecOfServer
CHECK_DEADLOCK FALSE
PROPERTIES
  MuxReturns
