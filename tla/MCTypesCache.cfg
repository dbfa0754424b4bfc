CONSTANTS
  Files = {f, g}
  NoFile = NoFile
  IngestedFiles = 4
  MaxEdits = 2
  MaxQueries = 1
  MaxPolls = 1
SPECIFICATION CacheSpec
CHECK_DEADLOCK FALSE
INVARIANTS
  CacheTypeOK
  AtMostOneBatchBehind
PROPERTIES
  EngineConverges
  MissIsAnswered
