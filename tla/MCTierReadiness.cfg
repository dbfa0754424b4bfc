CONSTANTS
  NumPackages = 2
  Conns = {c1}
  MaxEngineChanges = 2
SPECIFICATION Spec
CHECK_DEADLOCK FALSE
INVARIANTS
  SoleLateClientAgrees
PROPERTIES
  TierNeverDrops
  
