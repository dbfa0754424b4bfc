CONSTANTS
  Callers = {i, j}
  Versions = {v, w}
  MaxCalls = 3
  MaxFaults = 2
SPECIFICATION Spec
SYMMETRY InstallerSymmetry
CHECK_DEADLOCK FALSE
INVARIANTS
  OnlyVerifiedUnlessShared
  RerunRepairs
  RefusalKeepsPrevious
