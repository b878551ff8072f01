CONSTANTS
  Worker = {s1, s2}
  Keep = {1, 2}
  LastSecond = 3
  MaxCalls = 5
SYMMETRY Symmetry
SPECIFICATION BackupSpec
INVARIANTS
  BackupTypeOK
  ListedIsWhole
  NoPileUp
PROPERTY KeepsLast
CHECK_DEADLOCK FALSE
