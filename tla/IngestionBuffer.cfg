SPECIFICATION FairSpec
CONSTANTS
  Lines = {l1, l2}
  Appenders = {a1, a2}
  Flushers = {f1, f2}
  MaxLines = 1
  MaxTime = 2
  MaxAppends = 2
  MaxFlushes = 2
  MaxCloses = 1
  MaxFaults = 1
INVARIANTS
  TypeOK
  OneFlusher
  BoundedDuplicates
  OnlyLateLinesSkipped
PROPERTIES
  LockFreed
CHECK_DEADLOCK FALSE
