SPECIFICATION Spec
CONSTANTS
  Turns = {t1, t2, t3}
  Threads = 2
  MaxWorkers = 1
  Hanging = {t1}
INVARIANTS
  ScannedInOrder
  PermitInv
PROPERTIES
  StageEnds
CHECK_DEADLOCK FALSE
