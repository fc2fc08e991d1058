SPECIFICATION Spec
CONSTANTS
  Scans = {s1, s2}
  Files = {f1, f2}
  MaxEdits = 3
INVARIANTS
  RulesInv
PROPERTIES
  LockReleased
