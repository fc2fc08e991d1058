SPECIFICATION Spec
CONSTANTS
  Slots = {s1}
  Users = {u1}
  Tiers = {"episodic"}
  Texts = {"middle"}
  Alike <- MCAlike
  Confidence = {2}
  Kinds = {"record", "hydrate", "delete_user"}
  Breaker = 1
  Indexes = {"missing"}
  MaxTime = 2
  MaxFaults = 1
  MaxOps = 3
  None = None
SYMMETRY MemorySymmetry
INVARIANTS
  ErasureComplete
CHECK_DEADLOCK FALSE
