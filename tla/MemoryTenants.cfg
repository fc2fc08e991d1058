SPECIFICATION Spec
CONSTANTS
  Slots = {s1, s2}
  Users = {u1, u2}
  Tiers = {"semantic", "episodic"}
  Texts = {"middle"}
  Alike <- MCAlike
  Confidence = {2}
  Kinds = {"record", "delete_user"}
  Breaker = 1
  Indexes = {"missing", "tenant"}
  MaxTime = 1
  MaxFaults = 1
  MaxOps = 3
  None = None
SYMMETRY MemorySymmetry
INVARIANTS
  TenantInv
  ErasureReachesEveryTier
CHECK_DEADLOCK FALSE
