SPECIFICATION Spec
CONSTANTS
  Threads = {loop}
  Identities = {i1, i2, i3}
  IdentityMax = 2
  IdentityWindow = 3
  GlobalMax = 2
  GlobalWindow = 2
  MaxTrackedKeys = 2
  PruneInterval = 2
  MaxTime = 6
  None = None
SYMMETRY LimiterSymmetry
INVARIANTS
  WindowHolds
  TableInv

  
