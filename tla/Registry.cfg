SPECIFICATION Spec
CONSTANTS
  Turns = {t1, t2, t3}
  Walk <- MCWalk
  Body <- MCBody
  Slots <- MCSlots
  WrapperName <- MCWrapperName
  MayRaise <- MCMayRaise
  None = None
INVARIANTS
  RegistryInv
  NeverSilent
  FirstDeclaredWins
PROPERTIES
  RetryConverges
CHECK_DEADLOCK FALSE
