SPECIFICATION Spec
CONSTANTS
  Slots = {s1, s2}
  MaxTurns = 1
  ExpertTurns = 1
  MaxAttempts = 2
  MaxConcurrent = 1
  Kinds = {"local", "network", "research", "writer"}
  Faults = {"model", "capability", "timeout"}
INVARIANTS
  PermitInv
  RefsResolve
  ScannedBeforeReasoning
  RoundsBounded
PROPERTIES
  RecordedUnlessCut
  TurnEnds
CHECK_DEADLOCK FALSE
