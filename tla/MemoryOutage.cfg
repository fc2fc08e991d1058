SPECIFICATION Spec
CONSTANTS
  Slots = {s1}
  Users = {u1}
  Tiers = {"wiki", "semantic"}
  Texts = {"left", "middle", "right"}
  Alike <- MCAlike
  Confidence = {0, 1, 2}
  Kinds = {"hydrate", "record", "sync_wiki", "delete_user"}
  Breaker = 1
  Indexes = {"missing", "none", "plain"}
  MaxTime = 1
  MaxFaults = 2
  MaxOps = 3
  None = None
INVARIANTS
  EnsuredUsable
  SameTextOnce
PROPERTIES
  InsertsOnlyNews
  OperationsEnd
CHECK_DEADLOCK FALSE
