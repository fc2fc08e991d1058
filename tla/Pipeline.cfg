SPECIFICATION Spec
CONSTANTS
  Turns = {t1, t2}
  MaxInputSize = 1
  None = None
  TargetCapabilities <- MCTargetCapabilities
  ConfiguredCapabilities <- MCConfiguredCapabilities
INVARIANTS
  TypeOK
  GatesBeforeRelease
  StatusCoherent
  HandoffCoherent
  MemoryVetted
PROPERTIES
  StoppedIsFinal
  TurnSpec
CHECK_DEADLOCK FALSE
