SPECIFICATION ScanSpec
CONSTANTS
  LibraryFaults = TRUE
  None = None
INVARIANTS
  PassedIsClean
  Explained
CHECK_DEADLOCK FALSE
