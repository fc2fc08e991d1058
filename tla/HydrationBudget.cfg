SPECIFICATION HydrationSpec
CONSTANTS
  Searched <- MCSearched
  Budget = 20
  Floor <- MCFloor
  Hits <- MCHits
  MaxHits = 2
  Unit = 10
  Scale = 2
INVARIANTS
  BudgetKept
  FairlyShared
CHECK_DEADLOCK FALSE
