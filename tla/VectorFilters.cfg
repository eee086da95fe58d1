SPECIFICATION Spec
CONSTANTS
  e1 = e1
  e2 = e2
  kept = kept
  other = other
  NotSaved = NotSaved
  WrongSize = WrongSize
  Entity <- TwoEntities
  Vector <- NearAndFar
  Meta <- TwoMetas
  MaxRows = 3
  MaxBatch = 1
  MaxSaved = 0
INVARIANT FilteredSearchFull
SYMMETRY Pairs
