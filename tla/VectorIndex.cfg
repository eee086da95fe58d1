SPECIFICATION Spec
CONSTANTS
  e1 = e1
  e2 = e2
  kept = kept
  other = other
  NotSaved = NotSaved
  WrongSize = WrongSize
  Entity <- TwoEntities
  Vector <- NearAndFar
  Meta <- OneMeta
  MaxRows = 4
  MaxBatch = 2
  MaxSaved = 3
INVARIANTS
  TypeInvariant
  RowsAgree
  SaveRestores
  SearchExact
PROPERTY ImplementsMap
SYMMETRY Pairs
