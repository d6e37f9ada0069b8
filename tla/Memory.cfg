SPECIFICATION Spec
CONSTANTS
  CountA = 5
  CountB = 3
  CountC = 3
  UnitA = 1
  UnitB = 2
  UnitC = 4
  Sizes <- MCSizes
  NULL = NULL
INVARIANT WellFormed
PROPERTY KeepsPromise
