SPECIFICATION LibrarySpec
CONSTANTS
  Ints <- SomeInts
  Strs <- SomeStrs
  Halves <- SomeHalves
  Values = {1}
  MaxBits = 4
  Lists <- SomeLists
  Items <- SomeItems
  Sorted <- SomeSorted
  Positions <- SomePositions
  RanLimit = 4
  Imbalance = 2
INVARIANTS LengthIsABorder RehashIsOptimal LibraryKeepsItsWord SortKeepsTheList
PROPERTIES KeepsThePromise
CHECK_DEADLOCK FALSE
