SPECIFICATION Spec
CONSTANTS
  Main = main
  Ids = {o1, o2}
  UpVals = {u1}
  Nil = nil
  Dead = dead
  Menus <- OnlyFinalizers
  Slots = 2
  SweepMax = 1
  Work = {1, 4}
CHECK_DEADLOCK FALSE
INVARIANTS MarkingInvariant
