SPECIFICATION Spec
CONSTANTS
  Main = main
  Ids = {o1, o2, o3}
  UpVals = {u1}
  Nil = nil
  Dead = dead
  Menus <- Everything
  Slots = 2
  SweepMax = 2
  Work = {1}
CHECK_DEADLOCK FALSE
INVARIANTS MarkingInvariant NothingReadableIsDead CleanPause
PROPERTIES OnlyGarbageIsFinalized
