SPECIFICATION FairSpec
CONSTANTS
  Main = main
  Ids = {o1, o2}
  UpVals = {u1}
  Nil = nil
  Dead = dead
  Menus <- Reclaimed
  Slots = 2
  SweepMax = 2
  Work = {1}
CHECK_DEADLOCK FALSE
PROPERTIES GarbageIsFreed
