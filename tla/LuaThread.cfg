SPECIFICATION Spec
CONSTANTS
  Main = main
  Cos = {c1, c2}
  Kinds <- AllKinds
  MaxCCalls = 4
  HandlingCCalls = 6
  MaxFrames = 7
CHECK_DEADLOCK FALSE
INVARIANTS CountersAreTrue YieldedCanContinue
PROPERTIES KeepsThePromise
