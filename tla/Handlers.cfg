\* Clients that check what they register and address it from the bottom.
SPECIFICATION Spec
CONSTANTS
  Clients = {c1, c2, c3}
  Functions = {f, g}
  Others = {s}
  Nil = nil
  FunTable = funtable
  NoHandler = nohandler
  Indices <- Positive
  States <- AnyState
  Careful = TRUE
  MaxHandlers = 4
  MaxArgs = 2
CHECK_DEADLOCK FALSE
INVARIANTS TypeOK OwnCallback NoOrphan
PROPERTIES ImplementsCallbacks HandlersNotReused
