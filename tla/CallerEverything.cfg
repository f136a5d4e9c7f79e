\* Every operation, the ones that leave values behind included; results are read while there are any.
SYMMETRY Symmetric
SPECIFICATION Spec
CONSTANTS
  Callers = {c1, c2}
  Brackets = {b1}
  Functions = {f}
  Ints = {i1}
  Strings = {s}
  Tables = {t}
  Nil = nil
  Traceback = traceback
  FunTable = funtable
  Chunk = chunk
  None = none
  Globals <- TableGlobal
  Uses <- Everything
  MaxDepth = 2
  MaxArgs = 1
  MaxResults = 1
  MaxStack = 4
CHECK_DEADLOCK FALSE
INVARIANTS ScopesIntact
PROPERTY CallerRestoresStack
