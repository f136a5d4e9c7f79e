\* Calls by name and by a.b, with two results, among nested table brackets, without the operations that leave values behind.
SPECIFICATION Spec
CONSTANTS
  Callers = {c1, c2}
  Brackets = {b1, b2}
  Functions = {f}
  Ints = {i1}
  Strings = {s}
  Tables = {t}
  Nil = nil
  Traceback = traceback
  FunTable = funtable
  Chunk = chunk
  None = none
  Globals <- AnyGlobal
  Uses <- TableUses
  MaxDepth = 2
  MaxArgs = 1
  MaxResults = 2
  MaxStack = 6
CHECK_DEADLOCK FALSE
SYMMETRY Symmetric
INVARIANTS TypeOK CallPassesArguments ResultsInOrder NoCrash StackBalanced
PROPERTY ImplementsScriptCall
