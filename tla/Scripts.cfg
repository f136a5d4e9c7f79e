CONSTANTS
  MaxInteger = 127
  MaxIndexRK = 1
  FieldsPerFlush = 2
  Header <- MCHeader
  Menu <- MCMenu
SPECIFICATION FairSpec
INVARIANTS RunsAsWritten CompilerAssertionsHold LoadedIsWhole OpenUpvaluesAreLive UnwrittenIsNotRead
PROPERTIES ScriptsEnd
