CONSTANTS
  MaxInteger = 127
  MaxIndexRK = 1
  FieldsPerFlush = 2
  Header <- MCHeader
  Menu <- MCMenu
SPECIFICATION Spec
INVARIANTS RunsAsWritten
