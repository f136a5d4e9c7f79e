\* Scripts encode and decode while the imported pool is replaced.
SPECIFICATION Spec
CONSTANTS
  Files <- Known
  Generated <- Compiled
  Fields <- Schema
  Tables <- Given
  IntBits = 4
  LongBits = 6
  FloatBits = 3
  MinStack = 20
  CStack = 12
  MaxLeaked = 1
CHECK_DEADLOCK FALSE
INVARIANTS RoundTrip DecodeEnds
PROPERTY EncodeIsClean
