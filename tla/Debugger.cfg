\* Nested sessions, a session outside Lua, coroutines, a strict global table and
\* the end of input.
SPECIFICATION FairSpec
CONSTANTS
  Uses <- Everything
  Levels = {0, 1, 2}
  MaxActs = 5
  MaxSessions = 3
CHECK_DEADLOCK FALSE
INVARIANTS TypeOK SessionsNested NoFlagWithoutSession
PROPERTIES NoStepLost StepStops
