CONSTANTS
  MaxInputs = 2
  MaxTurns = 2
  MaxCalls = 1
  Capacity = 1
  MaxFaults = 1
SPECIFICATION FairSpec
INVARIANTS TypeOK ScreenTrue
PROPERTIES RunsEnd
CHECK_DEADLOCK FALSE
