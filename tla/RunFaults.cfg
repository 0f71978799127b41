CONSTANTS
  CallLists <- Lists
  MaxRuns = 2
  MaxTop = 1
  MaxTurns = 3
  MaxFaults = 1
SPECIFICATION Spec
INVARIANTS TypeOK ToolCallsAnswered LinearChain
PROPERTIES RunsEnd
CHECK_DEADLOCK FALSE
