CONSTANTS
  Plans <- AllPlans
  MaxFaults = 1
SPECIFICATION QueuesSpec
INVARIANTS QueuesTypeOK
  
CHECK_DEADLOCK FALSE
