CONSTANTS
  w1 = w1
  w2 = w2
  Pools <- OneOrTwo
  Streams <- Mixed
  Limit = 2
  Names <- Sealings
  MaxFaults = 1
SPECIFICATION Spec
INVARIANTS TypeOK LinearHistory 
 
CHECK_DEADLOCK FALSE
