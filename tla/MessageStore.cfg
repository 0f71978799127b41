CONSTANTS
  r1 = r1
  r2 = r2
  s1 = s1
  Recorders = {r1, r2}
  Sessions <- OneSession
  Bodies = {"a", "b"}
  StateWith <- Stateful
  States = {"x"}
  NoState = NoState
  NoSession = NoSession
  MaxSent = 3
  MaxLosses = 1
SPECIFICATION StoreSpec
SYMMETRY Symmetry
INVARIANTS StoreTypeOK StoreFaithful
CHECK_DEADLOCK FALSE
