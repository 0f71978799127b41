CONSTANTS
  s1 = s1
  s2 = s2
  p1 = p1
  p2 = p2
  v1 = v1
  v2 = v2
  Sessions = {s1, s2}
  Paths = {p1, p2}
  Values = {v1, v2}
  Absent = Absent
  NoState = NoState
  MaxTurns = 2
  MaxCalls = 2
  MaxOpen = 1
  MaxFaults = 1
SPECIFICATION Spec
SYMMETRY Symmetry
INVARIANTS TypeOK  CommitsWhole 
CHECK_DEADLOCK FALSE
