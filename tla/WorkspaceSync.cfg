CONSTANTS
  f1 = f1
  f2 = f2
  s1 = s1
  s2 = s2
  Sessions = {s1, s2}
  Files = {f1, f2}
  Envs = {e1, e2}
  e1 = e1
  e2 = e2
  Edits <- Changes
  Budget = 4
SPECIFICATION Spec
INVARIANTS TypeOK SnapshotOfTurn AnsweredAtRest
SYMMETRY Alike
CHECK_DEADLOCK FALSE
