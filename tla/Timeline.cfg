SPECIFICATION Spec
SYMMETRY ClientSymmetry
CONSTANTS
  Clients = {c1, c2}
  Sessions = {s1, s2}
  NoSession = NoSession
  ExternalIds = {e1, e2}
  ForkNames = {fix}
  SealedNames = {broken1}
  MainName = main
  StateHashes = {h1, h2}
  NoState = NoState
  MaxNodes = 4
  MaxBranches = 3
INVARIANTS TypeOK References LeakConfined StateFromParent MainNameKept  ClientsOK
PROPERTIES IsLedger
CHECK_DEADLOCK FALSE
