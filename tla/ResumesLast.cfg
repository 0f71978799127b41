CONSTANTS
  c1 = c1
  c2 = c2
  Clients = {c1}
  Lists <- Calls
  MaxSent = 7
  MaxFailures = 0
SPECIFICATION ConversationSpec
INVARIANTS ResumesLast
CHECK_DEADLOCK FALSE
