CONSTANTS
  c1 = c1
  c2 = c2
  Clients = {c1, c2}
  Lists <- Calls
  MaxSent = 7
  MaxFailures = 1
SPECIFICATION ConversationSpec
INVARIANTS ConversationTypeOK GivenAsSaid AnswersNamed
SYMMETRY Alike
CHECK_DEADLOCK FALSE
