CONSTANTS
  Nodes = {n1, n2}
  Boot = n1
  NoNode = NoNode
  Clients = {c1}
  Key = Key
  Base <- MCBase
  None = None
  MaxElections = 2
  MaxFailures = 1
SPECIFICATION RSFairSpec
CHECK_DEADLOCK FALSE
INVARIANTS RSTypeOK AnswerMatchesLog AtMostOnce RetryIsSafe
PROPERTIES RequestsAnswered
