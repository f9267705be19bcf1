SPECIFICATION FairSpec
CONSTANTS
  c1 = c1
  c2 = c2
  Conns = {c1, c2}
  MaxConns = 1
  MayAsk <- MCClients
  MaxRequests = 2
  MaxPieces = 2
INVARIANTS
  SlotsAreExact
  AnswersAreFramed
PROPERTY
  ConnectionsEnd
CHECK_DEADLOCK FALSE
