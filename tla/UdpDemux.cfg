CONSTANTS
  c1 = c1
  c2 = c2
  c3 = c3
  Client <- MCClient
  Conv <- MCConv
  MaxSock = 3
  Scenarios <- MCScenarios
SPECIFICATION Spec
CHECK_DEADLOCK FALSE
INVARIANTS TypeOK NothingDangles DataFromOwner ReadyIsPaired
PROPERTY HandshakeCompletes
