CONSTANTS
  c1 = c1
  c2 = c2
  c3 = c3
  Client <- MCClient
  Conv <- MCConv
  MaxSock = 2
  Scenarios <- StillOnly
SPECIFICATION Spec
CHECK_DEADLOCK FALSE
PROPERTY EveryClientGetsKcp
