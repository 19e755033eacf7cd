\* A handshake datagram is repeated and getaddrinfo fails.
CONSTANTS
  Timeout = 2
  KqCap = 1
  Scenarios <- RepeatedHand1
SPECIFICATION Spec
INVARIANT TimerHasKcp
CHECK_DEADLOCK FALSE
