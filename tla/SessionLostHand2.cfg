\* One handshake datagram may be lost.
CONSTANTS
  Timeout = 2
  KqCap = 3
  Scenarios <- LostHand2
SPECIFICATION Spec
PROPERTY AllDelivered
CHECK_DEADLOCK FALSE
