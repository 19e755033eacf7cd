\* A send() on the UDP socket may fail.
CONSTANTS
  Timeout = 2
  KqCap = 3
  Scenarios <- UdpSend
SPECIFICATION Spec
INVARIANT ClientSurvives
CHECK_DEADLOCK FALSE
