\* A window that closes after every segment, and losses.
CONSTANTS
  WndInit = 1
  FastResend = 1
  MtuSegs = 2
  End = {"a", "b"}
  Loads <- LiveLoads
  NetCap = 2
SPECIFICATION Spec
PROPERTY EverythingArrives
CHECK_DEADLOCK FALSE
