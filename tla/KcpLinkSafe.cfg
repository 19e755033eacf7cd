\* Three loads: fragments and races, both ends sending, windows out of date.
CONSTANTS
  WndInit = 1
  FastResend = 1
  MtuSegs = 2
  End = {"a", "b"}
  Loads <- SafeLoads
  NetCap = 2
SPECIFICATION SafetySpec
INVARIANTS TypeOK SendBufferOrdered ReceiveBufferOrdered AckedIsStored SpreadBounded
PROPERTY StreamSafety
CHECK_DEADLOCK FALSE
