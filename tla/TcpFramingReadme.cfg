\* The same instance against the promise of the README.
CONSTANTS
  Cap = 6
  RecvMax = 6
  HeaderSize = 2
  Sizes = {2, 3, 5}
  MaxPackets = 4
SPECIFICATION Spec
INVARIANT Reassembled
CHECK_DEADLOCK FALSE
