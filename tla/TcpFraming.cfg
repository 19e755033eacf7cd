\* The proportions of the code: one read can fill the ring (both are
\* KCPEV_BUFFER_SIZE), so the ring overflows.  Packets as small as their
\* header, spanning up to five reads, and reads that span two packets.
CONSTANTS
  Cap = 6
  RecvMax = 6
  HeaderSize = 2
  Sizes = {2, 3, 5}
  MaxPackets = 4
SPECIFICATION Spec
INVARIANTS TypeOK ReassembledUnlessOverflow NothingCompleteWaits ClosedAfterAll
PROPERTIES EverythingHandled PacedIsWhole
CHECK_DEADLOCK FALSE
