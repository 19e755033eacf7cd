\* Capacity 4 and writes of up to 5 bytes: every alignment of the two heads,
\* the full ring, the empty ring at every offset and the refused write.
CONSTANTS
  Byte = {0, 1}
  N = 4
  MaxPut = 5
SPECIFICATION Spec
INVARIANTS TypeOK Asserts
PROPERTY Refinement
