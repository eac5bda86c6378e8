CONSTANTS
  MaxPayload = 5
  MaxData = 3
  MaxParity = 1
SPECIFICATION Spec
INVARIANTS
  RoundTrip
  ChunkSizeIsLeast
CHECK_DEADLOCK FALSE
