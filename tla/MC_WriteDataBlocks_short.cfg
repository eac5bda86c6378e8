CONSTANTS
  MaxBlocks = 3
  MaxBlockLen = 2
  Offsets <- MCOffsets
  Lengths <- MCLengths
SPECIFICATION Spec
INVARIANTS
  ShortRangeRejected
CHECK_DEADLOCK FALSE
