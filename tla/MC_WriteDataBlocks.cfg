CONSTANTS
  MaxBlocks = 3
  MaxBlockLen = 2
  Offsets <- MCOffsets
  Lengths <- MCLengths
SPECIFICATION Spec
INVARIANTS
  TypeOK
  OutputIsWindowPrefix
  CallResultMatchesReference
CHECK_DEADLOCK FALSE
