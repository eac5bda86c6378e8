CONSTANTS
  h1 = h1
  h2 = h2
  b1 = b1
  b2 = b2
  b3 = b3
  Hashers <- MCHashers
  BufIds <- MCBufIds
  BufSize = 2
  MaxFileLen = 3
  MaxCalls = 2
SPECIFICATION Spec
INVARIANTS
  TypeOK
  BufferExclusive
  
PROPERTIES
  HashSumReturns
