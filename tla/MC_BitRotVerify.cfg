CONSTANTS
  n1 = n1
  n2 = n2
  p1 = p1
  p2 = p2
  c1 = c1
  c2 = c2
  NoData = NoData
  NoEntry = NoEntry
  Nodes = {n1, n2}
  Parts = {p1, p2}
  Contents = {c1, c2}
  Arch <- MCArch
  HashAlgos = {"blake2b", "sha256"}
  Hashes <- MCHashes
  MaxWrites = 4
  MaxRots = 2
  ForeignAlgos = {}
SPECIFICATION Spec
INVARIANTS
  TypeOK
  VerdictMatchesShard
  ChecksumNamesUnique
PROPERTIES
  ChecksumsRefineMap
