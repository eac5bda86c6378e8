CONSTANTS
  c1 = c1
  c2 = c2
  b1 = b1
  g1 = g1
  g2 = g2
  g3 = g3
  Clients = {c1, c2}
  Buckets = {b1}
  ArgKinds = {"help", "fsPath", "distURLs"}
  MaxRequests = 2
  Getters = {g1, g2, g3}
  Method <- MCMethod
  Versions <- MCServerVersions
  PutInputs = {"ok"}
  MaxPuts = 1
SPECIFICATION Spec
INVARIANTS
  TypeOK
  CompleteResponses
