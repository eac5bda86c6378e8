CONSTANTS
  c1 = c1
  c2 = c2
  b1 = b1
  g1 = g1
  g2 = g2
  g3 = g3
  Clients = {c1}
  Buckets = {b1}
  ArgKinds = {"fsPath"}
  MaxRequests = 0
  Getters = {g1}
  Method <- MCRaceMethod
  Versions <- MCVersions
  PutInputs = {"ok"}
  MaxPuts = 2
SPECIFICATION Spec
INVARIANTS
  BodyMatchesETag
