CONSTANTS
  c1 = c1
  c2 = c2
  b1 = b1
  Clients = {c1, c2}
  Buckets = {b1}
  ArgKinds = {"none", "help", "fsPath", "xlPaths", "distURLs", "badArgs"}
  MaxRequests = 3
SPECIFICATION Spec
INVARIANTS
  ListBucketsAnswered
