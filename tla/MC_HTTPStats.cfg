CONSTANTS
  p1 = p1
  p2 = p2
  Procs = {p1, p2}
  Methods = {"GET", "PUT", "PATCH"}
  StatusCodes = {200, 300, 404}
  Durations = {1, 2}
  MaxRequests = 3
SPECIFICATION Spec
INVARIANTS
  TypeOK
  SuccessNeverExceedsTotal
PROPERTIES
  CountersRefineAtomic
