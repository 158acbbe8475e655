SPECIFICATION Spec
CONSTANTS
  r1 = r1
  r2 = r2
  Calls = {1}
  Requests = {r1, r2}
  MaxSessions = 2
  MaxRequests = 2
  MaxFaults = 1
SYMMETRY AnyRequest
INVARIANTS
  Backed
PROPERTIES
  StaysEnded AnsweredKept
CHECK_DEADLOCK FALSE
