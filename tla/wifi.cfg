SPECIFICATION FairSpec
CONSTANTS
  p1 = p1
  p2 = p2
  r1 = r1
  r2 = r2
  Profiles = {p1}
  Requests = {r1}
  Tries = 1
  MaxSessions = 2
  MaxClients = 2
  MaxSheets = 1
  MaxRequests = 1
  MaxMoves = 1
  MaxFaults = 1
INVARIANTS
  Stoppable NoOrphans Honest
PROPERTIES
  Reconnects CallbackReturns
CHECK_DEADLOCK FALSE
