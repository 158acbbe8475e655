\* the relay, a request, and restarts of both programs
SPECIFICATION FairSpec
CONSTANTS
  m1 = m1
  m2 = m2
  m3 = m3
  out = out
  ann = ann
  bob = bob
  q1 = q1
  q2 = q2
  Participants = {ann, bob}
  With <- Correspondents
  Incoming = {m1, m3}
  Outgoing = {out}
  Long = {m1}
  Stale = {m3}
  Requests = {q1}
  LostParts = FALSE
  MaxPath = 3
  MaxRestarts = 1
  MaxCrashes = 1
  MaxFaults = 1
INVARIANTS
  NothingLost OneRow
PROPERTIES
  DeleteOwn Forwarded
CHECK_DEADLOCK FALSE
