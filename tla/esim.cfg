CONSTANTS
  r1 = r1
  r2 = r2
  p1 = p1
  p2 = p2
  Calls = {r1, r2}
  Profiles = {p1, p2}
  First = p1
  NoSim = NoSim
  Nobody = Nobody
  Qmi = TRUE
  MaxReloads = 1
  MaxFaults = 2
  Answers = 2
  Alone = {"number"}
  KindsOf <- AddAndRemove
SPECIFICATION FairSpec
INVARIANTS OneClient Reported Consent
PROPERTIES EndInTime
CHECK_DEADLOCK FALSE
