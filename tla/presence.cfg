\* two modems come and go, also by a restart of ModemManager, except while Run uses its list
SPECIFICATION FairSpec
CONSTANTS
  p = p
  q = q
  r = r
  a = a
  b = b
  t1 = t1
  t2 = t2
  t3 = t3
  t4 = t4
  None = None
  client = client
  Clients = {client}
  Paths = {p, q}
  Equipment = {a, b}
  Nameless = {b}
  Tasks = {t1, t2, t3}
  MaxChanges = 2
  MaxStops = 1
  MaxFaults = 1
  QuietList = TRUE
INVARIANTS
  OneTaskEach Reachable NoneLeft Served
PROPERTIES
  Returns
CHECK_DEADLOCK FALSE
