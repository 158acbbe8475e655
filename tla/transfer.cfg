CONSTANTS
  t1 = t1
  t2 = t2
  a = a
  b = b
  c = c
  l1 = l1
  l2 = l2
  Transfers = {t1, t2}
  Places = {a, b, c}
  Lines = {l1, l2}
  NoLine = NoLine
  Nobody = Nobody
  MaxEvents <- TwoAndOne
  Browsers <- SomeBrowsers
  MaxFaults = 1
  Plans <- SomePlans
SPECIFICATION FairSpec
INVARIANTS SourceKept NothingKept
PROPERTIES LeavesActive TransfersEnd
CHECK_DEADLOCK FALSE
