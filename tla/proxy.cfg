\* one client, two modems, one failure, one restart and one change of the settings
SPECIFICATION FairSpec
CONSTANTS
  a = a
  b = b
  wwan0 = wwan0
  wwan1 = wwan1
  s1 = s1
  None = None
  Modems = {a, b}
  Interfaces = {wwan0, wwan1}
  NamesOf <- SharedName
  Configs <- ThreeConfigs
  First <- Old
  Slots = {s1}
  Servers = 3
  MaxRequests = 2
  MaxUpdates = 1
  MaxRestarts = 1
  MaxFaults = 1
INVARIANTS
  Bound Ports Remembered
PROPERTIES
  Dropped
CHECK_DEADLOCK FALSE
