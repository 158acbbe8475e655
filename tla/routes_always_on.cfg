\* one modem, one failure, one restart of the process or the machine
SPECIFICATION FairSpec
CONSTANTS
  a = a
  b = b
  c = c
  eth = eth
  wifi = wifi
  Modems = {a}
  Wans = {eth, wifi}
  Families = {4}
  FamiliesOf <- AllFamilies
  HostRoutes <- ThreeHostRoutes
  Requests <- AnyRequest
  MaxFaults = 1
  Restarts = {TRUE, FALSE}
  MaxCrashes = 1
  MaxBusy = 1
  MaxChanges = 9
PROPERTIES
  Reconnects
