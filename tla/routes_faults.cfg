\* any two calls fail or bearers are lost, and the machine restarts twice
SPECIFICATION Spec
CONSTANTS
  a = a
  b = b
  c = c
  eth = eth
  wifi = wifi
  Modems = {a, b}
  Wans = {eth, wifi}
  Families = {4}
  FamiliesOf <- AllFamilies
  HostRoutes <- ThreeHostRoutes
  Requests <- AnyRequest
  MaxFaults = 2
  Restarts = {TRUE}
  MaxCrashes = 2
  MaxBusy = 1
  MaxChanges = 9
INVARIANTS
  HostRoutesBack NoRouteLost
