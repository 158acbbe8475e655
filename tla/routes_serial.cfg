\* three modems, one operation at a time, no failure
SPECIFICATION Spec
CONSTANTS
  a = a
  b = b
  c = c
  eth = eth
  wifi = wifi
  Modems = {a, b, c}
  Wans = {eth, wifi}
  Families = {4}
  FamiliesOf <- AllFamilies
  HostRoutes <- OneHostRoute
  Requests <- AnyRequest
  MaxFaults = 0
  Restarts = {}
  MaxCrashes = 0
  MaxBusy = 1
  MaxChanges = 9
INVARIANTS
  AllRestored RecoverReconstructs
PROPERTIES
  LastComeFirstServed
