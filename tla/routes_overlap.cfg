\* two modems at once, each taking the default route from the host or the other;
\* the bound on a record's changes may stop it
SPECIFICATION Spec
CONSTANTS
  a = a
  b = b
  c = c
  eth = eth
  wifi = wifi
  Modems = {a, b}
  Wans = {eth, wifi}
  Families = {4}
  FamiliesOf <- AllFamilies
  HostRoutes <- OneHostRoute
  Requests <- DefaultOnly
  MaxFaults = 0
  Restarts = {}
  MaxCrashes = 0
  MaxBusy = 2
  MaxChanges = 1
SYMMETRY AlikeModems
CHECK_DEADLOCK FALSE
INVARIANTS
  RoutedWhileTracked WriteAhead
