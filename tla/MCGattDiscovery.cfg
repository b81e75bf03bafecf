CONSTANTS
  Threads = {1, 2}
  Handles = {1, 2}
  Scenarios <- MCDiscovery
  Services = 1
  MaxIndications = 0
  LastDenial = 0
  MayDisconnect = FALSE
SPECIFICATION Spec
INVARIANTS
  ResponsesPaired
CHECK_DEADLOCK FALSE
