CONSTANTS
  Threads = {1, 2}
  Handles = {1, 2}
  Scenarios <- MCScenarios
  Services = 1
  MaxIndications = 1
  LastDenial = 1
  MayDisconnect = TRUE
SPECIFICATION Spec
INVARIANTS
  TypeOK
  OwnResponse
  TransfersWhole
PROPERTIES
  ProceduresReturn
CHECK_DEADLOCK FALSE
