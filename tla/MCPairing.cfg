CONSTANTS
  Scenarios <- MCScenarios
  Passkeys = {1, 3}
  Rounds = 2
  LastRefusal = 1
SPECIFICATION Spec
INVARIANTS
  TypeOK
  KeysStayEncrypted
  BondsAgree
  AuthenticatedByUsers
PROPERTIES
  PairingReturns
  BondsBecomeMutual
CHECK_DEADLOCK FALSE
