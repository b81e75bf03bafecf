CONSTANTS
  Methods = {"none", "input", "output"}
  Fragments <- MCFragments
  MaxRounds = 10
SPECIFICATION Spec
INVARIANTS
  TypeOK
  ProvisionedTogether
PROPERTIES
  ImplementsChannel
  ProvisioningEnds
CHECK_DEADLOCK FALSE
