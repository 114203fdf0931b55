SPECIFICATION Spec
CONSTANTS
  Duration = 2
  PauseLengths = {2}
  MaxExtensions = 1
  ExtensionMax = 1
  OverridesCount = TRUE
  Horizon = 5
  MaxFaults = 1
INVARIANTS
  TypeOK
  LedgerBalances
  ClocksAgree
PROPERTIES
  NeverExceededEarly
  OverdueIsMarkedUnlessMishap
CHECK_DEADLOCK FALSE
