SPECIFICATION Spec
CONSTANTS
  Duration = 2
  PauseLengths = {2}
  MaxExtensions = 1
  ExtensionMax = 1
  OverridesCount = TRUE
  Horizon = 6
  MaxFaults = 0
INVARIANT
  PauseExpiryIsTrue
CHECK_DEADLOCK FALSE
