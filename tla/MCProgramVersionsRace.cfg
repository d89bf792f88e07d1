CONSTANTS
  MaxVersions = 2
  MaxInstallations = 1
  MaxLeases = 1
SPECIFICATION Spec
CHECK_DEADLOCK FALSE
INVARIANT
  RaceTolerated
