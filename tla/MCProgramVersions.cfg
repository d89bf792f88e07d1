CONSTANTS
  MaxVersions = 3
  MaxInstallations = 2
  MaxLeases = 1
SPECIFICATION Spec
CHECK_DEADLOCK FALSE
INVARIANTS
  VersionsWhole
  AbandonmentAsked
PROPERTY
  NoLostUpdate
