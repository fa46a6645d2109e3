CONSTANTS
  MaxBlocks = 0
  MaxAreas = 3
  MaxDisable = 3
  MaxBytes = 0
  MaxTrusted = 0
  Sizes = {}
  InitialCapacity = 1
  Failing = {}
  MaxFrames = 4
  MaxHandlers = 1
  MaxHosts = 3
  MaxRuns = 2
  RescueOutside = FALSE
SPECIFICATION VmSpec
CHECK_DEADLOCK FALSE
INVARIANTS
  VmTypeOK
PROPERTIES
  ManagerFollowsScopes
