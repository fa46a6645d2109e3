CONSTANTS
  MaxBlocks = 0
  MaxAreas = 2
  MaxDisable = 2
  MaxBytes = 0
  MaxTrusted = 0
  Sizes = {}
  InitialCapacity = 1
  Failing = {}
  MaxFrames = 3
  MaxHandlers = 1
  MaxHosts = 2
  MaxRuns = 1
  RescueOutside = TRUE
SPECIFICATION VmSpec
CHECK_DEADLOCK FALSE
INVARIANTS
  ContextsClosed
