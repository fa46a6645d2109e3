CONSTANTS
  MaxBlocks = 0
  MaxAreas = 2
  MaxDisable = 3
  MaxBytes = 0
  MaxTrusted = 0
  Sizes = {}
  InitialCapacity = 1
  Failing = {}
  MaxFrames = 3
  MaxHandlers = 1
  MaxHosts = 3
  MaxRuns = 2
  RescueOutside = TRUE
SPECIFICATION VmSpec
CHECK_DEADLOCK FALSE
INVARIANTS
  CollectorOff
