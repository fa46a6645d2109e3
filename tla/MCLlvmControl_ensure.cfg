CONSTANTS
  Programs <- EnsurePrograms
  MaxConditions = 1
SPECIFICATION Spec
CHECK_DEADLOCK FALSE
INVARIANTS
  EnsuresRunBeforeReturning
