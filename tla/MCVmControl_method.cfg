CONSTANTS
  Programs <- MethodPrograms
  MaxConditions = 0
SPECIFICATION Spec
CHECK_DEADLOCK FALSE
INVARIANTS
  NeverBroken
