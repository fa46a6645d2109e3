CONSTANTS
  Programs <- AllPrograms
  MaxConditions = 6
SPECIFICATION Spec
CHECK_DEADLOCK FALSE
INVARIANTS
  CompiledAgrees
  LiveFramesStay
