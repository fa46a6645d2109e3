CONSTANTS
  Programs <- ReturnPrograms
  MaxConditions = 0
SPECIFICATION FairSpec
CHECK_DEADLOCK FALSE
PROPERTIES
  EnsureRuns
