CONSTANTS
  Programs <- AllPrograms
  MaxConditions = 3
SPECIFICATION FairSpec
CHECK_DEADLOCK FALSE
INVARIANTS
  TypeOK
  BackendsAgreeOnControl
  HandlersAreLive
  LoopsAreLive
  NothingLeftBehind
  NeverSilentlyWrong
PROPERTIES
  Terminates
