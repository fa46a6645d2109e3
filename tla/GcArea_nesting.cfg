CONSTANTS
  MaxBlocks = 3
  MaxAreas = 3
  MaxDisable = 0
  MaxBytes = 0
  MaxTrusted = 1
  Sizes = {1}
  InitialCapacity = 1
  Failing = {}
SPECIFICATION Spec
CHECK_DEADLOCK FALSE
INVARIANTS
  ChainIsOpenAreas
  CountIsDepth
  NotFoundIsBoehm
  NothingLeaks
  TrustedReferencesHold
  FreedWithinAllocated
PROPERTIES
  BlocksHaveOneOwner
