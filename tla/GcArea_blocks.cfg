CONSTANTS
  MaxBlocks = 3
  MaxAreas = 2
  MaxDisable = 2
  MaxBytes = 4
  MaxTrusted = 0
  Sizes = {1, 2}
  InitialCapacity = 1
  Failing = {"malloc", "boehm"}
SPECIFICATION AnyOrderSpec
CHECK_DEADLOCK FALSE
INVARIANTS
  TypeOK
  UniqueOwner
  TrackedIsMalloc
  BytesAreSummed
  FinalizedOnce
  FinalizerKept
PROPERTIES
  NoCollectionWhileDisabled
