SPECIFICATION FairSpec
CONSTANTS
  PoolSize = 16
  HeaderSize = 2
  Requests = {1, 2, 3, 5}
INVARIANTS
  ListWellFormed
  Coalesced
  OwnersMatchBlocks
  PanicJustified
PROPERTIES
  FirstFit
  BytesConserved
  ImplementsAllocator
  MallocEnds
CHECK_DEADLOCK FALSE
