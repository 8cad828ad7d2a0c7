CONSTANTS
  PageSize = 4
  LongRange = 256
  Maps <- SomeMaps
  Sizes = {1, 4, 5, 12}
  Alignments = {0, 4, 6, 8}
  BiosMasks = {0, 188, 255}
SPECIFICATION BootFairSpec
INVARIANTS
  MaskedWhenEnabled
  HeldDisjoint
  OnlyUsableHeld
PROPERTIES
  FailOnlyWhenFull
  MarksFollowOwners
  WalkEnds
CHECK_DEADLOCK FALSE
