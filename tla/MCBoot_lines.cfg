CONSTANTS
  PageSize = 4
  LongRange = 256
  Maps <- SomeMaps
  Sizes = {1}
  Alignments = {0}
  BiosMasks = {0, 188, 255}
SPECIFICATION BootSpec
INVARIANT LinesReachTheirStubs
CHECK_DEADLOCK FALSE
