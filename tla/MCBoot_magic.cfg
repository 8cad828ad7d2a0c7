CONSTANTS
  PageSize = 4
  LongRange = 256
  Maps <- SomeMaps
  Sizes = {1}
  Alignments = {0}
  BiosMasks = {0}
SPECIFICATION BootSpec
INVARIANT MissingInfoStops
CHECK_DEADLOCK FALSE
