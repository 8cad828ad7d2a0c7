SPECIFICATION Spec
CONSTANTS
  PoolSize = 14
  HeaderSize = 2
  Requests = {1, 2, 3, 5, 8}
INVARIANTS
  PanicMeansPoolExhausted
CHECK_DEADLOCK FALSE
