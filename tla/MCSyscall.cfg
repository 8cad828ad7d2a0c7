CONSTANTS
  Addr = {a1, a2, a3}
  Names = {"x"}
  Users = {0, 1}
  Contents <- TwoBytes
  NULL = NULL
  Empty <- NoBytes
  MallocMay <- AnyFree
  MaxChildren = 1
  Cells = {c1, c2, c3}
  Callers <- TwoUsers
  Served <- OneUser
  Ids = {1, 3}
  Paths <- OnePath
  Rooms = {0, 2, 3}
  Modes <- NoWriting
  NoAnswer = NoAnswer
  Function = Function
SPECIFICATION SyscallSpec
SYMMETRY AddrSymmetry
CHECK_DEADLOCK FALSE
PROPERTIES
  RightsAskedAtUse
  ImplementsDescriptors
