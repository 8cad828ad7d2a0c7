CONSTANTS
  Addr = {a1, a2, a3, a4, a5}
  Names = {"x", "y"}
  Users = {0}
  Contents = {"p", "q"}
  NULL = NULL
  Empty = Empty
  MallocMay <- AnyFree
  MaxChildren = 3
SPECIFICATION Spec
SYMMETRY AddrSymmetry
CHECK_DEADLOCK FALSE
INVARIANTS
  LinksAgree
  DeletionPath
  NothingLost
  PwdResolves
PROPERTIES
  OrderKept
  DeleteAdvances
  ImplementsNameTree
