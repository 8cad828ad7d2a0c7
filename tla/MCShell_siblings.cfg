CONSTANTS
  Addr <- AllAddresses
  MallocMay <- LowestFree
  Names = {"bin", "home", "liveuser", "root", "etc", "README.txt", "users", "groups", "d"}
  Users = {0, 1001}
  Contents = {"text", "users"}
  NULL = NULL
  Empty = Empty
  MaxChildren = 4
  Installed <- AllInstalled
  Paths <- NewInRoot
  Written = {"text"}
  Modes <- NoModes
  UsersFile = "users"
  Text = "text"
  MaxShells = 1
  StackReuse = FALSE
SPECIFICATION ShellSpec
CHECK_DEADLOCK FALSE
INVARIANTS
  SiblingsDiffer
