CONSTANTS
  Addr <- JustEnough
  MallocMay <- LowestFree
  Names = {"bin", "home", "liveuser", "root", "etc", "README.txt", "users", "groups", "d"}
  Users = {0, 1001}
  Contents = {"text", "users"}
  NULL = NULL
  Empty = Empty
  MaxChildren = 4
  Installed <- HomesAndUsers
  Paths <- UserPaths
  Written = {"text"}
  Modes <- NoModes
  UsersFile = "users"
  Text = "text"
  MaxShells = 2
  StackReuse = FALSE
SPECIFICATION ShellSpec
CHECK_DEADLOCK FALSE
INVARIANTS
  CurrentDirExists
