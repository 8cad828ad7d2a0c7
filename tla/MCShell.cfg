CONSTANTS
  Addr <- JustEnough
  MallocMay <- LowestFree
  Names = {"bin", "home", "liveuser", "root", "etc", "README.txt", "users", "groups", "d"}
  Users = {0, 1001}
  Contents = {"text", "users"}
  NULL = NULL
  Empty = Empty
  MaxChildren = 4
  Installed <- HomesAndUsers
  Paths <- NearPaths
  Written = {"text"}
  Modes <- AnyMode
  UsersFile = "users"
  Text = "text"
  MaxShells = 2
  StackReuse = TRUE
SPECIFICATION ShellFairSpec
CHECK_DEADLOCK FALSE
INVARIANTS
  LinksAgree
  HeldNodeLive
  RootStays
PROPERTIES
  DirectoriesAskedFirst
  CommandsEnd
