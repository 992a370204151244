SPECIFICATION MCSpec
CONSTANTS
  Books = {"x"}
  Main = "x"
  Owners = {"p", "q"}
  Nobody = "nobody"
  Chapters = 1
  Capacity = 1
  Tracked = 2
  Callers = {"r1", "r2"}
  Cancels = {"k1", "k2"}
  Scenes <- MCScenes
  Sessions = {1, 2, 3}
  Clients = {1, 2, 3}
  OwnerKeys = {"p", "q", "r"}
  Places = {1, 2}
  Account <- MCAccount
  None = None
  MaxActive = 2
  MaxAccount = 1
  MaxStarted = 2
  MaxRetained = 1
  Permits = 3
  Sittings <- MCListening
INVARIANT CancelReleases
CHECK_DEADLOCK FALSE
