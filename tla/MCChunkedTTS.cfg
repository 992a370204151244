SPECIFICATION FairSpec
CONSTANTS
  Chunks = {1, 2}
  Consumers = {"a", "b"}
  Listener = "listener"
  Anon = "anonymous"
  Limit = 1
  MaxBuilds = 2
  Recoveries = 1
  Scenes <- MCScenes
INVARIANTS RetiredLeaveNothing OwnersDurable DeletedBookForgotten
PROPERTIES ClaimsLeaveWithOwners ChapterSettles
CHECK_DEADLOCK FALSE
