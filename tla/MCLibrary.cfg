SPECIFICATION MCSpec
CONSTANTS
  Users = {"ann", "bob"}
  Newest = 2
  Budgets <- MCBudgets
  Chapters = {1, 2, 3, 4}
  Plans <- MCPlans
  MaxTrouble = 2
  Devices = {1, 2}
  Places = {0, 1, 2}
  Trips <- MCTrips
  b1 = b1
  b2 = b2
  i1 = i1
  i2 = i2
  Nobody = Nobody
  Books = {b1, b2}
  Importers = {i1, i2}
  Commands <- MCCommands
  Refreshable = {b1, b2}
  MaxDeletes = 2
  Sweeps = 3
  Feeds = TRUE
  MaxFaults = 1
  MaxCrashes = 1
INVARIANTS FilesFollowLibrary AllOrNothing ListenersKept AudioKept PositionsKept
PROPERTY CursorSound
CHECK_DEADLOCK FALSE
