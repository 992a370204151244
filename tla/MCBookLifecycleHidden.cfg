SPECIFICATION LifeSpec
CONSTANTS
  b1 = b1
  b2 = b2
  Books = {b1, b2}
  Nobody = Nobody
  i1 = i1
  Commands <- MCCommands
  Importers = {i1}
  Refreshable = {}
  MaxDeletes = 2
  Sweeps = 0
  Feeds = TRUE
  MaxFaults = 0
  MaxCrashes = 0
INVARIANT DeletionRecorded
CHECK_DEADLOCK FALSE
