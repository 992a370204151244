CONSTANTS
  t1 = t1
  t2 = t2
  t3 = t3
  t4 = t4
  Nobody = Nobody
  Books = {1, 2}
  Tasks <- MCTasks
  Timers <- MCTimers
  Plans <- MCPlans
  Depth = 2
SPECIFICATION FairSpec
INVARIANTS OwnershipSound SectionsExclusive
PROPERTY SectionsComplete
