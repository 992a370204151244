CONSTANTS
  i1 = i1
  i2 = i2
  i3 = i3
  p1 = p1
  Items <- MCItems
  Producers <- MCProducers
  Capacity = 1
  LookaheadBurst = 2
  UsedPriorities = {"immediate", "lookahead", "download", "background"}
SPECIFICATION FairSpec
INVARIANTS WorkBounded NobodyWaitsInVain
PROPERTIES LivePlaybackFirst DownloadProgress
