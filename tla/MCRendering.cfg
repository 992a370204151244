CONSTANTS
  j1 = j1
  j2 = j2
  p1 = p1
  p2 = p2
  p3 = p3
  live = live
  prep = prep
  bookA = bookA
  Jobs <- MCJobs
  Paths <- MCPaths
  Owners <- MCOwners
  Books = {}
  ChapterOf <- OneChapter
  BookOf <- OneBook
  AsksFor <- LiveAndBackground
  Promotes = {"immediate"}
  Rendered <- MCRendered
  MaxConcurrent = 1
  Window = 1
  LookaheadBurst = 1
  UsesAdmission = TRUE
  NoJob = NoJob
  NoBook = NoBook
  NoClaim = NoClaim
  NoCall = NoCall
  out1 = out1
  out2 = out2
  t1 = t1
  t2 = t2
  t3 = t3
  Absent = Absent
  Legacy = Legacy
  Damaged = Damaged
  NoMark = NoMark
  Outputs = {out1, out2}
  Recipes = {r1, r2}
  Tasks = {t1, t2, t3}
  At <- MCAt
  MaxTakes = 1
  Scenes <- MCScenes
SPECIFICATION MCSpec
INVARIANTS OneJobPerPath NoStall ClaimsAccounted WindowRespected Provenance ArtifactsPure
SYMMETRY MCSymmetry
CHECK_DEADLOCK FALSE
