CONSTANTS
  j1 = j1
  j2 = j2
  p1 = p1
  p2 = p2
  live = live
  bookA = bookA
  bookB = bookB
  Jobs <- MCJobs
  Paths <- MCPaths
  Owners <- MCOwners
  Books = {bookA, bookB}
  ChapterOf <- OneChapter
  BookOf <- TwoBooks
  AsksFor <- LookaheadAndDownload
  Promotes = {"immediate"}
  Rendered = {}
  MaxConcurrent = 1
  Window = 3
  LookaheadBurst = 1
  UsesAdmission = FALSE
  NoJob = NoJob
  NoBook = NoBook
  NoClaim = NoClaim
  NoCall = NoCall
SPECIFICATION Spec
INVARIANT QueueOrdered
PROPERTIES UrgentFirst
SYMMETRY MCSymmetry
