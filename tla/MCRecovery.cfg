SPECIFICATION MCSpec
CONSTANTS
  server = server
  cli = cli
  t1 = t1
  t2 = t2
  t3 = t3
  a = a
  b = b
  c = c
  Missing = {missing}
  Corrupt = {corrupt}
  Nobody = Nobody
  Procs = {server, cli}
  Pids = {1, 2, 3}
  ReusePids = FALSE
  Tasks = {t1, t2, t3}
  Home <- MCHome
  Kind <- MCKind
  Tag <- MCTags
  Critical = FALSE
  Budget <- MCBudget
  b1 = b1
  b2 = b2
PROPERTIES DeletedFilesGo CallsEnd StoreKept
CHECK_DEADLOCK FALSE
