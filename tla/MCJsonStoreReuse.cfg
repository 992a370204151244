CONSTANTS
  server = server
  cli = cli
  t1 = t1
  t2 = t2
  t3 = t3
  a = a
  b = b
  c = c
  Missing = {missing}
  Corrupt = {corrupt}
  Nobody = Nobody
  Procs = {server, cli}
  Pids = {1, 2, 3}
  ReusePids = TRUE
  Tasks = {t1, t2, t3}
  Home <- MCHome
  Kind <- MCUpdates
  Tag <- MCTags
  Critical = FALSE
  Budget <- MCKill
SPECIFICATION FairSpec
PROPERTY CallsEnd
CHECK_DEADLOCK FALSE
