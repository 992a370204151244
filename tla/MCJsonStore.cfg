CONSTANTS
  server = server
  cli = cli
  t1 = t1
  t2 = t2
  t3 = t3
  a = a
  b = b
  c = c
  Missing = {missing}
  Corrupt = {corrupt}
  Nobody = Nobody
  Procs = {server, cli}
  Pids = {1, 2, 3}
  ReusePids = FALSE
  Tasks = {t1, t2, t3}
  Home <- MCHome
  Kind <- MCMixed
  Tag <- MCRetry
  Critical = TRUE
  Budget <- MCAll
SPECIFICATION Spec
PROPERTIES ImplementsAtomicStore BackupBeforeReplace FailsClosed
CHECK_DEADLOCK FALSE
