CONSTANTS
  NumThreads = 1
  MAX_THREADS = 8
  Clients = {c1}
  Tasks = {t1}
  NoTask = NoTask
SPECIFICATION FairSpec
PROPERTIES
  DrainReturns
CHECK_DEADLOCK FALSE
