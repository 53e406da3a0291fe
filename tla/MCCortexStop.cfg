CONSTANTS
  NumThreads = 1
  MAX_THREADS = 8
  Tasks = {t1}
  NoTask = NoTask
SPECIFICATION FairSpec
PROPERTIES
  StopReturns
