SPECIFICATION TestSpec
CONSTANTS
  NumThreads = 2
  MAX_THREADS = 8
  Clients = {main}
  Tasks = {t1, t2}
  NoTask = NoTask
INVARIANT AssertHolds
