SPECIFICATION AlphaSpec
CONSTANTS
  MAX_THREADS = 8
  NumThreads = 1
  NumElements = 1
  Tasks = {t1}
  NoTask = NoTask
  CommandLines <- Lines
INVARIANT NothingLeaked
CHECK_DEADLOCK FALSE
