\* Three workers, three tasks: two workers can race for the last task while a
\* third waits, and the clamp of the constructor is exercised.
CONSTANTS
  NumThreads = 4
  MAX_THREADS = 3
  Tasks = {t1, t2, t3}
  NoTask = NoTask
SPECIFICATION FairSpec
INVARIANTS
  TypeOK
  SingleOwnership
  NoNullExecute
  PopNonEmpty
  SoleExecutor
PROPERTIES
  LeakOnlyInStop
  PoolSpec
  EveryTaskServed
  DrainReturns
