\* Two queues and two clients, so that a client can push on what another one has
\* made the longer queue; three tasks, so that a worker can have one and its
\* queue another; a third thread is asked for, and clamped away.  A second
\* drain() blocks for ever: see MCMultiQueueDrain.
CONSTANTS
  NumThreads = 3
  MAX_THREADS = 2
  Clients = {c1, c2}
  Tasks = {t1, t2, t3}
  NoTask = NoTask
SPECIFICATION FairSpec
INVARIANTS
  TypeOK
  TokenBalance
  PopNonEmpty
  EmptyMeansIdle
  LoadBalanced
PROPERTIES
  DrainMeansEmpty
  PoolSpec
  EveryTaskServed
  StopReturns
  DrainProceeds
CHECK_DEADLOCK FALSE
