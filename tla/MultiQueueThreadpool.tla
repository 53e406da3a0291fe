------------------------ MODULE MultiQueueThreadpool ------------------------
(***************************************************************************)
(* The MultiQueueThreadpool (multiqueue_threadpool.h/.cpp): every worker   *)
(* thread has a queue of its own, and two semaphores beside it.  task_sem  *)
(* counts the tasks in the queue, plus one wake-up from stop(); empty_sem  *)
(* tells drain() that the worker has found no more work.                   *)
(*                                                                         *)
(* Client threads call enqueue_task.  The owner thread calls start, drain, *)
(* stop and the destructor, one after the other, within the contract the   *)
(* header states: no enqueue_task during a drain, no start after a stop,   *)
(* and no call during destruction.  d_qlock is held only inside one action *)
(* of this model, and so needs no variable: what is done under it is one   *)
(* step, what is done outside of it (the semaphores, the flag d_running)   *)
(* is a step of its own.                                                   *)
(***************************************************************************)
EXTENDS Integers, Sequences, FiniteSets

CONSTANTS
  NumThreads,   \* the argument of the constructor
  MAX_THREADS,  \* 8 in multiqueue_threadpool.h
  Clients,      \* the threads that call enqueue_task
  Tasks,        \* the task objects they bind
  NoTask        \* no task

\* With no thread there is no queue, and enqueue_task indexes an empty vector.
ASSUME NumThreadsAssumption == NumThreads \in Nat \ {0} /\ MAX_THREADS \in Nat \ {0}
ASSUME NoTaskAssumption == NoTask \notin Tasks

VARIABLES
  processing,  \* d_processing, which only the owner reads and writes
  running,     \* d_running of each queue
  queue,       \* d_queue, front first
  taskSem,     \* the value of d_task_sem
  emptySem,    \* the value of d_empty_sem
  worker,      \* where each worker thread is
  job,         \* the task a worker has popped
  enqueue,     \* the local variables of each client inside enqueue_task
  owner,       \* where the owner thread is
  at,          \* its loop index i
  resume,      \* what it does once stop() has returned
  task         \* what has become of each Task object

vars == <<processing, running, queue, taskSem, emptySem, worker, job, enqueue,
          owner, at, resume, task>>

-----------------------------------------------------------------------------
(* Threads and their control states.                                       *)

\* The constructor clamps the number of threads; one queue for each.
PoolSize == IF NumThreads > MAX_THREADS THEN MAX_THREADS ELSE NumThreads

Queues == 1 .. PoolSize

INT_MAX == 2147483647

WorkerStates ==
  {"none",      \* not created
   "check",     \* about to test d_running at the head of the loop
   "try",       \* about to tryWait on task_sem
   "post",      \* found it zero, about to post empty_sem
   "wait",      \* waiting on task_sem
   "woken",     \* got a token by waiting, about to test d_running
   "tryEmpty",  \* about to take the token it left in empty_sem back
   "test",      \* has a token, about to test d_running before it pops
   "pop",       \* about to pop its queue
   "execute",   \* inside job->execute()
   "ended",     \* the loop ended: it holds no token
   "returned"}  \* returned from inside the loop, with a token

OwnerStates ==
  {"idle",
   "flag", "post", "join",     \* inside stop()
   "drainWait", "drainTest",   \* inside drain()
   "destroy", "destroyed"}     \* inside, and after, the destructor

TaskStates ==
  {"new", "offered", "queued", "running", "done",
   "deleted"}  \* deleted by the destructor, never executed

\* The local variables of enqueue_task.
Locals == [task : Tasks \cup {NoTask}, i : 1 .. PoolSize + 1,
           lowestIdx : Queues, lowestAmt : Nat]

\* A client that is not inside enqueue_task.
Outside == [task |-> NoTask, i |-> 1, lowestIdx |-> 1, lowestAmt |-> INT_MAX]

Ended(q) == worker[q] \in {"none", "ended", "returned"}

-----------------------------------------------------------------------------
Init ==
  /\ processing = FALSE
  /\ running = [q \in Queues |-> FALSE]
  /\ queue = [q \in Queues |-> <<>>]
  /\ taskSem = [q \in Queues |-> 0]
  /\ emptySem = [q \in Queues |-> 0]
  /\ worker = [q \in Queues |-> "none"]
  /\ job = [q \in Queues |-> NoTask]
  /\ enqueue = [c \in Clients |-> Outside]
  /\ owner = "idle"
  /\ at = 1
  /\ resume = "idle"
  /\ task = [t \in Tasks |-> "new"]

(* enqueue_task: a scan of the queues' sizes, each read under its own lock, *)
(* then a push on the one that was shortest when it was read.               *)

EnqueueCall(c, t) ==
  /\ enqueue[c].task = NoTask
  /\ task[t] = "new"
  /\ owner \notin {"drainWait", "drainTest"}
  /\ resume # "destroy"
  /\ enqueue' = [enqueue EXCEPT ![c].task = t]
  /\ task' = [task EXCEPT ![t] = "offered"]
  /\ UNCHANGED <<processing, running, queue, taskSem, emptySem, worker, job,
                 owner, at, resume>>

\* Mutant: lowestAmt is not updated.
EnqueueScanLast(c) ==
  /\ enqueue[c].task # NoTask
  /\ enqueue[c].i \in Queues
  /\ enqueue' = [enqueue EXCEPT ![c].i = enqueue[c].i + 1,
                                ![c].lowestIdx = enqueue[c].i]
  /\ UNCHANGED <<processing, running, queue, taskSem, emptySem, worker, job,
                 owner, at, resume, task>>

\* One turn of the loop: lock; size = currQ.d_queue.size(); unlock; compare.
EnqueueScan(c) ==
  LET e == enqueue[c]
      size == Len(queue[e.i])
  IN  /\ e.task # NoTask
      /\ e.i \in Queues
      /\ enqueue' = [enqueue EXCEPT ![c] =
           IF size < e.lowestAmt
           THEN [e EXCEPT !.i = e.i + 1, !.lowestIdx = e.i, !.lowestAmt = size]
           ELSE [e EXCEPT !.i = e.i + 1]]
      /\ UNCHANGED <<processing, running, queue, taskSem, emptySem, worker, job,
                     owner, at, resume, task>>

\* Mutant: the push is not followed by a post.
EnqueuePushSilently(c) ==
  LET e == enqueue[c]
  IN  /\ e.task # NoTask
      /\ e.i = PoolSize + 1
      /\ queue' = [queue EXCEPT ![e.lowestIdx] = Append(@, e.task)]
      /\ task' = [task EXCEPT ![e.task] = "queued"]
      /\ enqueue' = [enqueue EXCEPT ![c] = Outside]
      /\ UNCHANGED <<processing, running, taskSem, emptySem, worker, job, owner,
                     at, resume>>

\* lock; push; post task_sem; unlock
EnqueuePush(c) ==
  LET e == enqueue[c]
  IN  /\ e.task # NoTask
      /\ e.i = PoolSize + 1
      /\ queue' = [queue EXCEPT ![e.lowestIdx] = Append(@, e.task)]
      /\ taskSem' = [taskSem EXCEPT ![e.lowestIdx] = @ + 1]
      /\ task' = [task EXCEPT ![e.task] = "queued"]
      /\ enqueue' = [enqueue EXCEPT ![c] = Outside]
      /\ UNCHANGED <<processing, running, emptySem, worker, job, owner, at,
                     resume>>

-----------------------------------------------------------------------------
(* The worker thread of queue q.                                           *)

Goto(q, state) == worker' = [worker EXCEPT ![q] = state]

\* while (processing)
WorkerCheck(q) ==
  /\ worker[q] = "check"
  /\ Goto(q, IF running[q] THEN "try" ELSE "ended")
  /\ UNCHANGED <<processing, running, queue, taskSem, emptySem, job, enqueue,
                 owner, at, resume, task>>

\* if (0 != task_sem.tryWait())
WorkerTry(q) ==
  /\ worker[q] = "try"
  /\ \/ /\ taskSem[q] > 0
        /\ taskSem' = [taskSem EXCEPT ![q] = @ - 1]
        /\ Goto(q, "test")
     \/ /\ taskSem[q] = 0
        /\ Goto(q, "post")
        /\ UNCHANGED taskSem
  /\ UNCHANGED <<processing, running, queue, emptySem, job, enqueue, owner, at,
                 resume, task>>

\* Mutant: the worker waits without telling drain().
WorkerPostNot(q) ==
  /\ worker[q] = "post"
  /\ Goto(q, "wait")
  /\ UNCHANGED <<processing, running, queue, taskSem, emptySem, job, enqueue,
                 owner, at, resume, task>>

\* empty_sem.post()
WorkerPost(q) ==
  /\ worker[q] = "post"
  /\ emptySem' = [emptySem EXCEPT ![q] = @ + 1]
  /\ Goto(q, "wait")
  /\ UNCHANGED <<processing, running, queue, taskSem, job, enqueue, owner, at,
                 resume, task>>

\* task_sem.wait()
WorkerWait(q) ==
  /\ worker[q] = "wait"
  /\ taskSem[q] > 0
  /\ taskSem' = [taskSem EXCEPT ![q] = @ - 1]
  /\ Goto(q, "woken")
  /\ UNCHANGED <<processing, running, queue, emptySem, job, enqueue, owner, at,
                 resume, task>>

\* if (!processing) return NULL
WorkerWoken(q) ==
  /\ worker[q] = "woken"
  /\ Goto(q, IF running[q] THEN "tryEmpty" ELSE "returned")
  /\ UNCHANGED <<processing, running, queue, taskSem, emptySem, job, enqueue,
                 owner, at, resume, task>>

\* Mutant: the worker does not take its empty token back.
WorkerKeepEmpty(q) ==
  /\ worker[q] = "tryEmpty"
  /\ Goto(q, "test")
  /\ UNCHANGED <<processing, running, queue, taskSem, emptySem, job, enqueue,
                 owner, at, resume, task>>

\* Mutant: the token is taken back although drain() may have had it.
WorkerTakeEmpty(q) ==
  /\ worker[q] = "tryEmpty"
  /\ emptySem' = [emptySem EXCEPT ![q] = @ - 1]
  /\ Goto(q, "test")
  /\ UNCHANGED <<processing, running, queue, taskSem, job, enqueue, owner, at,
                 resume, task>>

\* empty_sem.tryWait(), its result ignored: drain() may have had the token.
WorkerTryEmpty(q) ==
  /\ worker[q] = "tryEmpty"
  /\ emptySem' = [emptySem EXCEPT ![q] = IF @ > 0 THEN @ - 1 ELSE 0]
  /\ Goto(q, "test")
  /\ UNCHANGED <<processing, running, queue, taskSem, job, enqueue, owner, at,
                 resume, task>>

\* Mutant: a worker pops for every token it gets.
WorkerTestNot(q) ==
  /\ worker[q] = "test"
  /\ Goto(q, "pop")
  /\ UNCHANGED <<processing, running, queue, taskSem, emptySem, job, enqueue,
                 owner, at, resume, task>>

\* if (!processing) return NULL
WorkerTest(q) ==
  /\ worker[q] = "test"
  /\ Goto(q, IF running[q] THEN "pop" ELSE "returned")
  /\ UNCHANGED <<processing, running, queue, taskSem, emptySem, job, enqueue,
                 owner, at, resume, task>>

\* Mutant: front() without pop().
WorkerPopFront(q) ==
  /\ worker[q] = "pop"
  /\ job' = [job EXCEPT ![q] = Head(queue[q])]
  /\ task' = [task EXCEPT ![Head(queue[q])] = "running"]
  /\ Goto(q, "execute")
  /\ UNCHANGED <<processing, running, queue, taskSem, emptySem, enqueue, owner,
                 at, resume>>

\* lock; job = queue.front(); queue.pop(); unlock; then job->execute()
WorkerPop(q) ==
  /\ worker[q] = "pop"
  /\ job' = [job EXCEPT ![q] = Head(queue[q])]
  /\ queue' = [queue EXCEPT ![q] = Tail(@)]
  /\ task' = [task EXCEPT ![Head(queue[q])] = "running"]
  /\ Goto(q, "execute")
  /\ UNCHANGED <<processing, running, taskSem, emptySem, enqueue, owner, at,
                 resume>>

\* job->execute() returns; delete job
WorkerFinish(q) ==
  /\ worker[q] = "execute"
  /\ task' = [task EXCEPT ![job[q]] = "done"]
  /\ job' = [job EXCEPT ![q] = NoTask]
  /\ Goto(q, "check")
  /\ UNCHANGED <<processing, running, queue, taskSem, emptySem, enqueue, owner,
                 at, resume>>

-----------------------------------------------------------------------------
(* The owner thread: start and stop.                                       *)

\* No worker can be told from one that has not run yet, so the loop of start()
\* is one step.  A pool that was stopped is not started again.
Start ==
  /\ owner = "idle"
  /\ ~processing
  /\ \A q \in Queues : worker[q] = "none"
  /\ processing' = TRUE
  /\ running' = [q \in Queues |-> TRUE]
  /\ worker' = [q \in Queues |-> "check"]
  /\ UNCHANGED <<queue, taskSem, emptySem, job, enqueue, owner, at, resume,
                 task>>

\* stop(), for itself ("idle") or called by the destructor ("destroy")
StopCall(next) ==
  /\ owner = "idle"
  /\ resume' = next
  /\ processing' = FALSE
  /\ owner' = IF processing THEN "flag" ELSE next
  /\ at' = 1
  /\ UNCHANGED <<running, queue, taskSem, emptySem, worker, job, enqueue, task>>

\* d_queues[i].d_running = false
StopFlag ==
  /\ owner = "flag"
  /\ running' = [running EXCEPT ![at] = FALSE]
  /\ owner' = "post"
  /\ UNCHANGED <<processing, queue, taskSem, emptySem, worker, job, enqueue, at,
                 resume, task>>

\* Mutant: the flag is cleared, but the worker is not woken.
StopPostNot ==
  /\ owner = "post"
  /\ owner' = IF at = PoolSize THEN "join" ELSE "flag"
  /\ at' = IF at = PoolSize THEN 1 ELSE at + 1
  /\ UNCHANGED <<processing, running, queue, taskSem, emptySem, worker, job,
                 enqueue, resume, task>>

\* d_queues[i].d_task_sem.post()
StopPost ==
  /\ owner = "post"
  /\ taskSem' = [taskSem EXCEPT ![at] = @ + 1]
  /\ owner' = IF at = PoolSize THEN "join" ELSE "flag"
  /\ at' = IF at = PoolSize THEN 1 ELSE at + 1
  /\ UNCHANGED <<processing, running, queue, emptySem, worker, job, enqueue,
                 resume, task>>

\* Mutant: the workers are not joined.
StopJoinNot ==
  /\ owner = "join"
  /\ owner' = resume
  /\ UNCHANGED <<processing, running, queue, taskSem, emptySem, worker, job,
                 enqueue, at, resume, task>>

\* pthread_join of every worker
StopJoin ==
  /\ owner = "join"
  /\ \A q \in Queues : Ended(q)
  /\ owner' = resume
  /\ UNCHANGED <<processing, running, queue, taskSem, emptySem, worker, job,
                 enqueue, at, resume, task>>

Stop == StopCall("idle")

\* A client inside enqueue_task when the pool is destroyed breaks the contract.
Destroy ==
  /\ \A c \in Clients : enqueue[c].task = NoTask
  /\ StopCall("destroy")

-----------------------------------------------------------------------------
(* The owner thread: drain and the destructor.                             *)

\* if (!d_processing) return
DrainCall ==
  /\ owner = "idle"
  /\ processing
  /\ \A c \in Clients : enqueue[c].task = NoTask
  /\ owner' = "drainWait"
  /\ at' = 1
  /\ UNCHANGED <<processing, running, queue, taskSem, emptySem, worker, job,
                 enqueue, resume, task>>

\* empty_sem.wait()
DrainWait ==
  /\ owner = "drainWait"
  /\ emptySem[at] > 0
  /\ emptySem' = [emptySem EXCEPT ![at] = @ - 1]
  /\ owner' = "drainTest"
  /\ UNCHANGED <<processing, running, queue, taskSem, worker, job, enqueue, at,
                 resume, task>>

\* Mutant: one token is taken as proof that the queue is empty.
DrainTestNot ==
  /\ owner = "drainTest"
  /\ owner' = IF at = PoolSize THEN "idle" ELSE "drainWait"
  /\ at' = IF at = PoolSize THEN 1 ELSE at + 1
  /\ UNCHANGED <<processing, running, queue, taskSem, emptySem, worker, job,
                 enqueue, resume, task>>

\* lock; isEmpty = d_queue.empty(); unlock; if (isEmpty) break
DrainTest ==
  /\ owner = "drainTest"
  /\ \/ /\ queue[at] # <<>>
        /\ owner' = "drainWait"
        /\ at' = at
     \/ /\ queue[at] = <<>>
        /\ owner' = IF at = PoolSize THEN "idle" ELSE "drainWait"
        /\ at' = IF at = PoolSize THEN 1 ELSE at + 1
  /\ UNCHANGED <<processing, running, queue, taskSem, emptySem, worker, job,
                 enqueue, resume, task>>

\* pop; delete job; task_sem.wait(): "sanity check"
DestroyTask ==
  /\ owner = "destroy"
  /\ queue[at] # <<>>
  /\ taskSem[at] > 0
  /\ queue' = [queue EXCEPT ![at] = Tail(@)]
  /\ taskSem' = [taskSem EXCEPT ![at] = @ - 1]
  /\ task' = [task EXCEPT ![Head(queue[at])] = "deleted"]
  /\ UNCHANGED <<processing, running, emptySem, worker, job, enqueue, owner, at,
                 resume>>

\* The queue is empty: on to the next one.
DestroyQueue ==
  /\ owner = "destroy"
  /\ queue[at] = <<>>
  /\ owner' = IF at = PoolSize THEN "destroyed" ELSE "destroy"
  /\ at' = IF at = PoolSize THEN 1 ELSE at + 1
  /\ UNCHANGED <<processing, running, queue, taskSem, emptySem, worker, job,
                 enqueue, resume, task>>

\* The program goes on without the pool.
Terminated ==
  /\ owner = "destroyed"
  /\ UNCHANGED vars

-----------------------------------------------------------------------------
EnqueueStep(c) == EnqueueScan(c) \/ EnqueuePush(c)

WorkerStep(q) ==
  \/ WorkerCheck(q) \/ WorkerTry(q) \/ WorkerPost(q) \/ WorkerWait(q)
  \/ WorkerWoken(q) \/ WorkerTryEmpty(q) \/ WorkerTest(q)
  \/ WorkerPop(q) \/ WorkerFinish(q)

OwnerCall == Start \/ Stop \/ Destroy \/ DrainCall

OwnerStep ==
  \/ StopFlag \/ StopPost \/ StopJoin
  \/ DrainWait \/ DrainTest
  \/ DestroyTask \/ DestroyQueue

Next ==
  \/ \E c \in Clients : EnqueueStep(c) \/ \E t \in Tasks : EnqueueCall(c, t)
  \/ \E q \in Queues : WorkerStep(q)
  \/ OwnerCall
  \/ OwnerStep
  \/ Terminated

Spec == Init /\ [][Next]_vars

\* Threads that can take a step eventually take it, and tasks return.  Nobody
\* is obliged to call the pool.
Fairness ==
  /\ \A c \in Clients : WF_vars(EnqueueStep(c))
  /\ \A q \in Queues : WF_vars(WorkerStep(q))
  /\ WF_vars(OwnerStep)

FairSpec == Spec /\ Fairness

-----------------------------------------------------------------------------
(* Correctness.                                                            *)

\* The type invariant.
TypeOK ==
  /\ processing \in BOOLEAN
  /\ running \in [Queues -> BOOLEAN]
  /\ queue \in [Queues -> Seq(Tasks)]
  /\ taskSem \in [Queues -> Nat]
  /\ emptySem \in [Queues -> Nat]
  /\ worker \in [Queues -> WorkerStates]
  /\ job \in [Queues -> Tasks \cup {NoTask}]
  /\ enqueue \in [Clients -> Locals]
  /\ owner \in OwnerStates
  /\ at \in Queues
  /\ resume \in {"idle", "destroy"}
  /\ task \in [Tasks -> TaskStates]

\* A worker that has taken a token of task_sem and not yet used it to pop.  One
\* that returned from inside the loop has kept its token.
HoldsToken(q) == worker[q] \in {"woken", "tryEmpty", "test", "pop", "returned"}

\* stop() has posted to queue q.
Posted(q) ==
  IF owner \in {"flag", "post"} THEN q < at
  ELSE ~processing /\ worker[q] # "none"

Count(b) == IF b THEN 1 ELSE 0

\* The two halves of a queue agree: every task in it has a token, in task_sem
\* or with the worker, and stop() has added exactly one.
TokenBalance ==
  \A q \in Queues :
    taskSem[q] + Count(HoldsToken(q)) = Len(queue[q]) + Count(Posted(q))

\* A worker that pops its queue finds a task in it: it never mistakes the token
\* of stop() for one of a task.
PopNonEmpty ==
  \A q \in Queues : worker[q] = "pop" => queue[q] # <<>>

\* There is at most one token in empty_sem, and only while the worker waits for
\* work, has yet to take the token back, or has returned: none is left behind
\* by a worker that executes a task.
EmptyMeansIdle ==
  \A q \in Queues :
    emptySem[q] > 0 => /\ emptySem[q] = 1
                       /\ worker[q] \in {"wait", "woken", "tryEmpty", "returned"}

\* The destructor's "sanity check" never blocks: for each task it deletes there
\* is a token left, wherever the workers were when they were stopped.
DestroyNeverBlocks ==
  owner = "destroy" /\ queue[at] # <<>> => taskSem[at] > 0

\* "add to lowest pending jobs queue": until workers take tasks away, the queues
\* differ by no more tasks than there are clients pushing at the same time,
\* although each client compares sizes it has read at different times.
LoadBalanced ==
  (\A q \in Queues : worker[q] = "none") /\ owner # "destroy"
    => \A p, q \in Queues : Len(queue[p]) - Len(queue[q]) <= Cardinality(Clients)

\* When drain() returns all queues are empty, and hence each worker has at most
\* the task left that it is executing.
DrainMeansEmpty ==
  [][owner = "drainTest" /\ owner' = "idle" => \A q \in Queues : queue[q] = <<>>]_vars

\* stop() has cleared the flag of queue q.
Cleared(q) == Posted(q) \/ (owner = "post" /\ q = at)

\* The facts that TokenBalance and PopNonEmpty rest on: flags are cleared before
\* tokens are posted, and workers exist exactly while they may.
StopInv ==
  /\ \A q \in Queues :
       /\ Cleared(q) => ~running[q]
       /\ worker[q] = "none" => ~running[q]
       /\ processing \/ owner \in {"flag", "post", "join"} => worker[q] # "none"
       /\ ~processing /\ owner \notin {"flag", "post", "join"} => Ended(q)
       /\ worker[q] \in {"ended", "returned"} => ~running[q]
       /\ ~running[q] => worker[q] = "none" \/ Cleared(q)
  /\ processing => owner \in {"idle", "drainWait", "drainTest"}
  /\ owner \in {"drainWait", "drainTest"} => processing

\* A Task object is in one place: once in one queue, or with one worker that
\* executes it, or with one client that has yet to push it.
SingleOwnership ==
  /\ \A p, q \in Queues : \A i \in 1 .. Len(queue[p]), j \in 1 .. Len(queue[q]) :
       queue[p][i] = queue[q][j] => p = q /\ i = j
  /\ \A q \in Queues : \A i \in 1 .. Len(queue[q]) : task[queue[q][i]] = "queued"
  /\ \A q \in Queues : job[q] # NoTask <=> worker[q] = "execute"
  /\ \A q \in Queues : job[q] # NoTask => task[job[q]] = "running"
  /\ \A p, q \in Queues : job[p] = job[q] /\ job[p] # NoTask => p = q
  /\ \A c \in Clients : enqueue[c].task # NoTask => task[enqueue[c].task] = "offered"
  /\ \A b, c \in Clients :
       enqueue[b].task = enqueue[c].task /\ enqueue[b].task # NoTask => b = c

\* During a drain no client is inside enqueue_task, and the queues that drain()
\* has passed stay empty.
DrainInv ==
  owner \in {"drainWait", "drainTest"} =>
    /\ \A c \in Clients : enqueue[c].task = NoTask
    /\ \A q \in Queues : q < at => queue[q] = <<>>

\* The inductive invariant behind the safety properties.
IInv ==
  /\ TypeOK
  /\ StopInv
  /\ TokenBalance
  /\ PopNonEmpty
  /\ EmptyMeansIdle
  /\ SingleOwnership
  /\ DrainInv

\* The MultiQueueThreadpool implements the promise every pool makes.
Pool == INSTANCE TaskPool WITH
  Threads   <- Queues,
  pending   <- {t \in Tasks : task[t] = "queued"},
  executing <- job,
  finished  <- {t \in Tasks : task[t] = "done"},
  givenUp   <- {t \in Tasks : task[t] = "deleted"}

PoolSpec == Pool!Spec

\* A task handed to a pool that stays started is eventually executed.
EveryTaskServed ==
  \A t \in Tasks :
    task[t] \in {"offered", "queued"} /\ processing
      ~> task[t] = "done" \/ ~processing

\* stop() returns, whatever the workers are doing: unlike a broadcast, the token
\* it posts waits for its worker.
StopReturns ==
  owner \in {"flag", "post", "join"} ~> owner \notin {"flag", "post", "join"}

\* "Block the calling function until the queue is drained": drain() returns.
DrainReturns ==
  owner \in {"drainWait", "drainTest"} ~> owner \notin {"drainWait", "drainTest"}

\* drain() gets past a queue whose worker still has its empty token to give: the
\* token is in the semaphore, or the worker is yet to run out of work.
DrainProceeds ==
  \A q \in Queues :
    /\ owner = "drainWait"
    /\ at = q
    /\ emptySem[q] > 0 \/ worker[q] \notin {"wait", "woken", "tryEmpty"}
    ~> ~(owner \in {"drainWait", "drainTest"} /\ at = q)
=============================================================================
