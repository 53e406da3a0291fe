------------------------------- MODULE Cortex -------------------------------
(***************************************************************************)
(* The Cortex thread pool (cortex.h, cortex.cpp): one queue of tasks, the  *)
(* "gate", served by a vector of worker threads and guarded by one mutex   *)
(* and two condition variables.                                            *)
(*                                                                         *)
(* Three kinds of thread act.  The owner constructed the pool and calls    *)
(* start, stop, drain, process_gate_iteratively and the destructor, one    *)
(* after the other.  Any thread may call enqueue_task.  A worker runs      *)
(* cortex_worker_thread.  An action is the code between two accesses to    *)
(* state another thread may change in between; in particular each read of  *)
(* d_processing, which stop() writes WITHOUT holding d_mutex, is a step of *)
(* its own.  The build is unoptimised (Makefile: g++ -g), so every such    *)
(* read loads the current value.                                           *)
(***************************************************************************)
EXTENDS Integers, Sequences, FiniteSets

CONSTANTS
  NumThreads,   \* the argument of the constructor
  MAX_THREADS,  \* 8 in cortex.h
  Tasks,        \* the task objects clients bind
  NoTask        \* a NULL Task pointer

ASSUME NumThreadsAssumption == NumThreads \in Nat /\ MAX_THREADS \in Nat \ {0}
ASSUME NoTaskAssumption == NoTask \notin Tasks

VARIABLES
  gate,        \* d_gate, front first
  processing,  \* d_processing
  mutex,       \* the thread that holds d_mutex from one step to the next
  hasWork,     \* the workers blocked on d_cv_has_work
  queueEmpty,  \* the threads blocked on d_cv_queue_empty
  worker,      \* where each worker thread is
  ret,         \* the task a thread has popped: its local variable ret, or job
  owner,       \* where the owner thread is
  resume,      \* what the owner does once stop() has returned
  task         \* what has become of each Task object

vars == <<gate, processing, mutex, hasWork, queueEmpty, worker, ret, owner,
          resume, task>>

-----------------------------------------------------------------------------
(* Threads and their control states.                                       *)

\* The constructor clamps the number of threads it was asked for.
PoolSize == IF NumThreads > MAX_THREADS THEN MAX_THREADS ELSE NumThreads

Workers == 1 .. PoolSize
Owner == 0
Threads == Workers \cup {Owner}
Free == -1  \* nobody holds the mutex

WorkerStates ==
  {"none",      \* not created, or joined
   "check",     \* about to evaluate core->isStarted()
   "lock",      \* waiting for d_mutex: at lock(), or inside pthread_cond_wait
   "wait",      \* holds the mutex, found the gate empty, about to wait
   "take",      \* holds the mutex, left the loop, about to test d_processing
   "dispatch",  \* released the mutex, about to test d_processing again
   "execute",   \* inside ret->execute()
   "exited"}    \* the thread function returned

OwnerStates ==
  {"idle", "signal", "join",         \* between calls, and inside stop()
   "drain", "drainWait",             \* inside drain()
   "iterate", "process", "run",      \* inside process_gate_iteratively()
   "destroy", "destroyed"}           \* inside, and after, the destructor

TaskStates ==
  {"new", "queued", "held", "running", "done",
   "deleted",  \* deleted by the destructor, never executed
   "leaked"}   \* popped, then neither executed nor deleted

-----------------------------------------------------------------------------
Init ==
  /\ gate = <<>>
  /\ processing = FALSE
  /\ mutex = Free
  /\ hasWork = {}
  /\ queueEmpty = {}
  /\ worker = [w \in Workers |-> "none"]
  /\ ret = [h \in Threads |-> NoTask]
  /\ owner = "idle"
  /\ resume = "idle"
  /\ task = [t \in Tasks |-> "new"]

\* Mutant: enqueue_task forgets the broadcast.
EnqueueSilently(t) ==
  /\ task[t] = "new"
  /\ resume # "destroy"
  /\ mutex = Free
  /\ gate' = Append(gate, t)
  /\ task' = [task EXCEPT ![t] = "queued"]
  /\ UNCHANGED <<processing, mutex, hasWork, queueEmpty, worker, ret, owner,
                 resume>>

(* enqueue_task: lock; push; broadcast; unlock.  Any thread may call it, as *)
(* long as the pool is not being destroyed.                                 *)
Enqueue(t) ==
  /\ task[t] = "new"
  /\ resume # "destroy"
  /\ mutex = Free
  /\ gate' = Append(gate, t)
  /\ task' = [task EXCEPT ![t] = "queued"]
  /\ hasWork' = {}
  /\ UNCHANGED <<processing, mutex, queueEmpty, worker, ret, owner, resume>>

-----------------------------------------------------------------------------
(* The worker threads.                                                     *)

\* while (core->isStarted())
WorkerCheck(w) ==
  /\ worker[w] = "check"
  /\ worker' = [worker EXCEPT ![w] = IF processing THEN "lock" ELSE "exited"]
  /\ UNCHANGED <<gate, processing, mutex, hasWork, queueEmpty, ret, owner,
                 resume, task>>

\* Mutant: the gate is tested without taking the mutex.
WorkerLockNot(w) ==
  /\ worker[w] = "lock"
  /\ w \notin hasWork
  /\ mutex = Free
  /\ worker' = [worker EXCEPT
                  ![w] = IF processing /\ gate = <<>> THEN "wait" ELSE "take"]
  /\ UNCHANGED <<gate, processing, mutex, hasWork, queueEmpty, ret, owner,
                 resume, task>>

\* d_mutex.lock(), or the end of pthread_cond_wait, and the loop's two tests.
WorkerLock(w) ==
  /\ worker[w] = "lock"
  /\ w \notin hasWork
  /\ mutex = Free
  /\ mutex' = w
  /\ worker' = [worker EXCEPT
                  ![w] = IF processing /\ gate = <<>> THEN "wait" ELSE "take"]
  /\ UNCHANGED <<gate, processing, hasWork, queueEmpty, ret, owner, resume,
                 task>>

\* Mutant: the worker goes to sleep without telling drain().
WorkerWaitSilently(w) ==
  /\ worker[w] = "wait"
  /\ hasWork' = hasWork \cup {w}
  /\ mutex' = Free
  /\ worker' = [worker EXCEPT ![w] = "lock"]
  /\ UNCHANGED <<gate, processing, queueEmpty, ret, owner, resume, task>>

\* signalAll(d_cv_queue_empty); waitOnCondition(d_cv_has_work, d_mutex)
WorkerWait(w) ==
  /\ worker[w] = "wait"
  /\ queueEmpty' = {}
  /\ hasWork' = hasWork \cup {w}
  /\ mutex' = Free
  /\ worker' = [worker EXCEPT ![w] = "lock"]
  /\ UNCHANGED <<gate, processing, ret, owner, resume, task>>

\* Mutant: front() without pop().
WorkerTakeFront(w) ==
  /\ worker[w] = "take"
  /\ \/ processing /\ ret' = [ret EXCEPT ![w] = Head(gate)]
     \/ ~processing /\ UNCHANGED ret
  /\ mutex' = Free
  /\ worker' = [worker EXCEPT ![w] = "dispatch"]
  /\ UNCHANGED <<gate, task, processing, hasWork, queueEmpty, owner, resume>>

\* if (d_processing) { ret = d_gate.front(); d_gate.pop(); } d_mutex.unlock()
WorkerTake(w) ==
  /\ worker[w] = "take"
  /\ \/ /\ processing
        /\ ret' = [ret EXCEPT ![w] = Head(gate)]
        /\ gate' = Tail(gate)
        /\ task' = [task EXCEPT ![Head(gate)] = "held"]
     \/ /\ ~processing
        /\ UNCHANGED <<ret, gate, task>>
  /\ mutex' = Free
  /\ worker' = [worker EXCEPT ![w] = "dispatch"]
  /\ UNCHANGED <<processing, hasWork, queueEmpty, owner, resume>>

\* Mutant: the task is executed without testing d_processing again.
WorkerDispatchAlways(w) ==
  /\ worker[w] = "dispatch"
  /\ worker' = [worker EXCEPT ![w] = "execute"]
  /\ task' = [t \in Tasks |-> IF t = ret[w] THEN "running" ELSE task[t]]
  /\ UNCHANGED <<gate, processing, mutex, hasWork, queueEmpty, ret, owner,
                 resume>>

\* Mutant: a job is executed only while there are others in the gate.
WorkerDispatchNonEmpty(w) ==
  /\ worker[w] = "dispatch"
  /\ \/ /\ processing /\ gate # <<>>
        /\ worker' = [worker EXCEPT ![w] = "execute"]
        /\ task' = [task EXCEPT ![ret[w]] = "running"]
        /\ UNCHANGED ret
     \/ /\ ~(processing /\ gate # <<>>)
        /\ worker' = [worker EXCEPT ![w] = "check"]
        /\ task' = [t \in Tasks |-> IF t = ret[w] THEN "leaked" ELSE task[t]]
        /\ ret' = [ret EXCEPT ![w] = NoTask]
  /\ UNCHANGED <<gate, processing, mutex, hasWork, queueEmpty, owner, resume>>

\* if (d_processing) ret->execute(): the flag is read again, after unlock().
\* A worker that finds it cleared drops ret on the floor.
WorkerDispatch(w) ==
  /\ worker[w] = "dispatch"
  /\ \/ /\ processing
        /\ worker' = [worker EXCEPT ![w] = "execute"]
        /\ task' = [task EXCEPT ![ret[w]] = "running"]
        /\ UNCHANGED ret
     \/ /\ ~processing
        /\ worker' = [worker EXCEPT ![w] = "check"]
        /\ task' = [t \in Tasks |-> IF t = ret[w] THEN "leaked" ELSE task[t]]
        /\ ret' = [ret EXCEPT ![w] = NoTask]
  /\ UNCHANGED <<gate, processing, mutex, hasWork, queueEmpty, owner, resume>>

\* ret->execute() returns; delete ret
WorkerFinish(w) ==
  /\ worker[w] = "execute"
  /\ task' = [task EXCEPT ![ret[w]] = "done"]
  /\ ret' = [ret EXCEPT ![w] = NoTask]
  /\ worker' = [worker EXCEPT ![w] = "check"]
  /\ UNCHANGED <<gate, processing, mutex, hasWork, queueEmpty, owner, resume>>

\* pthread_cond_wait may return although nobody signalled.
SpuriousWake ==
  /\ \/ \E w \in hasWork : hasWork' = hasWork \ {w} /\ UNCHANGED queueEmpty
     \/ queueEmpty # {} /\ queueEmpty' = {} /\ UNCHANGED hasWork
  /\ UNCHANGED <<gate, processing, mutex, worker, ret, owner, resume, task>>

-----------------------------------------------------------------------------
(* The owner thread: start and stop.                                       *)

\* A worker that pthread_create has made but that has not run yet cannot be
\* told from one that is still to be made, so the loop is one step.
Start ==
  /\ owner = "idle"
  /\ ~processing
  /\ processing' = TRUE
  /\ worker' = [w \in Workers |-> "check"]
  /\ UNCHANGED <<gate, mutex, hasWork, queueEmpty, ret, owner, resume, task>>

\* stop(), called for itself ("idle"), by process_gate_iteratively
\* ("iterate") or by the destructor ("destroy"): test and clear d_processing,
\* without the mutex.
StopCall(next) ==
  /\ owner = "idle"
  /\ resume' = next
  /\ processing' = FALSE
  /\ owner' = IF processing THEN "signal" ELSE next
  /\ UNCHANGED <<gate, mutex, hasWork, queueEmpty, worker, ret, task>>

\* signalAll(d_cv_has_work), still without the mutex
StopSignal ==
  /\ owner = "signal"
  /\ hasWork' = {}
  /\ owner' = "join"
  /\ UNCHANGED <<gate, processing, mutex, queueEmpty, worker, ret, resume,
                 task>>

\* Mutant: the loop of pthread_join misses the last worker.
StopJoinAllButLast ==
  /\ owner = "join"
  /\ \A w \in 1 .. PoolSize - 1 : worker[w] = "exited"
  /\ worker' = [w \in Workers |-> IF w < PoolSize THEN "none" ELSE worker[w]]
  /\ owner' = resume
  /\ UNCHANGED <<gate, processing, mutex, hasWork, queueEmpty, ret, resume,
                 task>>

\* pthread_join of every worker
StopJoin ==
  /\ owner = "join"
  /\ \A w \in Workers : worker[w] = "exited"
  /\ worker' = [w \in Workers |-> "none"]
  /\ owner' = resume
  /\ UNCHANGED <<gate, processing, mutex, hasWork, queueEmpty, ret, resume,
                 task>>

Stop == StopCall("idle")
ProcessGateIteratively == StopCall("iterate")
Destroy == StopCall("destroy")

-----------------------------------------------------------------------------
(* The owner thread: drain.                                                *)

DrainCall ==
  /\ owner = "idle"
  /\ owner' = "drain"
  /\ UNCHANGED <<gate, processing, mutex, hasWork, queueEmpty, worker, ret,
                 resume, task>>

\* lock; stillProcessing = !d_gate.empty(); unlock.  The owner comes back here
\* from waitOnCondition, which takes the mutex before it returns.
DrainTest ==
  /\ owner = "drain"
  /\ Owner \notin queueEmpty
  /\ mutex = Free
  /\ owner' = IF gate = <<>> THEN "idle" ELSE "drainWait"
  /\ UNCHANGED <<gate, processing, mutex, hasWork, queueEmpty, worker, ret,
                 resume, task>>

\* Mutant: drain() waits on the condition variable of the workers.
DrainWaitForWork ==
  /\ owner = "drainWait"
  /\ mutex = Free
  /\ hasWork' = {Owner}
  /\ owner' = "drain"
  /\ UNCHANGED <<gate, processing, mutex, queueEmpty, worker, ret, resume, task>>

\* lock; signalAll(d_cv_has_work); waitOnCondition(d_cv_queue_empty, d_mutex)
DrainWait ==
  /\ owner = "drainWait"
  /\ mutex = Free
  /\ hasWork' = {}
  /\ queueEmpty' = queueEmpty \cup {Owner}
  /\ owner' = "drain"
  /\ UNCHANGED <<gate, processing, mutex, worker, ret, resume, task>>

-----------------------------------------------------------------------------
(* The owner thread: process_gate_iteratively and the destructor, once     *)
(* stop() has returned.                                                    *)

IterateLock ==
  /\ owner = "iterate"
  /\ mutex = Free
  /\ mutex' = Owner
  /\ owner' = "process"
  /\ UNCHANGED <<gate, processing, hasWork, queueEmpty, worker, ret, resume,
                 task>>

\* job = d_gate.front(); d_gate.pop(); job->execute(), holding the mutex
IterateRun ==
  /\ owner = "process"
  /\ gate # <<>>
  /\ ret' = [ret EXCEPT ![Owner] = Head(gate)]
  /\ gate' = Tail(gate)
  /\ task' = [task EXCEPT ![Head(gate)] = "running"]
  /\ owner' = "run"
  /\ UNCHANGED <<processing, mutex, hasWork, queueEmpty, worker, resume>>

\* job->execute() returns; delete job
IterateFinish ==
  /\ owner = "run"
  /\ task' = [task EXCEPT ![ret[Owner]] = "done"]
  /\ ret' = [ret EXCEPT ![Owner] = NoTask]
  /\ owner' = "process"
  /\ UNCHANGED <<gate, processing, mutex, hasWork, queueEmpty, worker, resume>>

\* Mutant: process_gate_iteratively returns with the mutex held.
IterateKeepLock ==
  /\ owner = "process"
  /\ gate = <<>>
  /\ owner' = "idle"
  /\ resume' = "idle"
  /\ UNCHANGED <<gate, processing, mutex, hasWork, queueEmpty, worker, ret,
                 task>>

\* d_gate is empty: d_mutex.unlock(), return
IterateUnlock ==
  /\ owner = "process"
  /\ gate = <<>>
  /\ mutex' = Free
  /\ owner' = "idle"
  /\ resume' = "idle"
  /\ UNCHANGED <<gate, processing, hasWork, queueEmpty, worker, ret, task>>

\* lock; delete every task left in the gate; unlock
DestroyGate ==
  /\ owner = "destroy"
  /\ mutex = Free
  /\ task' = [t \in Tasks |-> IF \E i \in DOMAIN gate : gate[i] = t
                              THEN "deleted" ELSE task[t]]
  /\ gate' = <<>>
  /\ owner' = "destroyed"
  /\ UNCHANGED <<processing, mutex, hasWork, queueEmpty, worker, ret, resume>>

\* The program goes on without the pool.
Terminated ==
  /\ owner = "destroyed"
  /\ UNCHANGED vars

-----------------------------------------------------------------------------
WorkerStep(w) ==
  \/ WorkerCheck(w) \/ WorkerLock(w) \/ WorkerWait(w)
  \/ WorkerTake(w) \/ WorkerDispatch(w) \/ WorkerFinish(w)

OwnerCall == Start \/ Stop \/ ProcessGateIteratively \/ Destroy \/ DrainCall

\* The steps the owner takes inside a call.
OwnerStep ==
  \/ StopSignal \/ StopJoin
  \/ DrainTest \/ DrainWait
  \/ IterateLock \/ IterateRun \/ IterateFinish \/ IterateUnlock
  \/ DestroyGate

Next ==
  \/ \E t \in Tasks : Enqueue(t)
  \/ \E w \in Workers : WorkerStep(w)
  \/ OwnerCall
  \/ OwnerStep
  \/ SpuriousWake
  \/ Terminated

Spec == Init /\ [][Next]_vars

\* A created thread that can take a step eventually takes it, and a task that
\* is executed returns.  Nobody is obliged to call the pool.  Wake-ups without
\* a signal are accidents: they come any number of times, but not for ever.
Fairness ==
  /\ \A w \in Workers : WF_vars(WorkerStep(w))
  /\ WF_vars(OwnerStep)
  /\ <>[][~SpuriousWake]_vars

FairSpec == Spec /\ Fairness

-----------------------------------------------------------------------------
(* Correctness.                                                            *)

\* The type invariant.
TypeOK ==
  /\ gate \in Seq(Tasks)
  /\ processing \in BOOLEAN
  /\ mutex \in Threads \cup {Free}
  /\ hasWork \in SUBSET Workers
  /\ queueEmpty \in SUBSET {Owner}
  /\ worker \in [Workers -> WorkerStates]
  /\ ret \in [Threads -> Tasks \cup {NoTask}]
  /\ owner \in OwnerStates
  /\ resume \in {"idle", "iterate", "destroy"}
  /\ task \in [Tasks -> TaskStates]

\* A Task object has one owner: it is in the gate once, or one thread has
\* popped it, or neither.  Two threads would otherwise execute and delete it
\* twice, or a thread delete a task that is still queued.
SingleOwnership ==
  /\ \A i, j \in 1 .. Len(gate) : gate[i] = gate[j] => i = j
  /\ \A i \in 1 .. Len(gate) : task[gate[i]] = "queued"
  /\ \A t \in Tasks : task[t] = "queued" => \E i \in 1 .. Len(gate) : gate[i] = t
  /\ \A h \in Threads : ret[h] # NoTask => task[ret[h]] \in {"held", "running"}
  /\ \A g, h \in Threads : ret[g] = ret[h] /\ ret[g] # NoTask => g = h

\* ret->execute() never goes through a NULL pointer, although the test of
\* d_processing that guards it is not the one that guarded the assignment.
NoNullExecute ==
  \A w \in Workers : worker[w] = "execute" => ret[w] # NoTask

\* A worker that is about to pop the gate finds a task in it, however it came
\* to leave the waiting loop.
PopNonEmpty ==
  \A w \in Workers : worker[w] = "take" /\ processing => gate # <<>>

\* Once stop() has returned to process_gate_iteratively or to the destructor,
\* no worker thread is left that could pop, execute or delete a task.
SoleExecutor ==
  owner \in {"iterate", "process", "run", "destroy", "destroyed"}
    => \A w \in Workers : worker[w] = "none" /\ ret[w] = NoTask

\* A task is abandoned only while a call of stop() is in progress: a pool that
\* nobody stops executes whatever its workers have popped.
LeakOnlyInStop ==
  [][\A t \in Tasks : task[t] # "leaked" /\ task'[t] = "leaked"
                        => owner \in {"signal", "join"}]_vars

\* The mutex is held across steps by a worker between its loop test and the
\* wait or the pop, and by the owner while it processes the gate.
MutexInv ==
  /\ \A w \in Workers : mutex = w <=> worker[w] \in {"wait", "take"}
  /\ mutex = Owner <=> owner \in {"process", "run"}

\* Worker threads exist exactly from start() to the join of stop(), and while
\* the pool is started none of them has left its loop.
StartedInv ==
  /\ processing => /\ owner \in {"idle", "drain", "drainWait"}
                   /\ \A w \in Workers : worker[w] \notin {"none", "exited"}
  /\ ~processing /\ owner \notin {"signal", "join"}
       => \A w \in Workers : worker[w] = "none"

\* Where a popped task is, by where its thread is.
RetInv ==
  /\ \A w \in Workers :
       /\ worker[w] = "dispatch" /\ ret[w] # NoTask => task[ret[w]] = "held"
       /\ worker[w] = "dispatch" /\ processing => ret[w] # NoTask
       /\ worker[w] = "execute" => ret[w] # NoTask /\ task[ret[w]] = "running"
       /\ worker[w] \notin {"dispatch", "execute"} => ret[w] = NoTask
  /\ owner = "run" => ret[Owner] # NoTask /\ task[ret[Owner]] = "running"
  /\ owner # "run" => ret[Owner] = NoTask

\* The inductive invariant: the properties above hold in every reachable state
\* because they hold together with the facts about threads they rest on.
IInv ==
  /\ TypeOK
  /\ MutexInv
  /\ StartedInv
  /\ RetInv
  /\ SingleOwnership
  /\ PopNonEmpty

\* The Cortex implements the promise every pool makes.
Pool == INSTANCE TaskPool WITH
  pending   <- {t \in Tasks : task[t] \in {"queued", "held"}},
  executing <- [h \in Threads |->
                  IF ret[h] # NoTask /\ (h = Owner \/ worker[h] = "execute")
                  THEN ret[h] ELSE NoTask],
  finished  <- {t \in Tasks : task[t] = "done"},
  givenUp   <- {t \in Tasks : task[t] \in {"deleted", "leaked"}}

PoolSpec == Pool!Spec

\* A task that is queued in a pool that stays started is eventually executed.
EveryTaskServed ==
  \A t \in Tasks :
    task[t] = "queued" /\ processing ~> task[t] = "done" \/ ~processing

\* drain() of a started pool returns: the wake-up it needs is never lost.
DrainReturns ==
  owner \in {"drain", "drainWait"} /\ processing ~> owner = "idle"

\* "Join active threads and end processing": stop() returns.
StopReturns ==
  owner \in {"signal", "join"} ~> owner \notin {"signal", "join"}

\* "delete any remaining tasks": once the pool is destroyed, every task that
\* was handed to it has been executed and deleted, or deleted.
NothingLeaked ==
  owner = "destroyed" => \A t \in Tasks : task[t] \in {"new", "done", "deleted"}
=============================================================================
