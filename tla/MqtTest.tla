------------------------------ MODULE MqtTest ------------------------------
(***************************************************************************)
(* The test of the MultiQueueThreadpool (multiqueue_threadpool.t.cpp): one *)
(* thread starts a pool, hands it the jobs, drains it, and asserts that    *)
(* each job has incremented jobTracker before it stops the pool.           *)
(*                                                                         *)
(* A job is increment() bound to its two pointers: the mutex it takes is   *)
(* held for that one increment only, which is what execute() comes to.     *)
(***************************************************************************)
EXTENDS MultiQueueThreadpool

\* The thread of main(), the only client.
Main == CHOOSE c \in Clients : TRUE

VARIABLES
  jobTracker,  \* the number the jobs increment
  step         \* where main() is

testVars == <<vars, jobTracker, step>>

NUMJOBS == Cardinality(Tasks)

TestInit == Init /\ jobTracker = 0 /\ step = "start"

-----------------------------------------------------------------------------
MainGoes(next) == step' = next /\ UNCHANGED jobTracker

CallStart == step = "start" /\ Start /\ MainGoes("enqueue")

\* mqt.enqueue_task(BindUtil::bind(&increment, &jobTracker, &lock))
CallEnqueue ==
  /\ step = "enqueue"
  /\ \E t \in Tasks : EnqueueCall(Main, t)
  /\ UNCHANGED <<jobTracker, step>>

CallDrain ==
  /\ step = "enqueue"
  /\ \A t \in Tasks : task[t] # "new"
  /\ DrainCall
  /\ MainGoes("drain")

\* drain() has returned: assert(NUMJOBS == jobTracker)
Assert ==
  /\ step = "drain" /\ owner = "idle"
  /\ MainGoes(IF jobTracker = NUMJOBS THEN "stop" ELSE "abort")
  /\ UNCHANGED vars

CallStop == step = "stop" /\ Stop /\ MainGoes("destroy")

\* The end of main(): the pool is destroyed.
CallDestroy ==
  /\ step = "destroy" /\ owner = "idle"
  /\ Destroy
  /\ MainGoes("end")

Call ==
  \/ CallStart \/ CallEnqueue \/ CallDrain \/ Assert \/ CallStop \/ CallDestroy

\* increment(&jobTracker, &lock): lock; ++jobTracker; unlock
Increment(q) == WorkerFinish(q) /\ jobTracker' = jobTracker + 1

Inside ==
  \/ \E q \in Queues : Increment(q)
  \/ /\ \/ EnqueueStep(Main)
        \/ OwnerStep
        \/ \E q \in Queues : worker[q] # "execute" /\ WorkerStep(q)
     /\ UNCHANGED jobTracker

Aborted == step = "abort" /\ UNCHANGED testVars

Returned == step = "end" /\ owner = "destroyed" /\ UNCHANGED testVars

TestNext ==
  \/ Call
  \/ Inside /\ UNCHANGED step
  \/ Aborted \/ Returned

TestSpec == TestInit /\ [][TestNext]_testVars

-----------------------------------------------------------------------------
\* "assert(NUMJOBS == jobTracker)": when drain() has returned, every job has been
\* executed.
AssertHolds == step # "abort"
=============================================================================
