---------------------------- MODULE Synchronize ----------------------------
(***************************************************************************)
(* The wrappers of POSIX mutexes and condition variables (mutex.h,         *)
(* condition_variable.h, synchronize.h), as operators on two variables:    *)
(* who holds each mutex, and who is blocked on each condition variable.    *)
(*                                                                         *)
(* pthread_cond_wait is two steps: WaitOnCondition gives the mutex up and  *)
(* blocks, and Resume takes it again once the thread has been woken.       *)
(***************************************************************************)
EXTENDS Naturals

CONSTANTS
  Mutexes,     \* mutex::Mutex objects
  Conditions,  \* condition_vars::ConditionVariable objects
  Threads,     \* the threads that use them
  Nobody       \* no thread

ASSUME NobodyAssumption == Nobody \notin Threads

VARIABLES
  holder,  \* the thread that holds each Mutex
  waiting  \* the threads blocked on each ConditionVariable

syncVars == <<holder, waiting>>

SyncTypeOK ==
  /\ holder \in [Mutexes -> Threads \cup {Nobody}]
  /\ waiting \in [Conditions -> SUBSET Threads]

-----------------------------------------------------------------------------
\* The constructors: every mutex is free, and nobody waits.
SyncInit ==
  /\ holder = [m \in Mutexes |-> Nobody]
  /\ waiting = [c \in Conditions |-> {}]

LockMutex(t, m) ==
  /\ holder[m] = Nobody
  /\ holder' = [holder EXCEPT ![m] = t]

UnlockMutex(t, m) ==
  /\ holder[m] = t
  /\ holder' = [holder EXCEPT ![m] = Nobody]

\* Mutant: the thread waits with the mutex in its hands.
WaitOnConditionLocked(t, c, m) ==
  /\ holder[m] = t
  /\ holder' = holder
  /\ waiting' = [waiting EXCEPT ![c] = @ \cup {t}]

\* waitOnCondition: the mutex is given up and the thread blocks, in one step.
WaitOnCondition(t, c, m) ==
  /\ UnlockMutex(t, m)
  /\ waiting' = [waiting EXCEPT ![c] = @ \cup {t}]

\* The thread was woken and waitOnCondition returns with the mutex.
Resume(t, c, m) ==
  /\ t \notin waiting[c]
  /\ LockMutex(t, m)
  /\ UNCHANGED waiting

\* raiseSignal, which nothing in the repository calls, wakes one thread.
RaiseSignal(c) ==
  \/ waiting[c] = {} /\ UNCHANGED waiting
  \/ \E t \in waiting[c] : waiting' = [waiting EXCEPT ![c] = @ \ {t}]

\* signalAll wakes whoever is blocked, and is not remembered for anybody else.
SignalAll(c) == waiting' = [waiting EXCEPT ![c] = {}]

\* pthread_cond_wait may return although nobody signalled.
SpuriousWake ==
  /\ \E c \in Conditions : \E t \in waiting[c] :
       waiting' = [waiting EXCEPT ![c] = @ \ {t}]
  /\ UNCHANGED holder
=============================================================================
