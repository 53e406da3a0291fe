-------------------------- MODULE SynchronizeTest --------------------------
(***************************************************************************)
(* The test of the condition variables (synchronize.t.cpp).  Each worker   *)
(* waits to be told to print, then to be told to die; main() creates them, *)
(* gives both signals and joins them.  What keeps main() from signalling   *)
(* to workers that do not wait yet is sleep(1), which promises nothing: it *)
(* takes no step here.                                                     *)
(***************************************************************************)
EXTENDS Synchronize

CONSTANT Main  \* the thread of main()

ASSUME MainAssumption ==
  /\ Main \in Threads
  /\ Mutexes = {"_print_lock", "_thread_print_lock", "_die_lock"}
  /\ Conditions = {"_thread_print_cv", "_thread_die_cv"}

VARIABLES
  at,     \* where each worker is
  main,   \* where main() is
  missed  \* a signal was given that some worker did not wait for yet

testVars == <<holder, waiting, at, main, missed>>

Workers == Threads \ {Main}

\* The places of worker_thread inside its two waits for a signal, and the place
\* that follows each.
PrintPlaces ==
  [lock |-> "print", wait |-> "printWait", woken |-> "printWoken",
   print |-> "printPrint", end |-> "printEnd", unlock |-> "printUnlock",
   next |-> "die"]

DiePlaces ==
  [lock |-> "die", wait |-> "dieWait", woken |-> "dieWoken",
   print |-> "diePrint", end |-> "dieEnd", unlock |-> "dieUnlock",
   next |-> "exited"]

\* Where a worker is that does not wait for a signal yet.
BeforePrint == {"none", "init", "initUnlock", "print", "printWait"}
BeforeDie ==
  BeforePrint \cup {"printWoken", "printPrint", "printEnd", "printUnlock",
                    "die", "dieWait"}

WorkerPlaces ==
  BeforeDie \cup {"dieWoken", "diePrint", "dieEnd", "dieUnlock", "exited"}

\* The places of main() before each OP_ON_LOCK(_print_lock, ...) that prints, and
\* inside of it; and those before each unlock, and after it.
LockPlaces ==
  {<<"created", "createdUnlock">>, <<"printed", "printedUnlock">>,
   <<"died", "diedUnlock">>, <<"waiting", "waitingUnlock">>, <<"end", "endUnlock">>}

UnlockPlaces ==
  {<<"createUnlock", "created">>, <<"createdUnlock", "signalPrint">>,
   <<"signalPrintUnlock", "printed">>, <<"printedUnlock", "signalDie">>,
   <<"signalDieUnlock", "died">>, <<"diedUnlock", "waiting">>,
   <<"waitingUnlock", "join">>, <<"endUnlock", "ended">>}

MainHolds == {p[1] : p \in UnlockPlaces}  \* where it has _print_lock
MainPlaces ==
  MainHolds \cup {"create", "created", "signalPrint", "printed", "signalDie",
                 "died", "waiting", "join", "end", "ended"}

TestInit ==
  /\ SyncInit
  /\ at = [w \in Workers |-> "none"]
  /\ main = "create"
  /\ missed = FALSE

-----------------------------------------------------------------------------
WorkerGoes(w, from, to) ==
  /\ at[w] = from
  /\ at' = [at EXCEPT ![w] = to]
  /\ UNCHANGED <<main, missed>>

WorkerLocks(w, from, to, m) ==
  WorkerGoes(w, from, to) /\ LockMutex(w, m) /\ UNCHANGED waiting

WorkerUnlocks(w, from, to, m) ==
  WorkerGoes(w, from, to) /\ UnlockMutex(w, m) /\ UNCHANGED waiting

\* OP_ON_LOCK(_print_lock, ...)
Initialize(w) ==
  \/ WorkerLocks(w, "init", "initUnlock", "_print_lock")
  \/ WorkerUnlocks(w, "initUnlock", "print", "_print_lock")

\* OP_ON_CV_LOCK(cv, mutex, OP_ON_LOCK(_print_lock, ...))
OnSignal(w, cv, mutex, p) ==
  \/ WorkerLocks(w, p.lock, p.wait, mutex)
  \/ WorkerGoes(w, p.wait, p.woken) /\ WaitOnCondition(w, cv, mutex)
  \/ WorkerGoes(w, p.woken, p.print) /\ Resume(w, cv, mutex)
  \/ WorkerLocks(w, p.print, p.end, "_print_lock")
  \/ WorkerUnlocks(w, p.end, p.unlock, "_print_lock")
  \/ WorkerUnlocks(w, p.unlock, p.next, mutex)

Worker(w) ==
  \/ Initialize(w)
  \/ OnSignal(w, "_thread_print_cv", "_thread_print_lock", PrintPlaces)
  \/ OnSignal(w, "_thread_die_cv", "_die_lock", DiePlaces)

-----------------------------------------------------------------------------
MainGoes(from, to) == main = from /\ main' = to

\* _print_lock is locked, and the workers are created.
Create ==
  /\ MainGoes("create", "createUnlock")
  /\ LockMutex(Main, "_print_lock")
  /\ at' = [w \in Workers |-> "init"]
  /\ UNCHANGED <<waiting, missed>>

\* Mutant: the signal is given with raiseSignal.
SignalOne(from, to, cv, before) ==
  /\ MainGoes(from, to)
  /\ LockMutex(Main, "_print_lock")
  /\ RaiseSignal(cv)
  /\ missed' = (missed \/ \E w \in Workers : at[w] \in before)
  /\ UNCHANGED at

\* OP_ON_LOCK(_print_lock, ... synchronize::signalAll(cv)): the lock the workers
\* wait with is another one.
Signal(from, to, cv, before) ==
  /\ MainGoes(from, to)
  /\ LockMutex(Main, "_print_lock")
  /\ SignalAll(cv)
  /\ missed' = (missed \/ \E w \in Workers : at[w] \in before)
  /\ UNCHANGED at

\* OP_ON_LOCK(_print_lock, std::cout << ...)
MainLock ==
  /\ \E p \in LockPlaces : MainGoes(p[1], p[2])
  /\ LockMutex(Main, "_print_lock")
  /\ UNCHANGED <<waiting, at, missed>>

MainUnlock ==
  /\ \E p \in UnlockPlaces : MainGoes(p[1], p[2])
  /\ UnlockMutex(Main, "_print_lock")
  /\ UNCHANGED <<waiting, at, missed>>

\* pthread_join of every worker
Join ==
  /\ MainGoes("join", "end")
  /\ \A w \in Workers : at[w] = "exited"
  /\ UNCHANGED <<holder, waiting, at, missed>>

MainStep ==
  \/ Create \/ MainLock \/ MainUnlock
  \/ Signal("signalPrint", "signalPrintUnlock", "_thread_print_cv", BeforePrint)
  \/ Signal("signalDie", "signalDieUnlock", "_thread_die_cv", BeforeDie)
  \/ Join

Wake == SpuriousWake /\ UNCHANGED <<at, main, missed>>

Ended == main = "ended" /\ UNCHANGED testVars

TestNext == MainStep \/ (\E w \in Workers : Worker(w)) \/ Wake \/ Ended

\* Threads that can take a step eventually take it; nobody wakes by accident
\* for ever, and nobody has to wake by accident.
TestSpec ==
  /\ TestInit /\ [][TestNext]_testVars
  /\ WF_testVars(MainStep)
  /\ \A w \in Workers : WF_testVars(Worker(w))

-----------------------------------------------------------------------------
(* Correctness.                                                            *)

\* The type invariant, with the critical sections of the workers: between the
\* two steps of a wait a worker does not hold the mutex it waits with.
TestTypeOK ==
  /\ SyncTypeOK
  /\ at \in [Workers -> WorkerPlaces]
  /\ \A w \in Workers :
       /\ holder["_thread_print_lock"] = w
            <=> at[w] \in {"printWait", "printPrint", "printEnd", "printUnlock"}
       /\ holder["_die_lock"] = w
            <=> at[w] \in {"dieWait", "diePrint", "dieEnd", "dieUnlock"}
       /\ holder["_print_lock"] = w
            <=> at[w] \in {"initUnlock", "printEnd", "dieEnd"}
  /\ main \in MainPlaces
  /\ missed \in BOOLEAN

\* The three mutexes of the test can make nobody wait for ever: main() ends,
\* unless it gave a signal that a worker was too late to wait for.
EndsUnlessMissed == <>(main = "ended" \/ missed)
=============================================================================
