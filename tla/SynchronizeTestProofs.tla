------------------------ MODULE SynchronizeTestProofs ------------------------
(***************************************************************************)
(* Proofs about SynchronizeTest, for any number of workers: the critical   *)
(* sections exclude each other, and as long as no signal is given too      *)
(* early nobody waits for one that has been given, and somebody can go on. *)
(***************************************************************************)
EXTENDS SynchronizeTest, TLAPS

\* main() creates the workers before it does anything else, it holds no lock but
\* _print_lock, and a worker is blocked where it waits and nowhere else.
Order ==
  /\ \A w \in Workers : main = "create" <=> at[w] = "none"
  /\ holder["_print_lock"] = Main <=> main \in MainHolds
  /\ holder["_thread_print_lock"] # Main /\ holder["_die_lock"] # Main
  /\ Main \notin waiting["_thread_print_cv"] /\ Main \notin waiting["_thread_die_cv"]
  /\ \A w \in Workers :
       /\ w \in waiting["_thread_print_cv"] => at[w] = "printWoken"
       /\ w \in waiting["_thread_die_cv"] => at[w] = "dieWoken"

\* Where main() is once it has given the signals.
PrintGiven ==
  {"signalPrintUnlock", "printed", "printedUnlock", "signalDie",
   "signalDieUnlock", "died", "diedUnlock", "waiting", "waitingUnlock", "join",
   "end", "endUnlock", "ended"}
DieGiven ==
  PrintGiven \ {"signalPrintUnlock", "printed", "printedUnlock", "signalDie"}

\* If no signal was given too early, a signal that has been given has reached
\* every worker.
SignalsReach ==
  ~missed =>
    /\ main \in PrintGiven =>
         /\ \A w \in Workers : at[w] \notin BeforePrint
         /\ waiting["_thread_print_cv"] = {}
    /\ main \in DieGiven =>
         /\ \A w \in Workers : at[w] \notin BeforeDie
         /\ waiting["_thread_die_cv"] = {}

Inv == TestTypeOK /\ Order /\ SignalsReach

\* The guards of Worker(w) and of MainStep.
WorkerCanGo(w) ==
  \/ at[w] \in {"initUnlock", "printWait", "printEnd", "printUnlock",
                "dieWait", "dieEnd", "dieUnlock"}
  \/ at[w] \in {"init", "printPrint", "diePrint"} /\ holder["_print_lock"] = Nobody
  \/ at[w] = "print" /\ holder["_thread_print_lock"] = Nobody
  \/ /\ at[w] = "printWoken" /\ w \notin waiting["_thread_print_cv"]
     /\ holder["_thread_print_lock"] = Nobody
  \/ at[w] = "die" /\ holder["_die_lock"] = Nobody
  \/ /\ at[w] = "dieWoken" /\ w \notin waiting["_thread_die_cv"]
     /\ holder["_die_lock"] = Nobody

MainCanGo ==
  \/ main \in MainHolds
  \/ /\ main \notin MainHolds \cup {"join", "ended"}
     /\ holder["_print_lock"] = Nobody
  \/ main = "join" /\ \A w \in Workers : at[w] = "exited"

\* Unless a signal was given too early somebody can go on until main() has ended.
NobodyIsStuck ==
  main # "ended" /\ ~missed => MainCanGo \/ \E w \in Workers : WorkerCanGo(w)

-----------------------------------------------------------------------------
LEMMA Places ==
  /\ MainHolds = {"createUnlock", "createdUnlock", "signalPrintUnlock",
                  "printedUnlock", "signalDieUnlock", "diedUnlock",
                  "waitingUnlock", "endUnlock"}
BY DEF MainHolds, UnlockPlaces

LEMMA InvInit == TestInit => Inv
BY MainAssumption, NobodyAssumption, Places
   DEF TestInit, SyncInit, Inv, TestTypeOK, SyncTypeOK, Order, SignalsReach,
       WorkerPlaces, BeforeDie, BeforePrint, MainPlaces, PrintGiven, DieGiven, Workers

LEMMA LocksKeep ==
  ASSUME Inv, NEW w \in Workers, NEW from, NEW to, NEW m,
         WorkerLocks(w, from, to, m),
         \/ <<from, to, m>> = <<"init", "initUnlock", "_print_lock">>
         \/ <<from, to, m>> = <<"print", "printWait", "_thread_print_lock">>
         \/ <<from, to, m>> = <<"printPrint", "printEnd", "_print_lock">>
         \/ <<from, to, m>> = <<"die", "dieWait", "_die_lock">>
         \/ <<from, to, m>> = <<"diePrint", "dieEnd", "_print_lock">>
  PROVE  Inv'
<1>1. TestTypeOK'
  BY MainAssumption, NobodyAssumption, Places
     DEF Inv, TestTypeOK, SyncTypeOK, Order, WorkerLocks, WorkerGoes, LockMutex,
         Workers, WorkerPlaces, BeforeDie, BeforePrint
<1>2. Order'
  BY MainAssumption, NobodyAssumption, Places
     DEF Inv, TestTypeOK, SyncTypeOK, Order, WorkerLocks, WorkerGoes, LockMutex,
         Workers, WorkerPlaces, BeforeDie, BeforePrint
<1>3. SignalsReach'
  BY MainAssumption, NobodyAssumption, Places
     DEF Inv, TestTypeOK, SignalsReach, WorkerLocks, WorkerGoes, LockMutex,
         Workers, WorkerPlaces, BeforeDie, BeforePrint
<1> QED
  BY <1>1, <1>2, <1>3 DEF Inv

LEMMA UnlocksKeep ==
  ASSUME Inv, NEW w \in Workers, NEW from, NEW to, NEW m,
         WorkerUnlocks(w, from, to, m),
         \/ <<from, to, m>> = <<"initUnlock", "print", "_print_lock">>
         \/ <<from, to, m>> = <<"printEnd", "printUnlock", "_print_lock">>
         \/ <<from, to, m>> = <<"printUnlock", "die", "_thread_print_lock">>
         \/ <<from, to, m>> = <<"dieEnd", "dieUnlock", "_print_lock">>
         \/ <<from, to, m>> = <<"dieUnlock", "exited", "_die_lock">>
  PROVE  Inv'
<1>1. TestTypeOK'
  BY MainAssumption, NobodyAssumption, Places
     DEF Inv, TestTypeOK, SyncTypeOK, Order, WorkerUnlocks, WorkerGoes, UnlockMutex,
         Workers, WorkerPlaces, BeforeDie, BeforePrint
<1>2. Order'
  BY MainAssumption, NobodyAssumption, Places
     DEF Inv, TestTypeOK, SyncTypeOK, Order, WorkerUnlocks, WorkerGoes, UnlockMutex,
         Workers, WorkerPlaces, BeforeDie, BeforePrint
<1>3. SignalsReach'
  BY MainAssumption, NobodyAssumption, Places
     DEF Inv, TestTypeOK, SignalsReach, WorkerUnlocks, WorkerGoes, UnlockMutex,
         Workers, WorkerPlaces, BeforeDie, BeforePrint
<1> QED
  BY <1>1, <1>2, <1>3 DEF Inv

\* A wait gives up the mutex it has, and takes it again.
LEMMA WaitKeeps ==
  ASSUME Inv, NEW w \in Workers, NEW from, NEW to, NEW cv, NEW m,
         WorkerGoes(w, from, to), WaitOnCondition(w, cv, m),
         \/ /\ <<from, to>> = <<"printWait", "printWoken">>
            /\ <<cv, m>> = <<"_thread_print_cv", "_thread_print_lock">>
         \/ /\ <<from, to>> = <<"dieWait", "dieWoken">>
            /\ <<cv, m>> = <<"_thread_die_cv", "_die_lock">>
  PROVE  Inv'
<1>1. TestTypeOK'
  BY MainAssumption, NobodyAssumption, Places
     DEF Inv, TestTypeOK, SyncTypeOK, Order, WaitOnCondition, WorkerGoes, UnlockMutex,
         Workers, WorkerPlaces, BeforeDie, BeforePrint
<1>2. Order'
  BY MainAssumption, NobodyAssumption, Places
     DEF Inv, TestTypeOK, SyncTypeOK, Order, WaitOnCondition, WorkerGoes, UnlockMutex,
         Workers, WorkerPlaces, BeforeDie, BeforePrint
<1>3. SignalsReach'
  BY MainAssumption, NobodyAssumption, Places
     DEF Inv, TestTypeOK, SyncTypeOK, SignalsReach, WaitOnCondition, WorkerGoes,
         UnlockMutex, Workers, WorkerPlaces, BeforeDie, BeforePrint, PrintGiven,
         DieGiven
<1> QED
  BY <1>1, <1>2, <1>3 DEF Inv

LEMMA ResumeKeeps ==
  ASSUME Inv, NEW w \in Workers, NEW from, NEW to, NEW cv, NEW m,
         WorkerGoes(w, from, to), Resume(w, cv, m),
         \/ /\ <<from, to>> = <<"printWoken", "printPrint">>
            /\ <<cv, m>> = <<"_thread_print_cv", "_thread_print_lock">>
         \/ /\ <<from, to>> = <<"dieWoken", "diePrint">>
            /\ <<cv, m>> = <<"_thread_die_cv", "_die_lock">>
  PROVE  Inv'
<1>1. TestTypeOK'
  BY MainAssumption, NobodyAssumption, Places
     DEF Inv, TestTypeOK, SyncTypeOK, Order, Resume, WorkerGoes, LockMutex,
         Workers, WorkerPlaces, BeforeDie, BeforePrint
<1>2. Order'
  BY MainAssumption, NobodyAssumption, Places
     DEF Inv, TestTypeOK, SyncTypeOK, Order, Resume, WorkerGoes, LockMutex,
         Workers, WorkerPlaces, BeforeDie, BeforePrint
<1>3. SignalsReach'
  BY MainAssumption, NobodyAssumption, Places
     DEF Inv, TestTypeOK, SyncTypeOK, SignalsReach, Resume, WorkerGoes, LockMutex,
         Workers, WorkerPlaces, BeforeDie, BeforePrint
<1> QED
  BY <1>1, <1>2, <1>3 DEF Inv

LEMMA WorkerKeeps == ASSUME Inv, NEW w \in Workers, Worker(w) PROVE Inv'
<1>1. CASE Initialize(w)
  BY <1>1, LocksKeep, UnlocksKeep DEF Initialize
<1>2. CASE OnSignal(w, "_thread_print_cv", "_thread_print_lock", PrintPlaces)
  BY <1>2, LocksKeep, UnlocksKeep, WaitKeeps, ResumeKeeps DEF OnSignal, PrintPlaces
<1>3. CASE OnSignal(w, "_thread_die_cv", "_die_lock", DiePlaces)
  BY <1>3, LocksKeep, UnlocksKeep, WaitKeeps, ResumeKeeps DEF OnSignal, DiePlaces
<1> QED
  BY <1>1, <1>2, <1>3 DEF Worker

LEMMA MainKeeps == ASSUME Inv, MainStep PROVE Inv'
<1>1. CASE Create
  BY <1>1, MainAssumption, NobodyAssumption, Places
     DEF Inv, TestTypeOK, SyncTypeOK, Order, SignalsReach, Create, MainGoes,
         LockMutex, Workers, WorkerPlaces, BeforeDie, BeforePrint, MainPlaces,
         PrintGiven, DieGiven
<1>2. CASE MainLock
  BY <1>2, MainAssumption, NobodyAssumption, Places
     DEF Inv, TestTypeOK, SyncTypeOK, Order, SignalsReach, MainLock, MainGoes,
         LockMutex, LockPlaces, Workers, MainPlaces, PrintGiven, DieGiven
<1>3. CASE MainUnlock
  BY <1>3, MainAssumption, NobodyAssumption, Places
     DEF Inv, TestTypeOK, SyncTypeOK, Order, SignalsReach, MainUnlock, MainGoes,
         UnlockMutex, UnlockPlaces, Workers, MainPlaces, PrintGiven, DieGiven
<1>4. CASE Signal("signalPrint", "signalPrintUnlock", "_thread_print_cv", BeforePrint)
  BY <1>4, MainAssumption, NobodyAssumption, Places
     DEF Inv, TestTypeOK, SyncTypeOK, Order, SignalsReach, Signal, SignalAll, MainGoes,
         LockMutex, Workers, MainPlaces, PrintGiven, DieGiven
<1>5. CASE Signal("signalDie", "signalDieUnlock", "_thread_die_cv", BeforeDie)
  BY <1>5, MainAssumption, NobodyAssumption, Places
     DEF Inv, TestTypeOK, SyncTypeOK, Order, SignalsReach, Signal, SignalAll, MainGoes,
         LockMutex, Workers, MainPlaces, PrintGiven, DieGiven
<1>6. CASE Join
  BY <1>6, MainAssumption, NobodyAssumption, Places
     DEF Inv, TestTypeOK, SyncTypeOK, Order, SignalsReach, Join, MainGoes,
         Workers, MainPlaces, PrintGiven, DieGiven
<1> QED
  BY <1>1, <1>2, <1>3, <1>4, <1>5, <1>6 DEF MainStep

LEMMA InvStep == Inv /\ [TestNext]_testVars => Inv'
<1> SUFFICES ASSUME Inv, [TestNext]_testVars PROVE Inv'
  OBVIOUS
<1>1. CASE Wake
  <2>1. TestTypeOK'
    BY <1>1 DEF Inv, TestTypeOK, SyncTypeOK, Wake, SpuriousWake
  <2>2. Order'
    BY <1>1, MainAssumption DEF Inv, TestTypeOK, SyncTypeOK, Order, Wake, SpuriousWake
  <2>3. SignalsReach'
    BY <1>1, MainAssumption
       DEF Inv, TestTypeOK, SyncTypeOK, SignalsReach, Wake, SpuriousWake
  <2> QED
    BY <2>1, <2>2, <2>3 DEF Inv
<1>2. CASE UNCHANGED testVars
  BY <1>2 DEF testVars, Inv, TestTypeOK, SyncTypeOK, Order, SignalsReach
<1> QED
  BY <1>1, <1>2, WorkerKeeps, MainKeeps DEF TestNext, Ended

LEMMA Reached == Inv => NobodyIsStuck
<1> SUFFICES ASSUME Inv, main # "ended", ~missed, ~MainCanGo
             PROVE  \E w \in Workers : WorkerCanGo(w)
  BY DEF NobodyIsStuck
<1>1. /\ \A m \in Mutexes : holder[m] \in Workers \cup {Main, Nobody}
      /\ holder["_print_lock"] # Main /\ holder["_die_lock"] # Main
      /\ {"_print_lock", "_die_lock"} \subseteq Mutexes
  BY MainAssumption DEF Inv, TestTypeOK, SyncTypeOK, Order, MainCanGo, Workers
<1>2. CASE holder["_print_lock"] # Nobody
  <2>1. holder["_print_lock"] \in Workers
    BY <1>1, <1>2
  <2>2. at[holder["_print_lock"]] \in {"initUnlock", "printEnd", "dieEnd"}
    BY <2>1 DEF Inv, TestTypeOK
  <2> QED
    BY <2>1, <2>2 DEF WorkerCanGo
<1>3. CASE holder["_print_lock"] = Nobody
  <2>1. main = "join"
    BY <1>3 DEF MainCanGo
  <2>2. PICK w \in Workers : at[w] # "exited"
    BY <2>1 DEF MainCanGo
  <2>3. /\ \A v \in Workers : at[v] \in {"dieWoken", "diePrint", "dieEnd",
                                        "dieUnlock", "exited"}
        /\ waiting["_thread_die_cv"] = {}
    BY <2>1 DEF Inv, TestTypeOK, SignalsReach, PrintGiven, DieGiven, WorkerPlaces
  <2>4. CASE at[w] # "dieWoken"
    BY <1>3, <2>2, <2>3, <2>4 DEF WorkerCanGo
  <2>5. CASE at[w] = "dieWoken" /\ holder["_die_lock"] = Nobody
    BY <2>3, <2>5 DEF WorkerCanGo
  <2>6. CASE holder["_die_lock"] # Nobody
    <3>1. holder["_die_lock"] \in Workers
      BY <1>1, <2>6
    <3>2. at[holder["_die_lock"]] \in {"diePrint", "dieEnd", "dieUnlock"}
      BY <2>3, <3>1 DEF Inv, TestTypeOK
    <3> QED
      BY <1>3, <3>1, <3>2 DEF WorkerCanGo
  <2> QED
    BY <2>4, <2>5, <2>6
<1> QED
  BY <1>2, <1>3

-----------------------------------------------------------------------------
(* The theorems.                                                           *)

LEMMA Invariance == TestSpec => []Inv
BY InvInit, InvStep, PTL DEF TestSpec

\* However many workers there are, no two of them are between the same lock and
\* unlock, and a wait gives the mutex up until it returns.
THEOREM CriticalSections == TestSpec => []TestTypeOK
<1>1. Inv => TestTypeOK
  BY DEF Inv
<1> QED
  BY <1>1, Invariance, PTL

\* A signal that no worker was too late for has woken them all.
THEOREM SignalsReachAll == TestSpec => []SignalsReach
<1>1. Inv => SignalsReach
  BY DEF Inv
<1> QED
  BY <1>1, Invariance, PTL

\* The three mutexes and the two waits never make everybody wait on everybody.
THEOREM NoDeadlock == TestSpec => []NobodyIsStuck
BY Reached, Invariance, PTL
=============================================================================
