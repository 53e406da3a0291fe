---------------------------- MODULE CortexProofs ----------------------------
(***************************************************************************)
(* Proofs about Cortex, for every number of threads and set of tasks.      *)
(***************************************************************************)
EXTENDS Cortex, SequenceTheorems, TLAPS

\* Thread identifiers: the owner is no worker, and Free is no thread.
LEMMA ThreadIds ==
  /\ Workers \subseteq Nat \ {0}
  /\ Owner \notin Workers
  /\ Free \notin Threads
  /\ Threads \subseteq Nat
BY NumThreadsAssumption DEF Workers, Owner, Threads, Free, PoolSize

\* Popping a queue: the front leaves, and what is left keeps its order.
LEMMA PopFacts ==
  ASSUME NEW S, NEW s \in Seq(S), s # <<>>
  PROVE  /\ Head(s) = s[1] /\ Head(s) \in S /\ 1 \in 1 .. Len(s)
         /\ Tail(s) \in Seq(S)
         /\ Len(Tail(s)) = Len(s) - 1
         /\ \A i \in 1 .. Len(Tail(s)) : Tail(s)[i] = s[i + 1] /\ i + 1 \in 1 .. Len(s)
OBVIOUS

\* Pushing on a queue: the new element comes last, the others stay in place.
LEMMA PushFacts ==
  ASSUME NEW S, NEW s \in Seq(S), NEW e \in S
  PROVE  /\ Append(s, e) \in Seq(S)
         /\ Len(Append(s, e)) = Len(s) + 1
         /\ Append(s, e)[Len(s) + 1] = e
         /\ \A i \in 1 .. Len(s) : Append(s, e)[i] = s[i]
OBVIOUS

-----------------------------------------------------------------------------
LEMMA InitIInv == Init => IInv
<1> SUFFICES ASSUME Init PROVE IInv
  OBVIOUS
<1> USE ThreadIds DEF Init
<1>1. TypeOK
  <2>1. gate \in Seq(Tasks) /\ processing \in BOOLEAN
    BY EmptySeq
  <2>2. mutex \in Threads \cup {Free} /\ hasWork \in SUBSET Workers /\ queueEmpty \in SUBSET {Owner}
    OBVIOUS
  <2>3. worker \in [Workers -> WorkerStates]
    BY DEF WorkerStates
  <2>4. ret \in [Threads -> Tasks \cup {NoTask}]
    OBVIOUS
  <2>5. owner \in OwnerStates /\ resume \in {"idle", "iterate", "destroy"}
    BY DEF OwnerStates
  <2>6. task \in [Tasks -> TaskStates]
    BY DEF TaskStates
  <2> QED
    BY <2>1, <2>2, <2>3, <2>4, <2>5, <2>6 DEF TypeOK
<1>2. MutexInv
  BY DEF MutexInv, Threads
<1>3. StartedInv
  BY DEF StartedInv
<1>4. RetInv
  BY DEF RetInv, Threads
<1>5. SingleOwnership
  BY DEF SingleOwnership
<1>6. PopNonEmpty
  BY DEF PopNonEmpty
<1> QED
  BY <1>1, <1>2, <1>3, <1>4, <1>5, <1>6 DEF IInv

\* Every step preserves the type invariant.
LEMMA TypeStep == IInv /\ [Next]_vars => TypeOK'
<1> SUFFICES ASSUME IInv, [Next]_vars PROVE TypeOK'
  OBVIOUS
<1> USE ThreadIds DEF TypeOK, WorkerStates, OwnerStates, TaskStates, Threads
<1>a. TypeOK
  BY DEF IInv
<1>1. ASSUME NEW t \in Tasks, Enqueue(t) PROVE TypeOK'
  BY <1>a, <1>1, PushFacts DEF Enqueue
<1>2. ASSUME NEW w \in Workers, WorkerCheck(w) PROVE TypeOK'
  BY <1>a, <1>2 DEF WorkerCheck
<1>3. ASSUME NEW w \in Workers, WorkerLock(w) PROVE TypeOK'
  BY <1>a, <1>3 DEF WorkerLock
<1>4. ASSUME NEW w \in Workers, WorkerWait(w) PROVE TypeOK'
  BY <1>a, <1>4 DEF WorkerWait
<1>5. ASSUME NEW w \in Workers, WorkerTake(w) PROVE TypeOK'
  <2>1. processing => gate # <<>>
    BY <1>5 DEF IInv, PopNonEmpty, WorkerTake
  <2>2. CASE processing
    <3>1. Head(gate) \in Tasks /\ Tail(gate) \in Seq(Tasks)
      BY <1>a, <2>1, <2>2, PopFacts
    <3> QED
      BY <1>a, <1>5, <2>2, <3>1 DEF WorkerTake
  <2>3. CASE ~processing
    BY <1>a, <1>5, <2>3 DEF WorkerTake
  <2> QED
    BY <2>2, <2>3
<1>6. ASSUME NEW w \in Workers, WorkerDispatch(w) PROVE TypeOK'
  BY <1>a, <1>6 DEF WorkerDispatch
<1>7. ASSUME NEW w \in Workers, WorkerFinish(w) PROVE TypeOK'
  BY <1>a, <1>7 DEF WorkerFinish
<1>8. CASE Start
  BY <1>a, <1>8 DEF Start
<1>9. CASE Stop \/ ProcessGateIteratively \/ Destroy
  BY <1>a, <1>9 DEF Stop, ProcessGateIteratively, Destroy, StopCall
<1>10. CASE StopSignal
  BY <1>a, <1>10 DEF StopSignal
<1>11. CASE StopJoin
  BY <1>a, <1>11 DEF StopJoin
<1>12. CASE DrainCall \/ DrainTest \/ DrainWait
  BY <1>a, <1>12 DEF DrainCall, DrainTest, DrainWait
<1>13. CASE IterateLock \/ IterateUnlock
  BY <1>a, <1>13 DEF IterateLock, IterateUnlock
<1>14. CASE IterateRun
  BY <1>a, <1>14, PopFacts DEF IterateRun
<1>15. CASE IterateFinish
  BY <1>a, <1>15 DEF IterateFinish
<1>16. CASE DestroyGate
  BY <1>a, <1>16 DEF DestroyGate
<1>17. CASE SpuriousWake
  BY <1>a, <1>17 DEF SpuriousWake
<1>18. CASE UNCHANGED vars
  BY <1>a, <1>18 DEF vars
<1> QED
  BY <1>1, <1>2, <1>3, <1>4, <1>5, <1>6, <1>7, <1>8, <1>9, <1>10, <1>11,
     <1>12, <1>13, <1>14, <1>15, <1>16, <1>17, <1>18
     DEF Next, WorkerStep, OwnerCall, OwnerStep, Terminated

\* Every step preserves the mutex discipline.
LEMMA MutexStep == IInv /\ [Next]_vars => MutexInv'
<1> SUFFICES ASSUME IInv, [Next]_vars PROVE MutexInv'
  OBVIOUS
<1> USE ThreadIds DEF MutexInv, Threads
<1>a. TypeOK /\ MutexInv /\ StartedInv
  BY DEF IInv
<1>b. worker \in [Workers -> WorkerStates]
  BY <1>a DEF TypeOK
<1>1. ASSUME NEW t \in Tasks, Enqueue(t) PROVE MutexInv'
  BY <1>a, <1>1 DEF Enqueue
<1>2. ASSUME NEW w \in Workers, WorkerCheck(w) PROVE MutexInv'
  BY <1>a, <1>b, <1>2 DEF WorkerCheck
<1>3. ASSUME NEW w \in Workers, WorkerLock(w) PROVE MutexInv'
  BY <1>a, <1>b, <1>3 DEF WorkerLock
<1>4. ASSUME NEW w \in Workers, WorkerWait(w) PROVE MutexInv'
  BY <1>a, <1>b, <1>4 DEF WorkerWait
<1>5. ASSUME NEW w \in Workers, WorkerTake(w) PROVE MutexInv'
  BY <1>a, <1>b, <1>5 DEF WorkerTake
<1>6. ASSUME NEW w \in Workers, WorkerDispatch(w) PROVE MutexInv'
  BY <1>a, <1>b, <1>6 DEF WorkerDispatch
<1>7. ASSUME NEW w \in Workers, WorkerFinish(w) PROVE MutexInv'
  BY <1>a, <1>b, <1>7 DEF WorkerFinish
<1>8. CASE Start
  BY <1>a, <1>b, <1>8 DEF Start, StartedInv
<1>9. CASE Stop \/ ProcessGateIteratively \/ Destroy
  BY <1>a, <1>9 DEF Stop, ProcessGateIteratively, Destroy, StopCall
<1>10. CASE StopSignal
  BY <1>a, <1>10 DEF StopSignal
<1>11. CASE StopJoin
  BY <1>a, <1>b, <1>11 DEF StopJoin, TypeOK
<1>12. CASE DrainCall \/ DrainTest \/ DrainWait
  BY <1>a, <1>12 DEF DrainCall, DrainTest, DrainWait
<1>13. CASE IterateLock \/ IterateUnlock
  BY <1>a, <1>13 DEF IterateLock, IterateUnlock
<1>14. CASE IterateRun \/ IterateFinish
  BY <1>a, <1>14 DEF IterateRun, IterateFinish
<1>15. CASE DestroyGate
  BY <1>a, <1>15 DEF DestroyGate
<1>16. CASE SpuriousWake \/ UNCHANGED vars
  BY <1>a, <1>16 DEF SpuriousWake, vars
<1> QED
  BY <1>1, <1>2, <1>3, <1>4, <1>5, <1>6, <1>7, <1>8, <1>9, <1>10, <1>11,
     <1>12, <1>13, <1>14, <1>15, <1>16
     DEF Next, WorkerStep, OwnerCall, OwnerStep, Terminated

\* Every step preserves what is known of started and stopped pools.
LEMMA StartedStep == IInv /\ [Next]_vars => StartedInv'
<1> SUFFICES ASSUME IInv, [Next]_vars PROVE StartedInv'
  OBVIOUS
<1> USE DEF StartedInv
<1>a. StartedInv /\ processing \in BOOLEAN /\ worker \in [Workers -> WorkerStates]
  BY DEF IInv, TypeOK
<1>1. ASSUME NEW w \in Workers,
             \/ WorkerCheck(w) \/ WorkerLock(w) \/ WorkerWait(w)
             \/ WorkerTake(w) \/ WorkerDispatch(w) \/ WorkerFinish(w)
      PROVE  StartedInv'
  <2>1. /\ processing' = processing /\ owner' = owner
        /\ worker[w] # "none"
        /\ \E p \in WorkerStates :
             /\ worker' = [worker EXCEPT ![w] = p]
             /\ processing => p \notin {"none", "exited"}
    BY <1>1 DEF WorkerCheck, WorkerLock, WorkerWait, WorkerTake,
                WorkerDispatch, WorkerFinish, WorkerStates
  <2> QED
    BY <1>a, <2>1
<1>2. CASE Start
  BY <1>a, <1>2 DEF Start
<1>3. CASE Stop \/ ProcessGateIteratively \/ Destroy
  BY <1>a, <1>3 DEF Stop, ProcessGateIteratively, Destroy, StopCall
<1>4. CASE StopSignal
  BY <1>a, <1>4 DEF StopSignal
<1>5. CASE StopJoin
  BY <1>a, <1>5 DEF StopJoin
<1>6. CASE DrainCall \/ DrainTest \/ DrainWait
  BY <1>a, <1>6 DEF DrainCall, DrainTest, DrainWait
<1>7. CASE IterateLock \/ IterateRun \/ IterateFinish \/ IterateUnlock
  BY <1>a, <1>7 DEF IterateLock, IterateRun, IterateFinish, IterateUnlock
<1>8. CASE DestroyGate
  BY <1>a, <1>8 DEF DestroyGate
<1>9. CASE SpuriousWake \/ UNCHANGED vars \/ \E t \in Tasks : Enqueue(t)
  BY <1>a, <1>9 DEF SpuriousWake, vars, Enqueue
<1> QED
  BY <1>1, <1>2, <1>3, <1>4, <1>5, <1>6, <1>7, <1>8, <1>9
     DEF Next, WorkerStep, OwnerCall, OwnerStep, Terminated

\* Every step keeps popped tasks where their threads are.
LEMMA RetStep == IInv /\ [Next]_vars => RetInv'
<1> SUFFICES ASSUME IInv, [Next]_vars PROVE RetInv'
  OBVIOUS
<1> USE ThreadIds DEF RetInv, Threads
<1>a. /\ RetInv /\ StartedInv /\ SingleOwnership /\ PopNonEmpty
      /\ gate \in Seq(Tasks) /\ processing \in BOOLEAN
      /\ worker \in [Workers -> WorkerStates]
      /\ ret \in [Threads -> Tasks \cup {NoTask}]
      /\ task \in [Tasks -> TaskStates]
  BY DEF IInv, TypeOK
<1>b. NoTask \notin Tasks
  BY NoTaskAssumption
<1>1. ASSUME NEW t \in Tasks, Enqueue(t) PROVE RetInv'
  <2>1. /\ task[t] = "new" /\ task' = [task EXCEPT ![t] = "queued"]
        /\ UNCHANGED <<processing, worker, ret, owner>>
    BY <1>1 DEF Enqueue
  <2>2. \A h \in Threads : ret[h] # NoTask => ret[h] # t
    BY <1>a, <2>1 DEF SingleOwnership
  <2> QED
    BY <1>a, <2>1, <2>2
<1>2. ASSUME NEW w \in Workers, WorkerCheck(w) \/ WorkerLock(w) \/ WorkerWait(w)
      PROVE  RetInv'
  <2>1. /\ worker[w] \notin {"dispatch", "execute"}
        /\ UNCHANGED <<processing, ret, owner, task>>
        /\ \E p \in WorkerStates \ {"dispatch", "execute"} :
             worker' = [worker EXCEPT ![w] = p]
    BY <1>2 DEF WorkerCheck, WorkerLock, WorkerWait, WorkerStates
  <2> QED
    BY <1>a, <2>1
<1>3. ASSUME NEW w \in Workers, WorkerTake(w) PROVE RetInv'
  <2>1. /\ worker[w] = "take" /\ ret[w] = NoTask
        /\ worker' = [worker EXCEPT ![w] = "dispatch"]
        /\ UNCHANGED <<processing, owner>>
    BY <1>a, <1>3 DEF WorkerTake
  <2>2. CASE processing
    <3>1. /\ Head(gate) \in Tasks
          /\ task[Head(gate)] = "queued"
          /\ ret' = [ret EXCEPT ![w] = Head(gate)]
          /\ task' = [task EXCEPT ![Head(gate)] = "held"]
      BY <1>a, <1>3, <2>1, <2>2, PopFacts DEF WorkerTake, PopNonEmpty, SingleOwnership
    <3>2. \A h \in Threads : ret[h] # NoTask => ret[h] # Head(gate)
      BY <1>a, <3>1 DEF SingleOwnership
    <3> QED
      BY <1>a, <1>b, <2>1, <3>1, <3>2
  <2>3. CASE ~processing
    BY <1>a, <1>3, <2>1, <2>3 DEF WorkerTake
  <2> QED
    BY <2>2, <2>3
<1>4. ASSUME NEW w \in Workers, WorkerDispatch(w) PROVE RetInv'
  <2>1. \A h \in Threads \ {w} : ret[h] # NoTask => ret[h] # ret[w]
    BY <1>a DEF SingleOwnership
  <2>2. CASE processing
    BY <1>a, <1>4, <2>1, <2>2 DEF WorkerDispatch
  <2>3. CASE ~processing
    <3>1. \A h \in Threads \ {w} : ret[h] # NoTask => task'[ret[h]] = task[ret[h]]
      BY <1>a, <1>4, <2>1, <2>3 DEF WorkerDispatch
    <3> QED
      BY <1>a, <1>4, <2>3, <3>1 DEF WorkerDispatch
  <2> QED
    BY <2>2, <2>3
<1>5. ASSUME NEW w \in Workers, WorkerFinish(w) PROVE RetInv'
  <2>1. \A h \in Threads \ {w} : ret[h] # NoTask => ret[h] # ret[w]
    BY <1>a DEF SingleOwnership
  <2> QED
    BY <1>a, <1>5, <2>1 DEF WorkerFinish
<1>6. CASE Start
  BY <1>a, <1>6 DEF Start, StartedInv
<1>7. CASE Stop \/ ProcessGateIteratively \/ Destroy
  BY <1>a, <1>7 DEF Stop, ProcessGateIteratively, Destroy, StopCall
<1>8. CASE StopSignal
  BY <1>a, <1>8 DEF StopSignal
<1>9. CASE StopJoin
  <2>1. owner' # "run"
    BY <1>9 DEF IInv, TypeOK, StopJoin
  <2> QED
    BY <1>a, <1>9, <2>1 DEF StopJoin
<1>10. CASE DrainCall \/ DrainTest \/ DrainWait
  BY <1>a, <1>10 DEF DrainCall, DrainTest, DrainWait
<1>11. CASE IterateLock \/ IterateUnlock
  BY <1>a, <1>11 DEF IterateLock, IterateUnlock
<1>12. CASE IterateRun
  <2>1. /\ Head(gate) \in Tasks /\ task[Head(gate)] = "queued"
        /\ ~processing /\ \A w \in Workers : worker[w] = "none"
    BY <1>a, <1>12, PopFacts DEF IterateRun, SingleOwnership, StartedInv
  <2> QED
    BY <1>a, <1>b, <1>12, <2>1 DEF IterateRun
<1>13. CASE IterateFinish
  <2>1. ~processing /\ \A w \in Workers : worker[w] = "none"
    BY <1>a, <1>13 DEF IterateFinish, StartedInv
  <2> QED
    BY <1>a, <1>13, <2>1 DEF IterateFinish
<1>14. CASE DestroyGate
  <2>1. ~processing /\ \A w \in Workers : worker[w] = "none"
    BY <1>a, <1>14 DEF DestroyGate, StartedInv
  <2> QED
    BY <1>a, <1>14, <2>1 DEF DestroyGate
<1>15. CASE SpuriousWake \/ UNCHANGED vars
  BY <1>a, <1>15 DEF SpuriousWake, vars
<1> QED
  BY <1>1, <1>2, <1>3, <1>4, <1>5, <1>6, <1>7, <1>8, <1>9, <1>10, <1>11,
     <1>12, <1>13, <1>14, <1>15
     DEF Next, WorkerStep, OwnerCall, OwnerStep, Terminated

\* Every step keeps each task with one owner.
LEMMA OwnershipStep == IInv /\ [Next]_vars => SingleOwnership'
<1> SUFFICES ASSUME IInv, [Next]_vars PROVE SingleOwnership'
  OBVIOUS
<1> USE ThreadIds DEF SingleOwnership, Threads
<1>a. /\ RetInv /\ StartedInv /\ SingleOwnership /\ PopNonEmpty
      /\ gate \in Seq(Tasks) /\ processing \in BOOLEAN
      /\ worker \in [Workers -> WorkerStates]
      /\ ret \in [Threads -> Tasks \cup {NoTask}]
      /\ task \in [Tasks -> TaskStates]
  BY DEF IInv, TypeOK
<1>b. NoTask \notin Tasks
  BY NoTaskAssumption
<1>c. \A i \in 1 .. Len(gate) : gate[i] \in Tasks
  BY <1>a
\* A thread that holds nothing pops the gate: the front changes hands.
<1>d. ASSUME NEW h \in Threads, NEW s \in {"held", "running"},
             gate # <<>>, ret[h] = NoTask,
             ret' = [ret EXCEPT ![h] = Head(gate)],
             gate' = Tail(gate),
             task' = [task EXCEPT ![Head(gate)] = s]
      PROVE  SingleOwnership'
  <2>1. /\ Head(gate) = gate[1] /\ Head(gate) \in Tasks /\ 1 \in 1 .. Len(gate)
        /\ gate' \in Seq(Tasks)
        /\ \A i \in 1 .. Len(gate') : gate'[i] = gate[i + 1] /\ i + 1 \in 1 .. Len(gate)
        /\ Len(gate') = Len(gate) - 1
    BY <1>a, <1>d, PopFacts
  <2>2. \A g \in Threads : ret[g] # Head(gate)
    BY <1>a, <1>b, <2>1
  <2>3. \A i, j \in 1 .. Len(gate') : gate'[i] = gate'[j] => i = j
    <3> SUFFICES ASSUME NEW i \in 1 .. Len(gate'), NEW j \in 1 .. Len(gate'), gate'[i] = gate'[j]
                 PROVE  i = j
      OBVIOUS
    <3>1. gate[i + 1] = gate[j + 1] /\ i + 1 \in 1 .. Len(gate) /\ j + 1 \in 1 .. Len(gate)
      BY <2>1
    <3>2. i + 1 = j + 1
      BY <1>a, <3>1
    <3> QED
      BY <3>2
  <2>4. \A i \in 1 .. Len(gate') : gate'[i] # Head(gate)
    <3> SUFFICES ASSUME NEW i \in 1 .. Len(gate'), gate'[i] = Head(gate)
                 PROVE  FALSE
      OBVIOUS
    <3>1. gate[i + 1] = gate[1] /\ i + 1 \in 1 .. Len(gate) /\ 1 \in 1 .. Len(gate)
      BY <2>1
    <3>2. i + 1 = 1
      BY <1>a, <3>1
    <3>3. i \in Nat \ {0}
      BY <2>1, LenProperties
    <3> QED
      BY <3>2, <3>3
  <2>5. \A i \in 1 .. Len(gate') : task'[gate'[i]] = "queued"
    <3> TAKE i \in 1 .. Len(gate')
    <3>1. gate'[i] = gate[i + 1] /\ i + 1 \in 1 .. Len(gate) /\ gate'[i] # Head(gate)
      BY <2>1, <2>4
    <3>2. task[gate[i + 1]] = "queued" /\ gate[i + 1] \in Tasks
      BY <1>a, <1>c, <3>1
    <3> QED
      BY <1>a, <1>d, <3>1, <3>2
  <2>6. \A t \in Tasks : task'[t] = "queued" => \E i \in 1 .. Len(gate') : gate'[i] = t
    <3> SUFFICES ASSUME NEW t \in Tasks, task'[t] = "queued"
                 PROVE  \E i \in 1 .. Len(gate') : gate'[i] = t
      OBVIOUS
    <3>1. t # Head(gate) /\ task[t] = "queued"
      BY <1>a, <1>d, <2>1
    <3>2. PICK k \in 1 .. Len(gate) : gate[k] = t
      BY <1>a, <3>1
    <3>3. k # 1
      BY <2>1, <3>1, <3>2
    <3>4. k - 1 \in 1 .. Len(gate')
      BY <1>a, <2>1, <3>2, <3>3, LenProperties
    <3>5. gate'[k - 1] = gate[(k - 1) + 1]
      BY <2>1, <3>4
    <3> QED
      BY <3>2, <3>4, <3>5
  <2>7. \A g \in Threads : ret'[g] # NoTask => task'[ret'[g]] \in {"held", "running"}
    BY <1>a, <1>b, <1>d, <2>1, <2>2
  <2>8. \A f, g \in Threads : ret'[f] = ret'[g] /\ ret'[f] # NoTask => f = g
    BY <1>a, <1>d, <2>1, <2>2
  <2> QED
    BY <2>3, <2>5, <2>6, <2>7, <2>8
\* A task that is held or running moves on; its thread may let go of it.
<1>e. ASSUME NEW h \in Threads, ret[h] # NoTask,
             NEW s \in {"running", "done", "leaked"},
             gate' = gate,
             task' = [task EXCEPT ![ret[h]] = s],
             ret' = IF s = "running" THEN ret ELSE [ret EXCEPT ![h] = NoTask]
      PROVE  SingleOwnership'
  <2>1. task[ret[h]] # "queued" /\ ret[h] \in Tasks
    BY <1>a, <1>e
  <2>2. \A i \in 1 .. Len(gate) : gate[i] # ret[h]
    BY <1>a, <2>1
  <2>3. \A i \in 1 .. Len(gate) : task'[gate[i]] = "queued"
    BY <1>a, <1>c, <1>e, <2>2
  <2>4. \A t \in Tasks : task'[t] = "queued" => \E i \in 1 .. Len(gate') : gate'[i] = t
    BY <1>a, <1>e, <2>1
  <2>5. \A g \in Threads : ret'[g] # NoTask => task'[ret'[g]] \in {"held", "running"}
    BY <1>a, <1>e, <2>1
  <2>6. \A f, g \in Threads : ret'[f] = ret'[g] /\ ret'[f] # NoTask => f = g
    BY <1>a, <1>e
  <2> QED
    BY <1>a, <1>e, <2>3, <2>4, <2>5, <2>6
<1>f. UNCHANGED <<gate, ret, task>> => SingleOwnership'
  BY <1>a
<1>1. ASSUME NEW t \in Tasks, Enqueue(t) PROVE SingleOwnership'
  <2>1. /\ task[t] = "new" /\ task' = [task EXCEPT ![t] = "queued"]
        /\ ret' = ret
        /\ Len(gate') = Len(gate) + 1 /\ gate'[Len(gate) + 1] = t
        /\ \A i \in 1 .. Len(gate) : gate'[i] = gate[i]
    BY <1>a, <1>1, PushFacts DEF Enqueue
  <2>2. \A i \in 1 .. Len(gate) : gate[i] # t
    BY <1>a, <2>1
  <2>3. \A i \in 1 .. Len(gate') : i \in 1 .. Len(gate) \/ i = Len(gate) + 1
    BY <1>a, <2>1, LenProperties
  <2>4. \A i, j \in 1 .. Len(gate') : gate'[i] = gate'[j] => i = j
    <3> SUFFICES ASSUME NEW i \in 1 .. Len(gate'), NEW j \in 1 .. Len(gate'), gate'[i] = gate'[j]
                 PROVE  i = j
      OBVIOUS
    <3>1. CASE i \in 1 .. Len(gate) /\ j \in 1 .. Len(gate)
      BY <1>a, <2>1, <3>1
    <3>2. CASE i = Len(gate) + 1 \/ j = Len(gate) + 1
      BY <2>1, <2>2, <2>3, <3>2
    <3> QED
      BY <2>3, <3>1, <3>2
  <2>5. \A i \in 1 .. Len(gate') : task'[gate'[i]] = "queued"
    <3> TAKE i \in 1 .. Len(gate')
    <3>1. CASE i \in 1 .. Len(gate)
      BY <1>a, <1>c, <2>1, <3>1
    <3>2. CASE i = Len(gate) + 1
      BY <1>a, <2>1, <3>2
    <3> QED
      BY <2>3, <3>1, <3>2
  <2>6. \A u \in Tasks : task'[u] = "queued" => \E i \in 1 .. Len(gate') : gate'[i] = u
    <3> SUFFICES ASSUME NEW u \in Tasks, task'[u] = "queued"
                 PROVE  \E i \in 1 .. Len(gate') : gate'[i] = u
      OBVIOUS
    <3>1. CASE u = t
      <4>1. Len(gate) + 1 \in 1 .. Len(gate')
        BY <1>a, <2>1, LenProperties
      <4> QED
        BY <2>1, <3>1, <4>1
    <3>2. CASE u # t
      <4>1. task[u] = "queued"
        BY <1>a, <2>1, <3>2
      <4>2. PICK i \in 1 .. Len(gate) : gate[i] = u
        BY <1>a, <4>1
      <4>3. i \in 1 .. Len(gate')
        BY <1>a, <2>1, LenProperties
      <4> QED
        BY <2>1, <4>2, <4>3
    <3> QED
      BY <3>1, <3>2
  <2>7. \A h \in Threads : ret'[h] # NoTask => task'[ret'[h]] \in {"held", "running"}
    BY <1>a, <2>1
  <2> QED
    BY <1>a, <2>1, <2>4, <2>5, <2>6, <2>7
<1>2. ASSUME NEW w \in Workers, WorkerTake(w) PROVE SingleOwnership'
  <2>1. worker[w] = "take" /\ ret[w] = NoTask
    BY <1>a, <1>2 DEF WorkerTake, RetInv
  <2>2. CASE processing
    BY <1>a, <1>d, <1>2, <2>1, <2>2 DEF WorkerTake, PopNonEmpty
  <2>3. CASE ~processing
    BY <1>f, <1>2, <2>3 DEF WorkerTake
  <2> QED
    BY <2>2, <2>3
<1>3. ASSUME NEW w \in Workers, WorkerDispatch(w) PROVE SingleOwnership'
  <2>1. CASE processing
    <3>1. ret[w] # NoTask
      BY <1>a, <1>3, <2>1 DEF WorkerDispatch, RetInv
    <3> QED
      BY <1>e, <1>3, <2>1, <3>1 DEF WorkerDispatch
  <2>2. CASE ~processing /\ ret[w] = NoTask
    <3>1. task' = task /\ ret' = ret /\ gate' = gate
      BY <1>a, <1>b, <1>3, <2>2 DEF WorkerDispatch
    <3> QED
      BY <1>f, <3>1
  <2>3. CASE ~processing /\ ret[w] # NoTask
    <3>1. task' = [task EXCEPT ![ret[w]] = "leaked"]
      BY <1>a, <1>3, <2>3 DEF WorkerDispatch
    <3> QED
      BY <1>e, <1>3, <2>3, <3>1 DEF WorkerDispatch
  <2> QED
    BY <2>1, <2>2, <2>3
<1>4. ASSUME NEW w \in Workers, WorkerFinish(w) PROVE SingleOwnership'
  <2>1. ret[w] # NoTask
    BY <1>a, <1>4 DEF WorkerFinish, RetInv
  <2> QED
    BY <1>e, <1>4, <2>1 DEF WorkerFinish
<1>5. CASE IterateRun
  <2>1. ret[Owner] = NoTask
    BY <1>a, <1>5 DEF IterateRun, RetInv
  <2> QED
    BY <1>d, <1>5, <2>1 DEF IterateRun
<1>6. CASE IterateFinish
  <2>1. ret[Owner] # NoTask
    BY <1>a, <1>6 DEF IterateFinish, RetInv
  <2> QED
    BY <1>e, <1>6, <2>1 DEF IterateFinish
<1>7. CASE DestroyGate
  <2>1. /\ gate' = <<>> /\ ret' = ret
        /\ task' = [t \in Tasks |-> IF \E i \in DOMAIN gate : gate[i] = t
                                    THEN "deleted" ELSE task[t]]
    BY <1>7 DEF DestroyGate
  <2>2. \A t \in Tasks : task'[t] # "queued"
    BY <1>a, <2>1
  <2>3. \A h \in Threads : ret[h] # NoTask => \A i \in 1 .. Len(gate) : gate[i] # ret[h]
    BY <1>a
  <2>4. \A h \in Threads : ret'[h] # NoTask => task'[ret'[h]] \in {"held", "running"}
    BY <1>a, <2>1, <2>3
  <2> QED
    BY <1>a, <2>1, <2>2, <2>4
<1>8. CASE \/ Start \/ Stop \/ ProcessGateIteratively \/ Destroy \/ StopSignal
           \/ StopJoin \/ DrainCall \/ DrainTest \/ DrainWait \/ IterateLock
           \/ IterateUnlock \/ SpuriousWake \/ UNCHANGED vars
  <2>1. UNCHANGED <<gate, ret, task>>
    BY <1>8 DEF Start, Stop, ProcessGateIteratively, Destroy, StopCall,
                StopSignal, StopJoin, DrainCall, DrainTest, DrainWait,
                IterateLock, IterateUnlock, SpuriousWake, vars
  <2> QED
    BY <1>f, <2>1
<1>9. ASSUME NEW w \in Workers, WorkerCheck(w) \/ WorkerLock(w) \/ WorkerWait(w)
      PROVE  SingleOwnership'
  BY <1>f, <1>9 DEF WorkerCheck, WorkerLock, WorkerWait
<1> QED
  BY <1>1, <1>2, <1>3, <1>4, <1>5, <1>6, <1>7, <1>8, <1>9
     DEF Next, WorkerStep, OwnerCall, OwnerStep, Terminated

\* Every step keeps a task in the gate for a worker that is about to pop.
LEMMA PopStep == IInv /\ [Next]_vars => PopNonEmpty'
<1> SUFFICES ASSUME IInv, [Next]_vars PROVE PopNonEmpty'
  OBVIOUS
<1> USE ThreadIds DEF PopNonEmpty, Threads
<1>a. /\ MutexInv /\ StartedInv /\ PopNonEmpty
      /\ gate \in Seq(Tasks) /\ processing \in BOOLEAN
      /\ worker \in [Workers -> WorkerStates]
  BY DEF IInv, TypeOK
<1>1. ASSUME NEW t \in Tasks, Enqueue(t) PROVE PopNonEmpty'
  <2>1. gate' # <<>>
    BY <1>a, <1>1, PushFacts, EmptySeq, LenProperties DEF Enqueue
  <2> QED
    BY <2>1
<1>2. ASSUME NEW w \in Workers, WorkerCheck(w) \/ WorkerWait(w) \/ WorkerDispatch(w) \/ WorkerFinish(w)
      PROVE  PopNonEmpty'
  BY <1>a, <1>2 DEF WorkerCheck, WorkerWait, WorkerDispatch, WorkerFinish
<1>3. ASSUME NEW w \in Workers, WorkerLock(w) PROVE PopNonEmpty'
  BY <1>a, <1>3 DEF WorkerLock
<1>4. ASSUME NEW w \in Workers, WorkerTake(w) PROVE PopNonEmpty'
  \* The mutex was this worker's: no other one is between its test and its pop.
  <2>1. \A v \in Workers : worker'[v] # "take"
    BY <1>a, <1>4 DEF WorkerTake, MutexInv
  <2> QED
    BY <2>1
<1>5. CASE Start
  BY <1>a, <1>5 DEF Start
<1>6. CASE Stop \/ ProcessGateIteratively \/ Destroy
  BY <1>a, <1>6 DEF Stop, ProcessGateIteratively, Destroy, StopCall
<1>7. CASE IterateRun \/ DestroyGate
  BY <1>a, <1>7 DEF IterateRun, DestroyGate, StartedInv
<1>8. CASE StopJoin
  BY <1>a, <1>8 DEF StopJoin
<1>9. CASE \/ StopSignal \/ DrainCall \/ DrainTest \/ DrainWait \/ IterateLock
           \/ IterateFinish \/ IterateUnlock \/ SpuriousWake \/ UNCHANGED vars
  BY <1>a, <1>9 DEF StopSignal, DrainCall, DrainTest, DrainWait, IterateLock,
                    IterateFinish, IterateUnlock, SpuriousWake, vars
<1> QED
  BY <1>1, <1>2, <1>3, <1>4, <1>5, <1>6, <1>7, <1>8, <1>9
     DEF Next, WorkerStep, OwnerCall, OwnerStep, Terminated

-----------------------------------------------------------------------------
\* The inductive invariant holds in every reachable state.
THEOREM Invariance == Spec => []IInv
<1>1. Init => IInv
  BY InitIInv
<1>2. IInv /\ [Next]_vars => IInv'
  BY TypeStep, MutexStep, StartedStep, RetStep, OwnershipStep, PopStep DEF IInv
<1> QED
  BY <1>1, <1>2, PTL DEF Spec

\* The pool's variables keep their types, whatever the interleaving.
THEOREM TypeCorrect == Spec => []TypeOK
<1>1. IInv => TypeOK
  BY DEF IInv
<1> QED
  BY Invariance, <1>1, PTL

\* A task is in the gate once, or with one thread, or nowhere: no task is
\* executed twice or deleted by two threads.
THEOREM Ownership == Spec => []SingleOwnership
<1>1. IInv => SingleOwnership
  BY DEF IInv
<1> QED
  BY Invariance, <1>1, PTL

\* A worker that pops finds a task, and one that executes has a task.
THEOREM NeverNull == Spec => [](PopNonEmpty /\ NoNullExecute)
<1>1. IInv => PopNonEmpty /\ NoNullExecute
  BY DEF IInv, RetInv, NoNullExecute
<1> QED
  BY Invariance, <1>1, PTL

\* Whatever d_processing is when a worker reads it again, and whatever other
\* workers took in between, the worker does not pop an empty gate.
THEOREM NeverPopsEmpty == Spec => []PopNonEmpty
<1>1. IInv => PopNonEmpty
  BY DEF IInv
<1> QED
  BY Invariance, <1>1, PTL

\* What runs after the join of stop() has the gate to itself.
THEOREM Alone == Spec => []SoleExecutor
<1>1. IInv => SoleExecutor
  BY DEF IInv, StartedInv, RetInv, SoleExecutor
<1> QED
  BY Invariance, <1>1, PTL

\* A task is leaked only by a worker that outlives d_processing, and stop() has
\* not returned as long as there is such a worker.
THEOREM LeaksOnlyInStop == Spec => LeakOnlyInStop
<1>1. ASSUME IInv, [Next]_vars
      PROVE  [\A t \in Tasks : task[t] # "leaked" /\ task'[t] = "leaked"
                                 => owner \in {"signal", "join"}]_vars
  <2> SUFFICES ASSUME NEW t \in Tasks, task[t] # "leaked", task'[t] = "leaked"
               PROVE  owner \in {"signal", "join"}
    OBVIOUS
  <2>a. task \in [Tasks -> TaskStates]
    BY <1>1 DEF IInv, TypeOK
  <2>1. ~UNCHANGED task
    OBVIOUS
  <2>2. PICK w \in Workers : WorkerDispatch(w) /\ ~processing
    <3>1. ASSUME NEW u \in Tasks, Enqueue(u) PROVE FALSE
      BY <2>a, <3>1 DEF Enqueue
    <3>2. ASSUME NEW w \in Workers, WorkerTake(w) PROVE FALSE
      <4>1. processing
        BY <2>1, <3>2 DEF WorkerTake
      <4> QED
        BY <2>a, <3>2, <4>1 DEF WorkerTake
    <3>3. ASSUME NEW w \in Workers, WorkerFinish(w) PROVE FALSE
      BY <2>a, <3>3 DEF WorkerFinish
    <3>4. ASSUME NEW w \in Workers, WorkerDispatch(w), processing PROVE FALSE
      BY <2>a, <3>4 DEF WorkerDispatch
    <3>5. CASE IterateRun \/ IterateFinish
      BY <2>a, <3>5 DEF IterateRun, IterateFinish
    <3>6. CASE DestroyGate
      BY <2>a, <3>6 DEF DestroyGate
    <3>7. ASSUME NEW w \in Workers, WorkerCheck(w) \/ WorkerLock(w) \/ WorkerWait(w)
          PROVE  FALSE
      BY <2>1, <3>7 DEF WorkerCheck, WorkerLock, WorkerWait
    <3>8. ASSUME \/ OwnerCall \/ SpuriousWake \/ Terminated \/ UNCHANGED vars
                 \/ StopSignal \/ StopJoin \/ DrainTest \/ DrainWait
                 \/ IterateLock \/ IterateUnlock
          PROVE  FALSE
      BY <2>1, <3>8 DEF OwnerCall, Start, Stop, ProcessGateIteratively, Destroy,
                        StopCall, DrainCall, SpuriousWake, Terminated, vars,
                        StopSignal, StopJoin, DrainTest, DrainWait,
                        IterateLock, IterateUnlock
    <3> QED
      BY <1>1, <3>1, <3>2, <3>3, <3>4, <3>5, <3>6, <3>7, <3>8
         DEF Next, WorkerStep, OwnerStep
  <2>3. worker[w] # "none"
    BY <2>2 DEF WorkerDispatch
  <2> QED
    BY <1>1, <2>2, <2>3 DEF IInv, StartedInv
<1> QED
  BY <1>1, Invariance, PTL DEF Spec, LeakOnlyInStop

-----------------------------------------------------------------------------
(* Wake-ups.                                                               *)

\* Who sleeps, and on what: a worker goes to sleep with the gate empty and wakes
\* drain(), and whoever puts a task in the gate wakes all workers.
AwakeInv ==
  /\ \A w \in hasWork : worker[w] = "lock"
  /\ \A w \in Workers : worker[w] = "wait" => gate = <<>>
  /\ Owner \in queueEmpty => hasWork = {} /\ owner = "drain"
  /\ processing /\ gate # <<>> /\ Workers # {} => \E w \in Workers : w \notin hasWork

\* The guards of WorkerStep(w), and of the steps of drain().
WorkerCanGo(w) ==
  \/ worker[w] \in {"check", "wait", "take", "dispatch", "execute"}
  \/ worker[w] = "lock" /\ w \notin hasWork /\ mutex = Free

DrainCanGo ==
  mutex = Free /\ \/ owner = "drain" /\ Owner \notin queueEmpty
                  \/ owner = "drainWait"

\* While a started pool has a task in its gate some worker can take a step.
WorkIsSeen ==
  processing /\ gate # <<>> /\ Workers # {} => \E w \in Workers : WorkerCanGo(w)

\* While drain() of a started pool has not returned, it can take a step or some
\* worker can.
DrainIsHelped ==
  processing /\ owner \in {"drain", "drainWait"} /\ Workers # {}
    => DrainCanGo \/ \E w \in Workers : WorkerCanGo(w)

LEMMA AwakeInit == Init => AwakeInv
BY DEF Init, AwakeInv

LEMMA AwakeStep == IInv /\ AwakeInv /\ [Next]_vars => AwakeInv'
<1> SUFFICES ASSUME IInv, AwakeInv, [Next]_vars PROVE AwakeInv'
  OBVIOUS
<1> USE ThreadIds DEF AwakeInv
<1>a. /\ AwakeInv /\ MutexInv /\ StartedInv
      /\ gate \in Seq(Tasks) /\ processing \in BOOLEAN
      /\ hasWork \in SUBSET Workers /\ queueEmpty \in SUBSET {Owner}
      /\ worker \in [Workers -> WorkerStates]
  BY DEF IInv, TypeOK
<1>b. (\A w \in Workers : worker[w] # "lock") => hasWork = {}
  BY <1>a
<1>1. ASSUME NEW t \in Tasks, Enqueue(t) PROVE AwakeInv'
  <2>1. \A w \in Workers : worker[w] # "wait"
    BY <1>a, <1>1 DEF Enqueue, MutexInv, Threads
  <2> QED
    BY <1>a, <1>1, <2>1 DEF Enqueue
<1>2. ASSUME NEW w \in Workers, WorkerCheck(w) \/ WorkerLock(w) PROVE AwakeInv'
  BY <1>a, <1>2 DEF WorkerCheck, WorkerLock
<1>3. ASSUME NEW w \in Workers, WorkerWait(w) PROVE AwakeInv'
  BY <1>a, <1>3 DEF WorkerWait
<1>4. ASSUME NEW w \in Workers, WorkerTake(w) PROVE AwakeInv'
  <2>1. /\ worker[w] = "take" /\ mutex = w
        /\ worker' = [worker EXCEPT ![w] = "dispatch"]
        /\ UNCHANGED <<processing, hasWork, queueEmpty, owner>>
    BY <1>a, <1>4 DEF WorkerTake, MutexInv
  <2>2. \A v \in Workers : worker[v] # "wait"
    BY <1>a, <2>1 DEF MutexInv
  <2>3. w \notin hasWork
    BY <1>a, <2>1
  <2> QED
    BY <1>a, <2>1, <2>2, <2>3
<1>5. ASSUME NEW w \in Workers, WorkerDispatch(w) \/ WorkerFinish(w) PROVE AwakeInv'
  BY <1>a, <1>5 DEF WorkerDispatch, WorkerFinish
<1>6. CASE Start
  <2>1. hasWork = {}
    BY <1>a, <1>b, <1>6 DEF Start, StartedInv
  <2> QED
    BY <1>a, <1>6, <2>1 DEF Start
<1>7. CASE Stop \/ ProcessGateIteratively \/ Destroy
  BY <1>a, <1>7 DEF Stop, ProcessGateIteratively, Destroy, StopCall
<1>8. CASE StopSignal
  BY <1>a, <1>8 DEF StopSignal
<1>9. CASE StopJoin
  <2>1. hasWork = {}
    BY <1>a, <1>b, <1>9 DEF StopJoin
  <2> QED
    BY <1>a, <1>9, <2>1 DEF StopJoin
<1>10. CASE DrainCall \/ DrainTest \/ DrainWait
  <2>1. CASE DrainCall \/ DrainTest
    <3>1. Owner \notin queueEmpty /\ UNCHANGED <<gate, processing, hasWork, queueEmpty, worker>>
      BY <1>a, <2>1 DEF DrainCall, DrainTest
    <3> QED
      BY <1>a, <3>1
  <2>2. CASE DrainWait
    <3>1. /\ hasWork' = {} /\ owner' = "drain"
          /\ UNCHANGED <<gate, processing, worker>>
      BY <2>2 DEF DrainWait
    <3> QED
      BY <1>a, <3>1
  <2> QED
    BY <1>10, <2>1, <2>2
<1>11. CASE IterateLock \/ IterateRun \/ IterateFinish \/ IterateUnlock \/ DestroyGate
  <2>1. ~processing /\ processing' = processing
        /\ \A w \in Workers : worker[w] = "none"
    BY <1>a, <1>11 DEF IterateLock, IterateRun, IterateFinish, IterateUnlock,
                       DestroyGate, StartedInv
  <2>2. /\ UNCHANGED <<hasWork, queueEmpty, worker>>
        /\ owner # "drain"
    BY <1>11 DEF IterateLock, IterateRun, IterateFinish, IterateUnlock, DestroyGate
  <2> QED
    BY <1>a, <2>1, <2>2
<1>12. CASE SpuriousWake
  BY <1>a, <1>12 DEF SpuriousWake
<1>13. CASE UNCHANGED vars
  BY <1>a, <1>13 DEF vars
<1> QED
  BY <1>1, <1>2, <1>3, <1>4, <1>5, <1>6, <1>7, <1>8, <1>9, <1>10, <1>11,
     <1>12, <1>13
     DEF Next, WorkerStep, OwnerCall, OwnerStep, Terminated

\* The thread that has the mutex of a started pool is a worker that goes on, and
\* when nobody has it, a worker that does not sleep does.
LEMMA AwakeCanGo ==
  ASSUME IInv, processing,
         mutex # Free \/ \E w \in Workers : w \notin hasWork
  PROVE  \E w \in Workers : WorkerCanGo(w)
<1>1. /\ mutex \in Workers \cup {Owner, Free} /\ owner \notin {"process", "run"}
      /\ worker \in [Workers -> WorkerStates]
      /\ \A w \in Workers : worker[w] \notin {"none", "exited"}
  BY DEF IInv, TypeOK, StartedInv, Threads
<1>2. mutex # Owner
  BY <1>1 DEF IInv, MutexInv
<1>3. CASE mutex \in Workers
  <2>1. worker[mutex] \in {"wait", "take"}
    BY <1>3 DEF IInv, MutexInv
  <2> QED
    BY <1>3, <2>1 DEF WorkerCanGo
<1>4. CASE mutex = Free
  <2>1. PICK w \in Workers : w \notin hasWork
    BY <1>4
  <2>2. WorkerCanGo(w)
    BY <1>1, <1>4, <2>1 DEF WorkerCanGo, WorkerStates
  <2> QED
    BY <2>2
<1> QED
  BY <1>1, <1>2, <1>3, <1>4

LEMMA Awake == Spec => [](IInv /\ AwakeInv)
BY Invariance, AwakeInit, AwakeStep, PTL DEF Spec

\* No wake-up is lost while the pool stays started: however enqueue_task meets
\* workers that are about to sleep, a task in the gate never waits for a
\* broadcast that was made already.
THEOREM NoLostWakeup == Spec => []WorkIsSeen
<1>1. IInv /\ AwakeInv => WorkIsSeen
  BY AwakeCanGo DEF AwakeInv, WorkIsSeen
<1> QED
  BY <1>1, Awake, PTL

\* drain() of a started pool and the workers never wait on one another: when it
\* sleeps no worker does.
THEOREM DrainNeverAlone == Spec => []DrainIsHelped
<1>1. IInv /\ AwakeInv => DrainIsHelped
  <2> SUFFICES ASSUME IInv, AwakeInv, processing, Workers # {}, ~DrainCanGo,
                      owner \in {"drain", "drainWait"}
               PROVE  \E w \in Workers : WorkerCanGo(w)
    BY DEF DrainIsHelped
  <2>1. mutex # Free \/ hasWork = {}
    BY DEF AwakeInv, DrainCanGo
  <2> QED
    BY <2>1, AwakeCanGo
<1> QED
  BY <1>1, Awake, PTL

-----------------------------------------------------------------------------
(* The Cortex implements TaskPool.                                         *)

\* The tasks that threads execute are the running ones.
LEMMA ExecutingFacts ==
  ASSUME IInv
  PROVE  /\ \A w \in Workers : worker[w] = "execute" => ret[w] # NoTask
         /\ \A w \in Workers : worker[w] \notin {"dispatch", "execute"} => ret[w] = NoTask
         /\ \A t \in Pool!Executing : t \in Tasks /\ task[t] \in {"held", "running"}
         /\ NoTask \notin Tasks
<1>1. /\ ret \in [Threads -> Tasks \cup {NoTask}]
      /\ \A h \in Threads : ret[h] # NoTask => task[ret[h]] \in {"held", "running"}
  BY DEF IInv, TypeOK, SingleOwnership
<1>2. \A t \in Pool!Executing : t \in Tasks /\ task[t] \in {"held", "running"}
  <2> SUFFICES ASSUME NEW t \in Pool!Executing
               PROVE  t \in Tasks /\ task[t] \in {"held", "running"}
    OBVIOUS
  <2>1. PICK h \in Threads : t = ret[h] /\ t # NoTask
    BY DEF Pool!Executing
  <2> QED
    BY <1>1, <2>1
<1> QED
  BY <1>2, NoTaskAssumption DEF IInv, RetInv

\* The steps of the abstract pool, one by one.
LEMMA PoolSteps ==
  /\ \A t \in Tasks : Pool!Submit(t) => Pool!Next
  /\ \A h \in Threads, t \in Tasks : Pool!Begin(h, t) => Pool!Next
  /\ \A h \in Threads : Pool!Complete(h) => Pool!Next
  /\ \A S : /\ S \subseteq {t \in Tasks : task[t] \in {"queued", "held"}}
            /\ Pool!GiveUp(S)
            => Pool!Next
BY DEF Pool!Next

\* Initially nothing has been submitted.
LEMMA RefineInit == Init => Pool!Init
BY ThreadIds DEF Init, Pool!Init, Threads

\* Every step is a step of the abstract pool, or changes nothing it sees.
LEMMA RefineStep == IInv /\ [Next]_vars => [Pool!Next]_(Pool!poolVars)
<1> SUFFICES ASSUME IInv, [Next]_vars PROVE [Pool!Next]_(Pool!poolVars)
  OBVIOUS
<1> USE ThreadIds DEF Threads
<1>a. /\ RetInv /\ StartedInv /\ SingleOwnership /\ PopNonEmpty
      /\ gate \in Seq(Tasks) /\ processing \in BOOLEAN
      /\ worker \in [Workers -> WorkerStates]
      /\ ret \in [Threads -> Tasks \cup {NoTask}]
      /\ task \in [Tasks -> TaskStates]
  BY DEF IInv, TypeOK
<1>b. /\ \A w \in Workers : worker[w] = "execute" => ret[w] # NoTask
      /\ \A w \in Workers : worker[w] \notin {"dispatch", "execute"} => ret[w] = NoTask
      /\ \A t \in Pool!Executing : t \in Tasks /\ task[t] \in {"held", "running"}
      /\ NoTask \notin Tasks
  BY ExecutingFacts
<1>1. ASSUME NEW t \in Tasks, Enqueue(t) PROVE Pool!Next
  <2>1. /\ task[t] = "new" /\ task' = [task EXCEPT ![t] = "queued"]
        /\ worker' = worker /\ ret' = ret
    BY <1>1 DEF Enqueue
  <2>2. Pool!Submit(t)
    BY <1>a, <1>b, <2>1 DEF Pool!Submit
  <2> QED
    BY <2>2, PoolSteps
<1>2. ASSUME NEW w \in Workers, WorkerDispatch(w), processing PROVE Pool!Next
  <2>1. /\ ret[w] # NoTask /\ task[ret[w]] = "held" /\ ret[w] \in Tasks
        /\ worker[w] = "dispatch" /\ worker' = [worker EXCEPT ![w] = "execute"]
        /\ task' = [task EXCEPT ![ret[w]] = "running"]
        /\ ret' = ret
    BY <1>a, <1>2 DEF WorkerDispatch, RetInv
  <2>2. PICK t \in Tasks : t = ret[w]
    BY <2>1
  <2>3. Pool!Begin(w, t)
    BY <1>a, <2>1, <2>2 DEF Pool!Begin
  <2> QED
    BY <2>3, PoolSteps
<1>3. ASSUME NEW w \in Workers, WorkerDispatch(w), ~processing, ret[w] # NoTask
      PROVE  Pool!Next
  <2>1. /\ task[ret[w]] = "held" /\ ret[w] \in Tasks
        /\ worker[w] = "dispatch" /\ worker' = [worker EXCEPT ![w] = "check"]
        /\ task' = [t \in Tasks |-> IF t = ret[w] THEN "leaked" ELSE task[t]]
        /\ ret' = [ret EXCEPT ![w] = NoTask]
    BY <1>a, <1>3 DEF WorkerDispatch, RetInv
  <2>2. PICK S : S = {ret[w]}
    OBVIOUS
  <2>3. Pool!GiveUp(S)
    BY <1>a, <2>1, <2>2 DEF Pool!GiveUp
  <2> QED
    BY <2>1, <2>2, <2>3, PoolSteps
<1>4. ASSUME NEW w \in Workers, WorkerFinish(w) PROVE Pool!Next
  <2>1. /\ ret[w] # NoTask /\ task[ret[w]] = "running" /\ ret[w] \in Tasks
        /\ worker[w] = "execute" /\ worker' = [worker EXCEPT ![w] = "check"]
        /\ task' = [task EXCEPT ![ret[w]] = "done"]
        /\ ret' = [ret EXCEPT ![w] = NoTask]
    BY <1>a, <1>4 DEF WorkerFinish, RetInv
  <2>2. Pool!Complete(w)
    BY <1>a, <2>1 DEF Pool!Complete
  <2> QED
    BY <2>2, PoolSteps
<1>5. CASE IterateRun
  <2>1. /\ Head(gate) \in Tasks /\ task[Head(gate)] = "queued"
        /\ ret[Owner] = NoTask /\ ret' = [ret EXCEPT ![Owner] = Head(gate)]
        /\ task' = [task EXCEPT ![Head(gate)] = "running"]
        /\ worker' = worker
    BY <1>a, <1>5, PopFacts DEF IterateRun, RetInv, SingleOwnership
  <2>2. PICK t \in Tasks : t = Head(gate)
    BY <2>1
  <2>3. Pool!Begin(Owner, t)
    BY <1>a, <1>b, <2>1, <2>2 DEF Pool!Begin
  <2> QED
    BY <2>3, PoolSteps
<1>6. CASE IterateFinish
  <2>1. /\ ret[Owner] # NoTask /\ task[ret[Owner]] = "running" /\ ret[Owner] \in Tasks
        /\ task' = [task EXCEPT ![ret[Owner]] = "done"]
        /\ ret' = [ret EXCEPT ![Owner] = NoTask]
        /\ worker' = worker
    BY <1>a, <1>6 DEF IterateFinish, RetInv
  <2>2. Pool!Complete(Owner)
    BY <1>a, <2>1 DEF Pool!Complete
  <2> QED
    BY <2>2, PoolSteps
<1>7. CASE DestroyGate
  <2>0. PICK left : left = {t \in Tasks : \E i \in DOMAIN gate : gate[i] = t}
    OBVIOUS
  <2>1. /\ task' = [t \in Tasks |-> IF t \in left THEN "deleted" ELSE task[t]]
        /\ worker' = worker /\ ret' = ret
    BY <1>7, <2>0 DEF DestroyGate
  <2>2. left \subseteq Tasks /\ \A t \in left : task[t] = "queued"
    BY <1>a, <2>0 DEF SingleOwnership
  <2>3. Pool!GiveUp(left)
    BY <1>a, <2>1, <2>2 DEF Pool!GiveUp
  <2> QED
    BY <2>2, <2>3, PoolSteps
<1>8. ASSUME NEW w \in Workers, WorkerTake(w) PROVE UNCHANGED Pool!poolVars
  <2>1. worker[w] = "take" /\ worker' = [worker EXCEPT ![w] = "dispatch"]
    BY <1>8 DEF WorkerTake
  <2>2. CASE processing
    <3>1. /\ Head(gate) \in Tasks /\ task[Head(gate)] = "queued"
          /\ ret[w] = NoTask /\ ret' = [ret EXCEPT ![w] = Head(gate)]
          /\ task' = [task EXCEPT ![Head(gate)] = "held"]
      BY <1>a, <1>8, <2>2, PopFacts DEF WorkerTake, RetInv, PopNonEmpty, SingleOwnership
    <3> QED
      BY <1>a, <1>b, <2>1, <3>1 DEF Pool!poolVars
  <2>3. CASE ~processing
    BY <1>a, <1>b, <1>8, <2>1, <2>3 DEF WorkerTake, Pool!poolVars
  <2> QED
    BY <2>2, <2>3
<1>9. ASSUME NEW w \in Workers,
             \/ WorkerCheck(w) \/ WorkerLock(w) \/ WorkerWait(w)
             \/ WorkerDispatch(w) /\ ~processing /\ ret[w] = NoTask
      PROVE  UNCHANGED Pool!poolVars
  <2>1. /\ worker[w] # "execute" /\ ret' = ret /\ task' = task
        /\ \E p \in WorkerStates \ {"execute"} : worker' = [worker EXCEPT ![w] = p]
    <3>1. CASE WorkerCheck(w) \/ WorkerLock(w) \/ WorkerWait(w)
      BY <3>1 DEF WorkerCheck, WorkerLock, WorkerWait, WorkerStates
    <3>2. CASE WorkerDispatch(w) /\ ~processing /\ ret[w] = NoTask
      BY <1>a, <1>b, <3>2 DEF WorkerDispatch, WorkerStates
    <3> QED
      BY <1>9, <3>1, <3>2
  <2> QED
    BY <1>a, <2>1 DEF Pool!poolVars
<1>10. CASE Start \/ StopJoin
  <2>1. /\ ret' = ret /\ task' = task
        /\ \A w \in Workers : worker[w] # "execute" /\ worker'[w] # "execute"
    BY <1>a, <1>10 DEF Start, StopJoin, StartedInv
  <2> QED
    BY <1>a, <2>1 DEF Pool!poolVars
<1>11. CASE \/ Stop \/ ProcessGateIteratively \/ Destroy \/ StopSignal
            \/ DrainCall \/ DrainTest \/ DrainWait \/ IterateLock
            \/ IterateUnlock \/ SpuriousWake \/ UNCHANGED vars
  <2>1. UNCHANGED <<worker, ret, task>>
    BY <1>11 DEF Stop, ProcessGateIteratively, Destroy, StopCall, StopSignal,
                 DrainCall, DrainTest, DrainWait, IterateLock, IterateUnlock,
                 SpuriousWake, vars
  <2> QED
    BY <2>1 DEF Pool!poolVars
<1> QED
  BY <1>1, <1>2, <1>3, <1>4, <1>5, <1>6, <1>7, <1>8, <1>9, <1>10, <1>11
     DEF Next, WorkerStep, OwnerCall, OwnerStep, Terminated

\* Whatever clients, workers and owner do, a task is executed at most once and
\* never after it was given up.
THEOREM Refinement == Spec => PoolSpec
<1>1. Init => Pool!Init
  BY RefineInit
<1>2. IInv /\ [Next]_vars => [Pool!Next]_(Pool!poolVars)
  BY RefineStep
<1> QED
  BY <1>1, <1>2, Invariance, PTL DEF Spec, PoolSpec, Pool!Spec
=============================================================================
