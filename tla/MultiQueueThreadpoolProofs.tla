--------------------- MODULE MultiQueueThreadpoolProofs ---------------------
(***************************************************************************)
(* Proofs about MultiQueueThreadpool, for every number of threads, clients *)
(* and tasks.                                                              *)
(***************************************************************************)
EXTENDS MultiQueueThreadpool, SequenceTheorems, TLAPS

\* There is a queue, and the loops over the queues stay within them.
LEMMA QueueIds ==
  /\ PoolSize \in Nat \ {0}
  /\ Queues = 1 .. PoolSize
  /\ Queues \subseteq Nat
  /\ 1 \in Queues
  /\ INT_MAX \in Nat
  /\ \A q \in Queues : q # PoolSize => q + 1 \in Queues
BY NumThreadsAssumption DEF Queues, PoolSize, INT_MAX

\* Popping a queue: the front leaves, and what is left keeps its order.
LEMMA PopFacts ==
  ASSUME NEW S, NEW s \in Seq(S), s # <<>>
  PROVE  /\ Head(s) = s[1] /\ Head(s) \in S /\ 1 \in 1 .. Len(s)
         /\ Tail(s) \in Seq(S)
         /\ Len(Tail(s)) = Len(s) - 1 /\ Len(s) \in Nat \ {0}
         /\ \A i \in 1 .. Len(Tail(s)) :
              Tail(s)[i] = s[i + 1] /\ i + 1 \in 1 .. Len(s) /\ i + 1 # 1
OBVIOUS

\* Pushing on a queue: the new element comes last, the others stay in place.
LEMMA PushFacts ==
  ASSUME NEW S, NEW s \in Seq(S), NEW e \in S
  PROVE  /\ Append(s, e) \in Seq(S) /\ Append(s, e) # <<>>
         /\ Len(Append(s, e)) = Len(s) + 1 /\ Len(s) \in Nat
         /\ Append(s, e)[Len(s) + 1] = e
         /\ \A i \in 1 .. Len(s) : Append(s, e)[i] = s[i]
         /\ \A i \in 1 .. Len(Append(s, e)) : i \in 1 .. Len(s) \/ i = Len(s) + 1
<1>1. /\ Append(s, e) \in Seq(S) /\ Len(s) \in Nat
      /\ Len(Append(s, e)) = Len(s) + 1
      /\ Append(s, e)[Len(s) + 1] = e
      /\ \A i \in 1 .. Len(s) : Append(s, e)[i] = s[i]
  OBVIOUS
<1>2. Append(s, e) # <<>>
  BY <1>1, EmptySeq
<1>3. \A i \in 1 .. Len(Append(s, e)) : i \in 1 .. Len(s) \/ i = Len(s) + 1
  BY <1>1
<1> QED
  BY <1>1, <1>2, <1>3

\* Of two threads, tasks or queues, one step of a worker touches one.
LEMMA WorkerFrame ==
  ASSUME NEW q \in Queues, WorkerStep(q)
  PROVE  /\ UNCHANGED <<processing, running, enqueue, owner, at, resume>>
         /\ \E s \in WorkerStates \ {"none"} : worker' = [worker EXCEPT ![q] = s]
         /\ worker[q] \notin {"none", "ended", "returned"}
BY DEF WorkerStep, WorkerCheck, WorkerTry, WorkerPost, WorkerWait, WorkerWoken,
       WorkerTryEmpty, WorkerTest, WorkerPop, WorkerFinish, Goto, WorkerStates

-----------------------------------------------------------------------------
\* Every step preserves the type invariant.
LEMMA TypeStep == IInv /\ [Next]_vars => TypeOK'
<1> SUFFICES ASSUME IInv, [Next]_vars PROVE TypeOK'
  OBVIOUS
<1> USE QueueIds DEF TypeOK
<1>a. TypeOK
  BY DEF IInv
<1>1. ASSUME NEW c \in Clients, NEW t \in Tasks, EnqueueCall(c, t) PROVE TypeOK'
  <2>0. enqueue[c] \in Locals
    BY <1>a
  <2>1. [enqueue[c] EXCEPT !.task = t] \in Locals
    BY <2>0 DEF Locals
  <2>2. enqueue' \in [Clients -> Locals]
    BY <1>a, <1>1, <2>1 DEF EnqueueCall
  <2>3. task' \in [Tasks -> TaskStates]
    BY <1>a, <1>1 DEF EnqueueCall, TaskStates
  <2> QED
    BY <1>a, <1>1, <2>2, <2>3 DEF EnqueueCall
<1>2. ASSUME NEW c \in Clients, EnqueueScan(c) PROVE TypeOK'
  <2> DEFINE e == enqueue[c]
  <2>1. /\ e \in Locals
        /\ e.i \in Queues /\ e.i + 1 \in 1 .. PoolSize + 1
        /\ Len(queue[e.i]) \in Nat
    BY <1>a, <1>2, LenProperties DEF EnqueueScan, Locals
  <2>2. enqueue' \in [Clients -> Locals]
    <3>1. CASE Len(queue[e.i]) < e.lowestAmt
      <4>1. enqueue' = [enqueue EXCEPT ![c] =
              [e EXCEPT !.i = e.i + 1, !.lowestIdx = e.i, !.lowestAmt = Len(queue[e.i])]]
        BY <1>2, <3>1 DEF EnqueueScan
      <4> QED
        BY <1>a, <2>1, <4>1 DEF Locals
    <3>2. CASE ~(Len(queue[e.i]) < e.lowestAmt)
      <4>1. enqueue' = [enqueue EXCEPT ![c] = [e EXCEPT !.i = e.i + 1]]
        BY <1>2, <3>2 DEF EnqueueScan
      <4> QED
        BY <1>a, <2>1, <4>1 DEF Locals
    <3> QED
      BY <3>1, <3>2
  <2> QED
    BY <1>a, <1>2, <2>2 DEF EnqueueScan
<1>3. ASSUME NEW c \in Clients, EnqueuePush(c) PROVE TypeOK'
  <2> DEFINE e == enqueue[c]
  <2>1. e.task \in Tasks /\ e.lowestIdx \in Queues
    BY <1>a, <1>3 DEF EnqueuePush, Locals
  <2>2. queue' \in [Queues -> Seq(Tasks)]
    BY <1>a, <1>3, <2>1, PushFacts DEF EnqueuePush
  <2>3. enqueue' \in [Clients -> Locals]
    BY <1>a, <1>3 DEF EnqueuePush, Outside, Locals
  <2>4. taskSem' \in [Queues -> Nat]
    BY <1>a, <1>3, <2>1 DEF EnqueuePush
  <2>5. task' \in [Tasks -> TaskStates]
    BY <1>a, <1>3, <2>1 DEF EnqueuePush, TaskStates
  <2> QED
    BY <1>a, <1>3, <2>2, <2>3, <2>4, <2>5 DEF EnqueuePush
<1>4. ASSUME NEW q \in Queues, WorkerStep(q) PROVE TypeOK'
  <2>0. worker' \in [Queues -> WorkerStates]
    BY <1>a, <1>4, WorkerFrame
  <2>1. CASE WorkerCheck(q) \/ WorkerWoken(q) \/ WorkerTest(q)
    BY <1>a, <2>0, <2>1 DEF WorkerCheck, WorkerWoken, WorkerTest
  <2>2. CASE WorkerTry(q) \/ WorkerWait(q)
    <3>1. taskSem[q] \in Nat /\ (taskSem[q] > 0 => taskSem[q] - 1 \in Nat)
      BY <1>a
    <3>2. taskSem' \in [Queues -> Nat]
      <4>1. taskSem' = taskSem \/ \E n \in Nat : taskSem' = [taskSem EXCEPT ![q] = n]
        BY <2>2, <3>1 DEF WorkerTry, WorkerWait
      <4> QED
        BY <1>a, <4>1
    <3> QED
      BY <1>a, <2>0, <2>2, <3>2 DEF WorkerTry, WorkerWait
  <2>3. CASE WorkerPost(q) \/ WorkerTryEmpty(q)
    <3>1. emptySem[q] \in Nat /\ (emptySem[q] > 0 => emptySem[q] - 1 \in Nat)
      BY <1>a
    <3>2. emptySem' \in [Queues -> Nat]
      <4>1. PICK n \in Nat : emptySem' = [emptySem EXCEPT ![q] = n]
        BY <2>3, <3>1 DEF WorkerPost, WorkerTryEmpty
      <4> QED
        BY <1>a, <4>1
    <3> QED
      BY <1>a, <2>0, <2>3, <3>2 DEF WorkerPost, WorkerTryEmpty
  <2>4. CASE WorkerPop(q)
    <3>1. queue[q] # <<>> /\ queue[q] \in Seq(Tasks)
      BY <1>a, <2>4 DEF WorkerPop, IInv, PopNonEmpty
    <3>2. Head(queue[q]) \in Tasks /\ Tail(queue[q]) \in Seq(Tasks)
      BY <3>1, PopFacts
    <3>3. task' \in [Tasks -> TaskStates]
      BY <1>a, <2>4 DEF WorkerPop, TaskStates
    <3> QED
      BY <1>a, <2>0, <2>4, <3>2, <3>3 DEF WorkerPop
  <2>5. CASE WorkerFinish(q)
    <3>1. task' \in [Tasks -> TaskStates]
      BY <1>a, <2>5 DEF WorkerFinish, TaskStates
    <3> QED
      BY <1>a, <2>0, <2>5, <3>1 DEF WorkerFinish
  <2> QED
    BY <1>4, <2>1, <2>2, <2>3, <2>4, <2>5 DEF WorkerStep
<1>5. CASE Start
  BY <1>a, <1>5 DEF Start, WorkerStates
<1>6. CASE Stop \/ Destroy \/ DrainCall
  BY <1>a, <1>6 DEF Stop, Destroy, StopCall, DrainCall, OwnerStates
<1>7. CASE StopFlag \/ StopJoin
  BY <1>a, <1>7 DEF StopFlag, StopJoin, OwnerStates
<1>8. CASE StopPost
  <2>1. taskSem' \in [Queues -> Nat] /\ at' \in Queues
    BY <1>a, <1>8 DEF StopPost
  <2> QED
    BY <1>a, <1>8, <2>1 DEF StopPost, OwnerStates
<1>9. CASE DrainWait
  <2>1. emptySem' \in [Queues -> Nat]
    BY <1>a, <1>9 DEF DrainWait
  <2> QED
    BY <1>a, <1>9, <2>1 DEF DrainWait, OwnerStates
<1>10. CASE DrainTest
  <2>1. at' \in Queues
    BY <1>a, <1>10 DEF DrainTest
  <2> QED
    BY <1>a, <1>10, <2>1 DEF DrainTest, OwnerStates
<1>11. CASE DestroyTask
  <2>1. Tail(queue[at]) \in Seq(Tasks)
    BY <1>a, <1>11, PopFacts DEF DestroyTask
  <2>2. queue' \in [Queues -> Seq(Tasks)]
    BY <1>a, <1>11, <2>1 DEF DestroyTask
  <2>3. taskSem' \in [Queues -> Nat]
    BY <1>a, <1>11 DEF DestroyTask
  <2>4. task' \in [Tasks -> TaskStates]
    BY <1>a, <1>11 DEF DestroyTask, TaskStates
  <2> QED
    BY <1>a, <1>11, <2>2, <2>3, <2>4 DEF DestroyTask
<1>12. CASE DestroyQueue
  <2>1. at' \in Queues
    BY <1>a, <1>12 DEF DestroyQueue
  <2> QED
    BY <1>a, <1>12, <2>1 DEF DestroyQueue, OwnerStates
<1>13. CASE UNCHANGED vars
  BY <1>a, <1>13 DEF vars
<1> QED
  BY <1>1, <1>2, <1>3, <1>4, <1>5, <1>6, <1>7, <1>8, <1>9, <1>10, <1>11,
     <1>12, <1>13
     DEF Next, EnqueueStep, OwnerCall, OwnerStep, Terminated

\* Every step preserves the order in which flags are cleared, tokens posted and
\* workers joined.
LEMMA StopStep == IInv /\ [Next]_vars => StopInv'
<1> SUFFICES ASSUME IInv, [Next]_vars PROVE StopInv'
  OBVIOUS
<1> USE QueueIds DEF StopInv, Posted, Cleared, Ended
<1>a. /\ StopInv /\ processing \in BOOLEAN /\ owner \in OwnerStates /\ at \in Queues
      /\ resume \in {"idle", "destroy"}
      /\ running \in [Queues -> BOOLEAN] /\ worker \in [Queues -> WorkerStates]
  BY DEF IInv, TypeOK
<1>1. ASSUME NEW q \in Queues, WorkerStep(q) PROVE StopInv'
  <2>1. /\ UNCHANGED <<processing, running, enqueue, owner, at, resume>>
        /\ worker[q] \notin {"none", "ended", "returned"}
    BY <1>1, WorkerFrame
  <2>2. \E s \in WorkerStates \ {"none"} :
          /\ worker' = [worker EXCEPT ![q] = s]
          /\ s \in {"ended", "returned"} => ~running[q]
    BY <1>1 DEF WorkerStep, WorkerCheck, WorkerTry, WorkerPost, WorkerWait,
                WorkerWoken, WorkerTryEmpty, WorkerTest, WorkerPop,
                WorkerFinish, Goto, WorkerStates
  <2> QED
    BY <1>a, <2>1, <2>2
<1>2. CASE Start
  BY <1>a, <1>2 DEF Start
<1>3. CASE Stop \/ Destroy
  BY <1>a, <1>3 DEF Stop, Destroy, StopCall
<1>4. CASE StopFlag
  BY <1>a, <1>4 DEF StopFlag
<1>5. CASE StopPost
  BY <1>a, <1>5 DEF StopPost
<1>6. CASE StopJoin
  BY <1>a, <1>6 DEF StopJoin
<1>7. CASE DrainCall \/ DrainWait
  BY <1>a, <1>7 DEF DrainCall, DrainWait
<1>8. CASE DrainTest
  BY <1>a, <1>8 DEF DrainTest
<1>9. CASE DestroyTask \/ DestroyQueue
  BY <1>a, <1>9 DEF DestroyTask, DestroyQueue
<1>10. CASE UNCHANGED <<processing, running, worker, owner, at>>
  BY <1>a, <1>10
<1>11. ASSUME NEW c \in Clients, EnqueueStep(c) \/ \E t \in Tasks : EnqueueCall(c, t)
       PROVE  StopInv'
  BY <1>10, <1>11 DEF EnqueueStep, EnqueueScan, EnqueuePush, EnqueueCall
<1> QED
  BY <1>1, <1>2, <1>3, <1>4, <1>5, <1>6, <1>7, <1>8, <1>9, <1>10, <1>11
     DEF Next, OwnerCall, OwnerStep, Terminated, vars

\* The balance of one queue after a step, from what the step does to it.
LEMMA BalanceArithmetic ==
  ASSUME IInv, NEW q \in Queues,
         \/ /\ taskSem'[q] = taskSem[q] /\ Len(queue'[q]) = Len(queue[q])
            /\ (HoldsToken(q)' <=> HoldsToken(q)) /\ (Posted(q)' <=> Posted(q))
         \/ /\ taskSem'[q] = taskSem[q] + 1 /\ Len(queue'[q]) = Len(queue[q]) + 1
            /\ (HoldsToken(q)' <=> HoldsToken(q)) /\ (Posted(q)' <=> Posted(q))
         \/ /\ taskSem'[q] = taskSem[q] - 1 /\ Len(queue'[q]) = Len(queue[q]) - 1
            /\ (HoldsToken(q)' <=> HoldsToken(q)) /\ (Posted(q)' <=> Posted(q))
         \/ /\ taskSem'[q] = taskSem[q] - 1 /\ Len(queue'[q]) = Len(queue[q])
            /\ ~HoldsToken(q) /\ HoldsToken(q)' /\ (Posted(q)' <=> Posted(q))
         \/ /\ taskSem'[q] = taskSem[q] /\ Len(queue'[q]) = Len(queue[q]) - 1
            /\ HoldsToken(q) /\ ~HoldsToken(q)' /\ (Posted(q)' <=> Posted(q))
         \/ /\ taskSem'[q] = taskSem[q] + 1 /\ Len(queue'[q]) = Len(queue[q])
            /\ (HoldsToken(q)' <=> HoldsToken(q)) /\ ~Posted(q) /\ Posted(q)'
  PROVE  taskSem'[q] + Count(HoldsToken(q)') = Len(queue'[q]) + Count(Posted(q)')
<1>1. /\ taskSem[q] + Count(HoldsToken(q)) = Len(queue[q]) + Count(Posted(q))
      /\ taskSem[q] \in Nat /\ Len(queue[q]) \in Nat
  <2>1. queue[q] \in Seq(Tasks) /\ taskSem[q] \in Nat
    BY DEF IInv, TypeOK
  <2> QED
    BY <2>1, LenProperties DEF IInv, TokenBalance
<1>2. PICK h, g, p, f :
        /\ h = Count(HoldsToken(q)) /\ h = IF HoldsToken(q) THEN 1 ELSE 0
        /\ g = Count(HoldsToken(q)') /\ g = IF HoldsToken(q)' THEN 1 ELSE 0
        /\ p = Count(Posted(q)) /\ p = IF Posted(q) THEN 1 ELSE 0
        /\ f = Count(Posted(q)') /\ f = IF Posted(q)' THEN 1 ELSE 0
  BY DEF Count
<1>3. \/ /\ taskSem'[q] = taskSem[q] /\ Len(queue'[q]) = Len(queue[q])
         /\ g = h /\ f = p
      \/ /\ taskSem'[q] = taskSem[q] + 1 /\ Len(queue'[q]) = Len(queue[q]) + 1
         /\ g = h /\ f = p
      \/ /\ taskSem'[q] = taskSem[q] - 1 /\ Len(queue'[q]) = Len(queue[q]) - 1
         /\ g = h /\ f = p
      \/ /\ taskSem'[q] = taskSem[q] - 1 /\ Len(queue'[q]) = Len(queue[q])
         /\ h = 0 /\ g = 1 /\ f = p
      \/ /\ taskSem'[q] = taskSem[q] /\ Len(queue'[q]) = Len(queue[q]) - 1
         /\ h = 1 /\ g = 0 /\ f = p
      \/ /\ taskSem'[q] = taskSem[q] + 1 /\ Len(queue'[q]) = Len(queue[q])
         /\ g = h /\ p = 0 /\ f = 1
  BY <1>2
<1>4. h \in {0, 1} /\ p \in {0, 1} /\ taskSem[q] + h = Len(queue[q]) + p
  BY <1>1, <1>2
<1>5. PICK a \in Nat, l \in Nat : a = taskSem[q] /\ l = Len(queue[q])
  BY <1>1
<1>6. PICK b, m : b = taskSem'[q] /\ m = Len(queue'[q])
  OBVIOUS
<1>7. \/ b = a /\ m = l /\ g = h /\ f = p
      \/ b = a + 1 /\ m = l + 1 /\ g = h /\ f = p
      \/ b = a - 1 /\ m = l - 1 /\ g = h /\ f = p
      \/ b = a - 1 /\ m = l /\ h = 0 /\ g = 1 /\ f = p
      \/ b = a /\ m = l - 1 /\ h = 1 /\ g = 0 /\ f = p
      \/ b = a + 1 /\ m = l /\ g = h /\ p = 0 /\ f = 1
  BY <1>3, <1>5, <1>6
<1>8. a + h = l + p
  BY <1>4, <1>5
<1>9. b + g = m + f
  BY <1>4, <1>7, <1>8
<1> QED
  BY <1>2, <1>6, <1>9

\* Every step keeps the tokens of a queue in balance with its tasks.
LEMMA BalanceStep == IInv /\ [Next]_vars => TokenBalance'
<1> SUFFICES ASSUME IInv, [Next]_vars, NEW q \in Queues
             PROVE  taskSem'[q] + Count(HoldsToken(q)') = Len(queue'[q]) + Count(Posted(q)')
  BY DEF TokenBalance
<1> USE QueueIds
<1>a. /\ StopInv /\ PopNonEmpty
      /\ processing \in BOOLEAN /\ owner \in OwnerStates /\ at \in Queues
      /\ worker \in [Queues -> WorkerStates]
      /\ taskSem \in [Queues -> Nat] /\ queue \in [Queues -> Seq(Tasks)]
  BY DEF IInv, TypeOK
<1>b. UNCHANGED <<taskSem, queue, worker, processing, owner, at>>
        => taskSem'[q] + Count(HoldsToken(q)') = Len(queue'[q]) + Count(Posted(q)')
  BY BalanceArithmetic DEF HoldsToken, Posted
<1>1. ASSUME NEW c \in Clients, EnqueueScan(c) \/ \E t \in Tasks : EnqueueCall(c, t)
      PROVE  UNCHANGED <<taskSem, queue, worker, processing, owner, at>>
  BY <1>1 DEF EnqueueCall, EnqueueScan
<1>2. ASSUME NEW c \in Clients, EnqueuePush(c)
      PROVE  taskSem'[q] + Count(HoldsToken(q)') = Len(queue'[q]) + Count(Posted(q)')
  <2> DEFINE l == enqueue[c].lowestIdx
  <2>1. l \in Queues /\ enqueue[c].task \in Tasks
    BY <1>2 DEF EnqueuePush, IInv, TypeOK, Locals
  <2>2. /\ UNCHANGED <<processing, worker, owner, at>>
        /\ queue' = [queue EXCEPT ![l] = Append(queue[l], enqueue[c].task)]
        /\ taskSem' = [taskSem EXCEPT ![l] = taskSem[l] + 1]
    BY <1>2 DEF EnqueuePush
  <2>3. (HoldsToken(q)' <=> HoldsToken(q)) /\ (Posted(q)' <=> Posted(q))
    BY <2>2 DEF HoldsToken, Posted
  <2>4. CASE q = l
    <3>1. Len(queue'[q]) = Len(queue[q]) + 1 /\ taskSem'[q] = taskSem[q] + 1
      BY <1>a, <2>1, <2>2, <2>4, PushFacts
    <3> QED
      BY <2>3, <3>1, BalanceArithmetic
  <2>5. CASE q # l
    <3>1. queue'[q] = queue[q] /\ taskSem'[q] = taskSem[q]
      BY <1>a, <2>2, <2>5
    <3> QED
      BY <2>3, <3>1, BalanceArithmetic
  <2> QED
    BY <2>4, <2>5
<1>3. ASSUME NEW r \in Queues, WorkerStep(r)
      PROVE  taskSem'[q] + Count(HoldsToken(q)') = Len(queue'[q]) + Count(Posted(q)')
  <2>1. (Posted(q)' <=> Posted(q))
    BY <1>a, <1>3, WorkerFrame DEF Posted
  <2>2. CASE q # r
    <3>1. worker'[q] = worker[q]
      BY <1>a, <1>3, <2>2, WorkerFrame
    <3>2. queue'[q] = queue[q] /\ taskSem'[q] = taskSem[q]
      BY <1>a, <1>3, <2>2 DEF WorkerStep, WorkerCheck, WorkerTry, WorkerPost,
         WorkerWait, WorkerWoken, WorkerTryEmpty, WorkerTest, WorkerPop, WorkerFinish
    <3> QED
      BY <2>1, <3>1, <3>2, BalanceArithmetic DEF HoldsToken
  <2>3. CASE q = r
    <3> USE DEF HoldsToken, Goto
    <3>1. CASE WorkerCheck(q) \/ WorkerWoken(q) \/ WorkerTest(q) \/ WorkerPost(q)
               \/ WorkerTryEmpty(q) \/ WorkerFinish(q)
      <4>1. /\ queue'[q] = queue[q] /\ taskSem'[q] = taskSem[q]
            /\ (HoldsToken(q)' <=> HoldsToken(q))
        BY <1>a, <3>1 DEF WorkerCheck, WorkerWoken, WorkerTest, WorkerPost,
                          WorkerTryEmpty, WorkerFinish
      <4> QED
        BY <2>1, <4>1, BalanceArithmetic
    <3>2. CASE (WorkerTry(q) /\ taskSem[q] > 0) \/ WorkerWait(q)
      <4>1. /\ queue'[q] = queue[q] /\ taskSem'[q] = taskSem[q] - 1
            /\ ~HoldsToken(q) /\ HoldsToken(q)'
        BY <1>a, <3>2 DEF WorkerTry, WorkerWait
      <4> QED
        BY <2>1, <4>1, BalanceArithmetic
    <3>3. CASE WorkerTry(q) /\ ~(taskSem[q] > 0)
      <4>1. /\ queue'[q] = queue[q] /\ taskSem'[q] = taskSem[q]
            /\ (HoldsToken(q)' <=> HoldsToken(q))
        BY <1>a, <3>3 DEF WorkerTry
      <4> QED
        BY <2>1, <4>1, BalanceArithmetic
    <3>4. CASE WorkerPop(q)
      <4>1. /\ Len(queue'[q]) = Len(queue[q]) - 1 /\ taskSem'[q] = taskSem[q]
            /\ HoldsToken(q) /\ ~HoldsToken(q)'
        BY <1>a, <3>4, PopFacts DEF WorkerPop, PopNonEmpty
      <4> QED
        BY <2>1, <4>1, BalanceArithmetic
    <3> QED
      BY <1>3, <2>3, <3>1, <3>2, <3>3, <3>4 DEF WorkerStep
  <2> QED
    BY <2>2, <2>3
<1>4. CASE Start
  <2>1. /\ taskSem' = taskSem /\ queue' = queue
        /\ (HoldsToken(q)' <=> HoldsToken(q)) /\ (Posted(q)' <=> Posted(q))
    BY <1>a, <1>4 DEF Start, HoldsToken, Posted
  <2> QED
    BY <2>1, BalanceArithmetic
<1>5. CASE Stop \/ Destroy
  <2>1. taskSem' = taskSem /\ queue' = queue /\ worker' = worker
    BY <1>5 DEF Stop, Destroy, StopCall
  <2>2. (Posted(q)' <=> Posted(q))
    BY <1>a, <1>5 DEF Stop, Destroy, StopCall, StopInv, Posted
  <2> QED
    BY <2>1, <2>2, BalanceArithmetic DEF HoldsToken
<1>6. CASE StopFlag \/ StopJoin
  <2>1. /\ taskSem' = taskSem /\ queue' = queue /\ worker' = worker
        /\ (Posted(q)' <=> Posted(q))
    BY <1>a, <1>6 DEF StopFlag, StopJoin, Posted, IInv, TypeOK
  <2> QED
    BY <2>1, BalanceArithmetic DEF HoldsToken
<1>7. CASE StopPost
  <2>1. ~processing /\ worker[q] # "none" /\ queue' = queue /\ worker' = worker
    BY <1>a, <1>7 DEF StopPost, StopInv
  <2>2. CASE q = at
    <3>1. taskSem'[q] = taskSem[q] + 1 /\ ~Posted(q) /\ Posted(q)'
      BY <1>a, <1>7, <2>1, <2>2 DEF StopPost, Posted
    <3> QED
      BY <2>1, <3>1, BalanceArithmetic DEF HoldsToken
  <2>3. CASE q # at
    <3>1. taskSem'[q] = taskSem[q]
      BY <1>a, <1>7, <2>3 DEF StopPost
    <3>2. (Posted(q)' <=> Posted(q))
      BY <1>a, <1>7, <2>1, <2>3 DEF StopPost, Posted
    <3> QED
      BY <2>1, <3>1, <3>2, BalanceArithmetic DEF HoldsToken
  <2> QED
    BY <2>2, <2>3
<1>8. CASE DrainCall \/ DrainWait \/ DrainTest \/ DestroyQueue
  <2>1. /\ taskSem' = taskSem /\ queue' = queue /\ worker' = worker
        /\ processing' = processing
        /\ owner \notin {"flag", "post"} /\ owner' \notin {"flag", "post"}
    BY <1>8 DEF DrainCall, DrainWait, DrainTest, DestroyQueue
  <2>2. Posted(q)' <=> Posted(q)
    BY <2>1 DEF Posted
  <2> QED
    BY <2>1, <2>2, BalanceArithmetic DEF HoldsToken
<1>9. CASE DestroyTask
  <2>1. /\ UNCHANGED <<processing, worker, owner, at>>
        /\ queue' = [queue EXCEPT ![at] = Tail(queue[at])]
        /\ taskSem' = [taskSem EXCEPT ![at] = taskSem[at] - 1]
        /\ queue[at] # <<>>
    BY <1>9 DEF DestroyTask
  <2>2. (HoldsToken(q)' <=> HoldsToken(q)) /\ (Posted(q)' <=> Posted(q))
    BY <2>1 DEF HoldsToken, Posted
  <2>3. CASE q = at
    <3>1. Len(queue'[q]) = Len(queue[q]) - 1 /\ taskSem'[q] = taskSem[q] - 1
      BY <1>a, <2>1, <2>3, PopFacts
    <3> QED
      BY <2>2, <3>1, BalanceArithmetic
  <2>4. CASE q # at
    <3>1. queue'[q] = queue[q] /\ taskSem'[q] = taskSem[q]
      BY <1>a, <2>1, <2>4
    <3> QED
      BY <2>2, <3>1, BalanceArithmetic
  <2> QED
    BY <2>3, <2>4
<1>10. UNCHANGED vars => UNCHANGED <<taskSem, queue, worker, processing, owner, at>>
  BY DEF vars
<1> QED
  BY <1>b, <1>1, <1>2, <1>3, <1>4, <1>5, <1>6, <1>7, <1>8, <1>9, <1>10
     DEF Next, EnqueueStep, OwnerCall, OwnerStep, Terminated

\* Every step keeps a task in the queue of a worker that is about to pop.
LEMMA PopStep == IInv /\ [Next]_vars => PopNonEmpty'
<1> SUFFICES ASSUME IInv, [Next]_vars PROVE PopNonEmpty'
  OBVIOUS
<1> USE QueueIds DEF PopNonEmpty
<1>a. /\ TokenBalance /\ StopInv /\ PopNonEmpty /\ at \in Queues
      /\ owner \in OwnerStates /\ processing \in BOOLEAN
      /\ worker \in [Queues -> WorkerStates]
      /\ taskSem \in [Queues -> Nat] /\ queue \in [Queues -> Seq(Tasks)]
  BY DEF IInv, TypeOK
<1>1. ASSUME NEW c \in Clients, EnqueueScan(c) \/ \E t \in Tasks : EnqueueCall(c, t)
      PROVE  PopNonEmpty'
  BY <1>a, <1>1 DEF EnqueueCall, EnqueueScan
<1>2. ASSUME NEW c \in Clients, EnqueuePush(c) PROVE PopNonEmpty'
  <2> DEFINE l == enqueue[c].lowestIdx
  <2>1. l \in Queues /\ enqueue[c].task \in Tasks
    BY <1>2 DEF EnqueuePush, IInv, TypeOK, Locals
  <2>2. Append(queue[l], enqueue[c].task) # <<>>
    <3>1. queue[l] \in Seq(Tasks)
      BY <1>a, <2>1
    <3> QED
      BY <2>1, <3>1, PushFacts
  <2> QED
    BY <1>a, <1>2, <2>1, <2>2 DEF EnqueuePush
<1>3. ASSUME NEW q \in Queues, WorkerStep(q) PROVE PopNonEmpty'
  <2>1. CASE WorkerTest(q)
    <3>1. CASE running[q]
      \* Its flag is still set, so stop() has posted nothing: the token the
      \* worker holds is that of a task.
      <4>1. ~Posted(q)
        BY <1>a, <3>1 DEF StopInv, Cleared
      <4>2. taskSem[q] + 1 = Len(queue[q])
        BY <1>a, <2>1, <4>1, LenProperties DEF WorkerTest, TokenBalance, HoldsToken, Count
      <4>3. queue[q] # <<>>
        BY <1>a, <4>2, EmptySeq
      <4> QED
        BY <1>a, <2>1, <3>1, <4>3 DEF WorkerTest, Goto
    <3>2. CASE ~running[q]
      BY <1>a, <2>1, <3>2 DEF WorkerTest, Goto
    <3> QED
      BY <3>1, <3>2
  <2>2. CASE WorkerPop(q)
    BY <1>a, <2>2 DEF WorkerPop, Goto
  <2>3. CASE WorkerCheck(q) \/ WorkerTry(q) \/ WorkerPost(q) \/ WorkerWait(q)
    BY <1>a, <2>3 DEF WorkerCheck, WorkerTry, WorkerPost, WorkerWait, Goto
  <2>4. CASE WorkerWoken(q) \/ WorkerTryEmpty(q) \/ WorkerFinish(q)
    BY <1>a, <2>4 DEF WorkerWoken, WorkerTryEmpty, WorkerFinish, Goto
  <2> QED
    BY <1>3, <2>1, <2>2, <2>3, <2>4 DEF WorkerStep
<1>4. CASE Start
  BY <1>a, <1>4 DEF Start
<1>5. CASE \/ Stop \/ Destroy \/ StopFlag \/ StopPost \/ StopJoin \/ DrainCall
           \/ DrainWait \/ DrainTest \/ DestroyQueue \/ UNCHANGED vars
  <2>1. UNCHANGED <<worker, queue>>
    BY <1>5 DEF Stop, Destroy, StopCall, StopFlag, StopPost, StopJoin, DrainCall,
                DrainWait, DrainTest, DestroyQueue, vars
  <2> QED
    BY <1>a, <2>1
<1>6. CASE DestroyTask
  <2>1. worker' = worker /\ \A q \in Queues : Ended(q)
    BY <1>a, <1>6 DEF DestroyTask, StopInv
  <2> QED
    BY <2>1 DEF Ended
<1> QED
  BY <1>1, <1>2, <1>3, <1>4, <1>5, <1>6
     DEF Next, EnqueueStep, OwnerCall, OwnerStep, Terminated

\* Every step keeps at most one token in empty_sem, and none behind the back of
\* a worker that works.
LEMMA EmptyStep == IInv /\ [Next]_vars => EmptyMeansIdle'
<1> SUFFICES ASSUME IInv, [Next]_vars PROVE EmptyMeansIdle'
  OBVIOUS
<1> USE QueueIds DEF EmptyMeansIdle
<1>a. /\ EmptyMeansIdle /\ at \in Queues
      /\ worker \in [Queues -> WorkerStates] /\ emptySem \in [Queues -> Nat]
  BY DEF IInv, TypeOK
<1>1. ASSUME NEW q \in Queues, WorkerStep(q) PROVE EmptyMeansIdle'
  <2>1. CASE WorkerPost(q)
    <3>1. emptySem[q] = 0
      BY <1>a, <2>1 DEF WorkerPost
    <3> QED
      BY <1>a, <2>1, <3>1 DEF WorkerPost, Goto
  <2>2. CASE WorkerTryEmpty(q)
    <3>1. emptySem[q] \in {0, 1}
      BY <1>a, <2>2 DEF WorkerTryEmpty
    <3>2. emptySem'[q] = 0
      BY <1>a, <2>2, <3>1 DEF WorkerTryEmpty
    <3> QED
      BY <1>a, <2>2, <3>2 DEF WorkerTryEmpty, Goto
  <2>3. CASE WorkerCheck(q) \/ WorkerTry(q) \/ WorkerTest(q) \/ WorkerPop(q) \/ WorkerFinish(q)
    BY <1>a, <2>3 DEF WorkerCheck, WorkerTry, WorkerTest, WorkerPop, WorkerFinish, Goto
  <2>4. CASE WorkerWait(q) \/ WorkerWoken(q)
    BY <1>a, <2>4 DEF WorkerWait, WorkerWoken, Goto
  <2> QED
    BY <1>1, <2>1, <2>2, <2>3, <2>4 DEF WorkerStep
<1>2. CASE Start
  BY <1>a, <1>2 DEF Start
<1>3. CASE DrainWait
  BY <1>a, <1>3 DEF DrainWait
<1>4. CASE UNCHANGED <<worker, emptySem>>
  BY <1>a, <1>4
<1>5. CASE \/ Stop \/ Destroy \/ StopFlag \/ StopPost \/ StopJoin \/ DrainCall
           \/ DrainTest \/ DestroyTask \/ DestroyQueue \/ UNCHANGED vars
  BY <1>4, <1>5 DEF Stop, Destroy, StopCall, StopFlag, StopPost, StopJoin,
                    DrainCall, DrainTest, DestroyTask, DestroyQueue, vars
<1>6. ASSUME NEW c \in Clients, EnqueueStep(c) \/ \E t \in Tasks : EnqueueCall(c, t)
      PROVE  EmptyMeansIdle'
  BY <1>4, <1>6 DEF EnqueueStep, EnqueueScan, EnqueuePush, EnqueueCall
<1> QED
  BY <1>1, <1>2, <1>3, <1>5, <1>6 DEF Next, OwnerCall, OwnerStep, Terminated

-----------------------------------------------------------------------------
(* Every step keeps each task in one place.  Four kinds of step move one.  *)

\* A client claims a new task.
LEMMA OwnershipCall ==
  ASSUME IInv, NEW c \in Clients, NEW t \in Tasks, EnqueueCall(c, t)
  PROVE  SingleOwnership'
<1>a. /\ SingleOwnership /\ enqueue \in [Clients -> Locals]
      /\ queue \in [Queues -> Seq(Tasks)] /\ task \in [Tasks -> TaskStates]
      /\ job \in [Queues -> Tasks \cup {NoTask}] /\ NoTask \notin Tasks
  BY NoTaskAssumption DEF IInv, TypeOK
<1>1. /\ enqueue[c].task = NoTask /\ task[t] = "new"
      /\ enqueue' = [enqueue EXCEPT ![c].task = t]
      /\ task' = [task EXCEPT ![t] = "offered"]
      /\ UNCHANGED <<queue, job, worker>>
  BY DEF EnqueueCall
<1>2. /\ enqueue'[c].task = t
      /\ \A d \in Clients \ {c} : enqueue'[d] = enqueue[d]
  BY <1>a, <1>1 DEF Locals
<1>3. \A q \in Queues : \A i \in 1 .. Len(queue[q]) :
        queue[q][i] \in Tasks /\ queue[q][i] # t
  BY <1>a, <1>1 DEF SingleOwnership
<1>4. \A q \in Queues : \A i \in 1 .. Len(queue[q]) : task'[queue[q][i]] = "queued"
  BY <1>a, <1>1, <1>3 DEF SingleOwnership
<1>5. \A q \in Queues : job[q] # NoTask => task'[job[q]] = "running"
  BY <1>a, <1>1 DEF SingleOwnership
<1>6. \A d \in Clients \ {c} :
        enqueue[d].task # NoTask => /\ task[enqueue[d].task] = "offered"
                                    /\ enqueue[d].task \in Tasks
                                    /\ enqueue[d].task # t
  BY <1>a, <1>1 DEF SingleOwnership, Locals
<1>7. \A d \in Clients :
        enqueue'[d].task # NoTask => task'[enqueue'[d].task] = "offered"
  BY <1>a, <1>1, <1>2, <1>6
<1>8. \A b, d \in Clients :
        enqueue'[b].task = enqueue'[d].task /\ enqueue'[b].task # NoTask => b = d
  BY <1>a, <1>2, <1>6 DEF SingleOwnership
<1> QED
  BY <1>a, <1>1, <1>4, <1>5, <1>7, <1>8 DEF SingleOwnership

\* A client pushes the task it has claimed.
LEMMA OwnershipPush ==
  ASSUME IInv, NEW c \in Clients, EnqueuePush(c)
  PROVE  SingleOwnership'
<1>a. /\ SingleOwnership /\ enqueue \in [Clients -> Locals]
      /\ queue \in [Queues -> Seq(Tasks)] /\ task \in [Tasks -> TaskStates]
      /\ job \in [Queues -> Tasks \cup {NoTask}] /\ NoTask \notin Tasks
  BY NoTaskAssumption DEF IInv, TypeOK
<1> DEFINE t == enqueue[c].task
           l == enqueue[c].lowestIdx
<1>1. /\ t \in Tasks /\ l \in Queues /\ task[t] = "offered"
      /\ queue' = [queue EXCEPT ![l] = Append(queue[l], t)]
      /\ enqueue' = [enqueue EXCEPT ![c] = Outside]
      /\ task' = [task EXCEPT ![t] = "queued"]
      /\ UNCHANGED <<job, worker>>
  BY <1>a DEF EnqueuePush, Locals, SingleOwnership
<1>2. \A q \in Queues : \A i \in 1 .. Len(queue[q]) :
        queue[q][i] \in Tasks /\ queue[q][i] # t
  BY <1>a, <1>1 DEF SingleOwnership
<1>q. queue[l] \in Seq(Tasks)
  BY <1>a, <1>1
\* An entry of a queue is one it had before, or the one that was pushed.
<1>3. \A q \in Queues : \A i \in 1 .. Len(queue'[q]) :
        \/ i \in 1 .. Len(queue[q]) /\ queue'[q][i] = queue[q][i]
        \/ q = l /\ i = Len(queue[l]) + 1 /\ queue'[q][i] = t
  <2> TAKE q \in Queues
  <2>1. CASE q = l
    <3>1. queue'[q] = Append(queue[l], t)
      BY <1>a, <1>1, <2>1
    <3> QED
      BY <1>1, <1>q, <2>1, <3>1, PushFacts
  <2>2. CASE q # l
    BY <1>a, <1>1, <2>2
  <2> QED
    BY <2>1, <2>2
<1>4. \A p, q \in Queues : \A i \in 1 .. Len(queue'[p]), j \in 1 .. Len(queue'[q]) :
        queue'[p][i] = queue'[q][j] => p = q /\ i = j
  <2> SUFFICES ASSUME NEW p \in Queues, NEW q \in Queues,
                      NEW i \in 1 .. Len(queue'[p]), NEW j \in 1 .. Len(queue'[q]),
                      queue'[p][i] = queue'[q][j]
               PROVE  p = q /\ i = j
    OBVIOUS
  <2>1. \/ i \in 1 .. Len(queue[p]) /\ queue'[p][i] = queue[p][i]
        \/ p = l /\ i = Len(queue[l]) + 1 /\ queue'[p][i] = t
    BY <1>3
  <2>2. \/ j \in 1 .. Len(queue[q]) /\ queue'[q][j] = queue[q][j]
        \/ q = l /\ j = Len(queue[l]) + 1 /\ queue'[q][j] = t
    BY <1>3
  <2>3. CASE queue'[p][i] = t
    BY <1>2, <2>1, <2>2, <2>3
  <2>4. CASE queue'[p][i] # t
    <3>1. /\ i \in 1 .. Len(queue[p]) /\ j \in 1 .. Len(queue[q])
          /\ queue[p][i] = queue[q][j]
      BY <2>1, <2>2, <2>4
    <3> QED
      BY <1>a, <3>1 DEF SingleOwnership
  <2> QED
    BY <2>3, <2>4
<1>5. \A q \in Queues : \A i \in 1 .. Len(queue'[q]) : task'[queue'[q][i]] = "queued"
  BY <1>a, <1>1, <1>2, <1>3 DEF SingleOwnership
<1>6. \A q \in Queues : job[q] # NoTask => task'[job[q]] = "running"
  BY <1>a, <1>1 DEF SingleOwnership
<1>7. /\ enqueue'[c].task = NoTask
      /\ \A d \in Clients \ {c} : enqueue'[d] = enqueue[d]
  BY <1>a, <1>1 DEF Outside
<1>8. \A d \in Clients :
        enqueue'[d].task # NoTask => task'[enqueue'[d].task] = "offered"
  <2> SUFFICES ASSUME NEW d \in Clients, enqueue'[d].task # NoTask
               PROVE  task'[enqueue'[d].task] = "offered"
    OBVIOUS
  <2>1. d # c /\ enqueue'[d] = enqueue[d]
    BY <1>7
  <2>2. /\ enqueue[d].task # t /\ task[enqueue[d].task] = "offered"
        /\ enqueue[d].task \in Tasks
    BY <1>a, <2>1 DEF SingleOwnership, Locals
  <2> QED
    BY <1>a, <1>1, <2>1, <2>2
<1>9. \A b, d \in Clients :
        enqueue'[b].task = enqueue'[d].task /\ enqueue'[b].task # NoTask => b = d
  <2> SUFFICES ASSUME NEW b \in Clients, NEW d \in Clients,
                      enqueue'[b].task = enqueue'[d].task, enqueue'[b].task # NoTask
               PROVE  b = d
    OBVIOUS
  <2>1. b # c /\ d # c
    BY <1>7
  <2>2. enqueue'[b] = enqueue[b] /\ enqueue'[d] = enqueue[d]
    BY <1>7, <2>1
  <2> QED
    BY <1>a, <2>2 DEF SingleOwnership
<1>10. /\ job' = job
       /\ \A q \in Queues : job'[q] # NoTask <=> worker'[q] = "execute"
       /\ \A p, q \in Queues : job'[p] = job'[q] /\ job'[p] # NoTask => p = q
  BY <1>a, <1>1 DEF SingleOwnership
<1> HIDE DEF t, l
<1> QED
  BY <1>4, <1>5, <1>6, <1>8, <1>9, <1>10 DEF SingleOwnership

\* The front of a queue leaves it, to be executed or deleted.
LEMMA FrontLeaves ==
  ASSUME IInv, NEW r \in Queues, queue[r] # <<>>, NEW s \in {"running", "deleted"},
         queue' = [queue EXCEPT ![r] = Tail(queue[r])],
         task' = [task EXCEPT ![Head(queue[r])] = s]
  PROVE  /\ Head(queue[r]) \in Tasks /\ task[Head(queue[r])] = "queued"
         /\ task'[Head(queue[r])] = s
         /\ \A p, q \in Queues : \A i \in 1 .. Len(queue'[p]), j \in 1 .. Len(queue'[q]) :
              queue'[p][i] = queue'[q][j] => p = q /\ i = j
         /\ \A q \in Queues : \A i \in 1 .. Len(queue'[q]) : task'[queue'[q][i]] = "queued"
         /\ \A q \in Queues :
              job[q] # NoTask => /\ job[q] # Head(queue[r])
                                 /\ task'[job[q]] = "running"
         /\ \A c \in Clients :
              enqueue[c].task # NoTask => task'[enqueue[c].task] = "offered"
<1>a. /\ SingleOwnership /\ enqueue \in [Clients -> Locals]
      /\ queue \in [Queues -> Seq(Tasks)] /\ task \in [Tasks -> TaskStates]
      /\ job \in [Queues -> Tasks \cup {NoTask}] /\ NoTask \notin Tasks
  BY NoTaskAssumption DEF IInv, TypeOK
<1> DEFINE h == Head(queue[r])
<1>q. queue[r] \in Seq(Tasks)
  BY <1>a
<1>1. h \in Tasks /\ h = queue[r][1] /\ 1 \in 1 .. Len(queue[r])
  BY <1>q, PopFacts
<1>2. task[h] = "queued" /\ task'[h] = s
  BY <1>a, <1>1 DEF SingleOwnership
\* An entry of a queue was one before, at the same place or one place behind.
<1>3. \A q \in Queues : \A i \in 1 .. Len(queue'[q]) :
        \/ /\ q = r /\ i + 1 \in 1 .. Len(queue[r]) /\ i + 1 # 1
           /\ queue'[q][i] = queue[r][i + 1]
        \/ q # r /\ i \in 1 .. Len(queue[q]) /\ queue'[q][i] = queue[q][i]
  <2> TAKE q \in Queues
  <2>1. CASE q = r
    <3>1. queue'[q] = Tail(queue[r])
      BY <1>a, <2>1
    <3>2. \A i \in 1 .. Len(Tail(queue[r])) :
            /\ Tail(queue[r])[i] = queue[r][i + 1]
            /\ i + 1 \in 1 .. Len(queue[r]) /\ i + 1 # 1
      BY <1>q, PopFacts
    <3> QED
      BY <2>1, <3>1, <3>2
  <2>2. CASE q # r
    BY <1>a, <2>2
  <2> QED
    BY <2>1, <2>2
<1>4. \A p, q \in Queues : \A i \in 1 .. Len(queue'[p]), j \in 1 .. Len(queue'[q]) :
        queue'[p][i] = queue'[q][j] => p = q /\ i = j
  <2> SUFFICES ASSUME NEW p \in Queues, NEW q \in Queues,
                      NEW i \in 1 .. Len(queue'[p]), NEW j \in 1 .. Len(queue'[q]),
                      queue'[p][i] = queue'[q][j]
               PROVE  p = q /\ i = j
    OBVIOUS
  <2>1. CASE p = r /\ q = r
    <3>1. i + 1 = j + 1
      BY <1>a, <1>3, <2>1 DEF SingleOwnership
    <3> QED
      BY <2>1, <3>1
  <2>2. CASE p # r /\ q # r
    BY <1>a, <1>3, <2>2 DEF SingleOwnership
  <2>3. CASE (p = r) # (q = r)
    BY <1>a, <1>3, <2>3 DEF SingleOwnership
  <2> QED
    BY <2>1, <2>2, <2>3
<1>5. \A q \in Queues : \A i \in 1 .. Len(queue'[q]) :
        /\ queue'[q][i] \in Tasks /\ queue'[q][i] # h
        /\ task[queue'[q][i]] = "queued"
  <2> TAKE q \in Queues
  <2> TAKE i \in 1 .. Len(queue'[q])
  <2>1. CASE q = r
    BY <1>a, <1>1, <1>3, <2>1 DEF SingleOwnership
  <2>2. CASE q # r
    BY <1>a, <1>1, <1>3, <2>2 DEF SingleOwnership
  <2> QED
    BY <2>1, <2>2
<1>6. \A q \in Queues : \A i \in 1 .. Len(queue'[q]) : task'[queue'[q][i]] = "queued"
  BY <1>a, <1>5
<1>7. \A q \in Queues :
        job[q] # NoTask => job[q] # h /\ task'[job[q]] = "running"
  BY <1>a, <1>2 DEF SingleOwnership
<1>8. \A c \in Clients :
        enqueue[c].task # NoTask => task'[enqueue[c].task] = "offered"
  BY <1>a, <1>2 DEF SingleOwnership, Locals
<1> QED
  BY <1>1, <1>2, <1>4, <1>6, <1>7, <1>8

\* A worker finishes a task.
LEMMA OwnershipFinish ==
  ASSUME IInv, NEW r \in Queues, WorkerFinish(r)
  PROVE  SingleOwnership'
<1>a. /\ SingleOwnership /\ enqueue \in [Clients -> Locals]
      /\ queue \in [Queues -> Seq(Tasks)] /\ task \in [Tasks -> TaskStates]
      /\ worker \in [Queues -> WorkerStates]
      /\ job \in [Queues -> Tasks \cup {NoTask}] /\ NoTask \notin Tasks
  BY NoTaskAssumption DEF IInv, TypeOK
<1>1. /\ worker[r] = "execute" /\ worker' = [worker EXCEPT ![r] = "check"]
      /\ job[r] \in Tasks /\ task[job[r]] = "running"
      /\ job' = [job EXCEPT ![r] = NoTask]
      /\ task' = [task EXCEPT ![job[r]] = "done"]
      /\ UNCHANGED <<queue, enqueue>>
  BY <1>a DEF WorkerFinish, Goto, SingleOwnership
<1>2. \A q \in Queues : \A i \in 1 .. Len(queue[q]) :
        queue[q][i] \in Tasks /\ task'[queue[q][i]] = "queued"
  BY <1>a, <1>1 DEF SingleOwnership
<1>3. \A q \in Queues :
        /\ job'[q] # NoTask <=> worker'[q] = "execute"
        /\ job'[q] # NoTask => task'[job'[q]] = "running"
  <2> TAKE q \in Queues
  <2>1. CASE q = r
    BY <1>a, <1>1, <2>1
  <2>2. CASE q # r
    <3>1. job'[q] = job[q] /\ worker'[q] = worker[q] /\ (job[q] # NoTask => job[q] # job[r])
      BY <1>a, <1>1, <2>2 DEF SingleOwnership
    <3> QED
      BY <1>a, <1>1, <3>1 DEF SingleOwnership
  <2> QED
    BY <2>1, <2>2
<1>4. \A p, q \in Queues : job'[p] = job'[q] /\ job'[p] # NoTask => p = q
  BY <1>a, <1>1 DEF SingleOwnership
<1>5. \A c \in Clients :
        enqueue[c].task # NoTask => task'[enqueue[c].task] = "offered"
  BY <1>a, <1>1 DEF SingleOwnership, Locals
<1> QED
  BY <1>a, <1>1, <1>2, <1>3, <1>4, <1>5 DEF SingleOwnership

LEMMA OwnershipStep == IInv /\ [Next]_vars => SingleOwnership'
<1> SUFFICES ASSUME IInv, [Next]_vars PROVE SingleOwnership'
  OBVIOUS
<1>a. /\ SingleOwnership /\ StopInv /\ PopNonEmpty
      /\ enqueue \in [Clients -> Locals]
      /\ worker \in [Queues -> WorkerStates]
      /\ job \in [Queues -> Tasks \cup {NoTask}] /\ NoTask \notin Tasks
  BY NoTaskAssumption DEF IInv, TypeOK
<1>b. /\ UNCHANGED <<queue, job, enqueue, task>>
      /\ \A q \in Queues : worker'[q] = "execute" <=> worker[q] = "execute"
      => SingleOwnership'
  BY <1>a DEF SingleOwnership
<1>1. ASSUME NEW c \in Clients, NEW t \in Tasks, EnqueueCall(c, t) PROVE SingleOwnership'
  BY <1>1, OwnershipCall
<1>2. ASSUME NEW c \in Clients, EnqueuePush(c) PROVE SingleOwnership'
  BY <1>2, OwnershipPush
<1>3. ASSUME NEW c \in Clients, EnqueueScan(c) PROVE SingleOwnership'
  <2>1. /\ \A d \in Clients : enqueue'[d].task = enqueue[d].task
        /\ UNCHANGED <<queue, job, task, worker>>
    BY <1>a, <1>3 DEF EnqueueScan, Locals
  <2> QED
    BY <1>a, <2>1 DEF SingleOwnership
<1>4. ASSUME NEW q \in Queues, WorkerPop(q) PROVE SingleOwnership'
  <2>1. /\ worker[q] = "pop" /\ job[q] = NoTask /\ queue[q] # <<>>
        /\ queue' = [queue EXCEPT ![q] = Tail(queue[q])]
        /\ task' = [task EXCEPT ![Head(queue[q])] = "running"]
        /\ job' = [job EXCEPT ![q] = Head(queue[q])]
        /\ worker' = [worker EXCEPT ![q] = "execute"]
        /\ enqueue' = enqueue
    BY <1>a, <1>4 DEF WorkerPop, Goto, PopNonEmpty, SingleOwnership
  <2>2. /\ Head(queue[q]) \in Tasks /\ task'[Head(queue[q])] = "running"
        /\ \A p \in Queues :
             job[p] # NoTask => job[p] # Head(queue[q]) /\ task'[job[p]] = "running"
        /\ \A p, r \in Queues : \A i \in 1 .. Len(queue'[p]), j \in 1 .. Len(queue'[r]) :
             queue'[p][i] = queue'[r][j] => p = r /\ i = j
        /\ \A p \in Queues : \A i \in 1 .. Len(queue'[p]) : task'[queue'[p][i]] = "queued"
        /\ \A c \in Clients :
             enqueue[c].task # NoTask => task'[enqueue[c].task] = "offered"
    BY <2>1, FrontLeaves
  <2>3. \A p \in Queues : /\ job'[p] # NoTask <=> worker'[p] = "execute"
                          /\ job'[p] # NoTask => task'[job'[p]] = "running"
    BY <1>a, <2>1, <2>2 DEF SingleOwnership
  <2>4. \A p, r \in Queues : job'[p] = job'[r] /\ job'[p] # NoTask => p = r
    BY <1>a, <2>1, <2>2 DEF SingleOwnership
  <2> QED
    BY <1>a, <2>1, <2>2, <2>3, <2>4 DEF SingleOwnership
<1>5. ASSUME NEW q \in Queues, WorkerFinish(q) PROVE SingleOwnership'
  BY <1>5, OwnershipFinish
<1>6. ASSUME NEW q \in Queues,
             \/ WorkerCheck(q) \/ WorkerTry(q) \/ WorkerPost(q) \/ WorkerWait(q)
             \/ WorkerWoken(q) \/ WorkerTryEmpty(q) \/ WorkerTest(q)
      PROVE  SingleOwnership'
  <2>1. /\ UNCHANGED <<queue, job, enqueue, task>>
        /\ worker[q] # "execute"
        /\ \E s \in WorkerStates \ {"execute"} : worker' = [worker EXCEPT ![q] = s]
    BY <1>6 DEF WorkerCheck, WorkerTry, WorkerPost, WorkerWait, WorkerWoken,
                WorkerTryEmpty, WorkerTest, Goto, WorkerStates
  <2> QED
    BY <1>a, <1>b, <2>1
<1>7. CASE Start
  BY <1>a, <1>b, <1>7 DEF Start
<1>8. CASE \/ Stop \/ Destroy \/ StopFlag \/ StopPost \/ StopJoin \/ DrainCall
           \/ DrainWait \/ DrainTest \/ DestroyQueue \/ UNCHANGED vars
  <2>1. UNCHANGED <<queue, job, enqueue, task, worker>>
    BY <1>8 DEF Stop, Destroy, StopCall, StopFlag, StopPost, StopJoin, DrainCall,
                DrainWait, DrainTest, DestroyQueue, vars
  <2> QED
    BY <1>b, <2>1
<1>9. CASE DestroyTask
  <2>1. /\ at \in Queues /\ queue[at] # <<>>
        /\ queue' = [queue EXCEPT ![at] = Tail(queue[at])]
        /\ task' = [task EXCEPT ![Head(queue[at])] = "deleted"]
        /\ UNCHANGED <<job, worker, enqueue>>
    BY <1>9 DEF DestroyTask, IInv, TypeOK
  <2>2. /\ \A p \in Queues : job[p] # NoTask => task'[job[p]] = "running"
        /\ \A p, r \in Queues : \A i \in 1 .. Len(queue'[p]), j \in 1 .. Len(queue'[r]) :
             queue'[p][i] = queue'[r][j] => p = r /\ i = j
        /\ \A p \in Queues : \A i \in 1 .. Len(queue'[p]) : task'[queue'[p][i]] = "queued"
        /\ \A c \in Clients :
             enqueue[c].task # NoTask => task'[enqueue[c].task] = "offered"
    BY <2>1, FrontLeaves
  <2> QED
    BY <1>a, <2>1, <2>2 DEF SingleOwnership
<1> QED
  BY <1>1, <1>2, <1>3, <1>4, <1>5, <1>6, <1>7, <1>8, <1>9
     DEF Next, EnqueueStep, WorkerStep, OwnerCall, OwnerStep, Terminated

\* Every step of a drain leaves the queues it has passed empty.
LEMMA DrainStep == IInv /\ [Next]_vars => DrainInv'
<1> SUFFICES ASSUME IInv, [Next]_vars, owner' \in {"drainWait", "drainTest"}
             PROVE  /\ \A c \in Clients : enqueue'[c].task = NoTask
                    /\ \A q \in Queues : q < at' => queue'[q] = <<>>
  BY DEF DrainInv
<1> USE QueueIds
<1>a. /\ DrainInv /\ StopInv /\ PopNonEmpty /\ at \in Queues
      /\ queue \in [Queues -> Seq(Tasks)] /\ resume \in {"idle", "destroy"}
  BY DEF IInv, TypeOK
<1>b. UNCHANGED <<owner, at, queue, enqueue>>
        => /\ \A c \in Clients : enqueue'[c].task = NoTask
           /\ \A q \in Queues : q < at' => queue'[q] = <<>>
  BY <1>a DEF DrainInv
<1>1. CASE DrainCall
  <2>1. at' = 1 /\ enqueue' = enqueue /\ \A c \in Clients : enqueue[c].task = NoTask
    BY <1>1 DEF DrainCall
  <2>2. \A q \in Queues : ~(q < 1)
    OBVIOUS
  <2> QED
    BY <2>1, <2>2
<1>2. CASE DrainWait
  BY <1>a, <1>2 DEF DrainWait, DrainInv
<1>3. CASE DrainTest
  <2>1. /\ queue' = queue /\ enqueue' = enqueue
        /\ \A c \in Clients : enqueue[c].task = NoTask
        /\ \A q \in Queues : q < at => queue[q] = <<>>
    BY <1>a, <1>3 DEF DrainTest, DrainInv
  <2>2. CASE at' = at
    BY <2>1, <2>2
  <2>3. CASE at' # at
    <3>1. at' = at + 1 /\ queue[at] = <<>>
      BY <1>3, <2>3 DEF DrainTest
    <3> QED
      BY <1>a, <2>1, <3>1
  <2> QED
    BY <2>2, <2>3
<1>4. ASSUME NEW q \in Queues, WorkerStep(q)
      PROVE  /\ \A c \in Clients : enqueue'[c].task = NoTask
             /\ \A r \in Queues : r < at' => queue'[r] = <<>>
  <2>1. UNCHANGED <<owner, at, enqueue>>
    BY <1>4, WorkerFrame
  <2>2. CASE WorkerPop(q)
    <3>1. queue[q] # <<>> /\ \A r \in Queues \ {q} : queue'[r] = queue[r]
      BY <1>a, <2>2 DEF WorkerPop, PopNonEmpty
    <3> QED
      BY <1>a, <2>1, <3>1 DEF DrainInv
  <2>3. CASE ~WorkerPop(q)
    <3>1. queue' = queue
      BY <1>4, <2>3 DEF WorkerStep, WorkerCheck, WorkerTry, WorkerPost, WorkerWait,
                        WorkerWoken, WorkerTryEmpty, WorkerTest, WorkerFinish
    <3> QED
      BY <1>b, <2>1, <3>1
  <2> QED
    BY <2>2, <2>3
<1>5. ASSUME NEW c \in Clients, EnqueueStep(c) \/ \E t \in Tasks : EnqueueCall(c, t)
      PROVE  FALSE
  <2>1. owner \in {"drainWait", "drainTest"} /\ (EnqueueStep(c) => enqueue[c].task # NoTask)
    BY <1>5 DEF EnqueueStep, EnqueueScan, EnqueuePush, EnqueueCall
  <2> QED
    BY <1>a, <1>5, <2>1 DEF DrainInv, EnqueueCall
<1>6. ASSUME \/ Start \/ Stop \/ Destroy \/ StopFlag \/ StopPost \/ StopJoin
             \/ DestroyTask \/ DestroyQueue
      PROVE  FALSE
  BY <1>a, <1>6 DEF Start, Stop, Destroy, StopCall, StopFlag, StopPost, StopJoin,
                    DestroyTask, DestroyQueue
<1>7. UNCHANGED vars => UNCHANGED <<owner, at, queue, enqueue>>
  BY DEF vars
<1> QED
  BY <1>b, <1>1, <1>2, <1>3, <1>4, <1>5, <1>6, <1>7
     DEF Next, OwnerCall, OwnerStep, Terminated

LEMMA InitIInv == Init => IInv
<1> SUFFICES ASSUME Init PROVE IInv
  OBVIOUS
<1> USE QueueIds DEF Init
<1>1. TypeOK
  <2>1. queue \in [Queues -> Seq(Tasks)]
    BY EmptySeq
  <2>2. enqueue \in [Clients -> Locals]
    BY DEF Outside, Locals
  <2> QED
    BY <2>1, <2>2 DEF TypeOK, WorkerStates, OwnerStates, TaskStates
<1>2. StopInv
  BY DEF StopInv, Posted, Cleared, Ended
<1>3. TokenBalance
  <2>1. \A q \in Queues : ~HoldsToken(q) /\ ~Posted(q) /\ taskSem[q] = 0 /\ queue[q] = <<>>
    BY DEF HoldsToken, Posted
  <2> QED
    BY <2>1, EmptySeq DEF TokenBalance, Count
<1>4. PopNonEmpty /\ EmptyMeansIdle /\ DrainInv
  BY DEF PopNonEmpty, EmptyMeansIdle, DrainInv
<1>5. SingleOwnership
  <2>1. \A q \in Queues : ~\E i \in 1 .. Len(queue[q]) : TRUE
    BY EmptySeq
  <2>2. \A c \in Clients : enqueue[c].task = NoTask
    BY DEF Outside
  <2> QED
    BY <2>1, <2>2 DEF SingleOwnership
<1> QED
  BY <1>1, <1>2, <1>3, <1>4, <1>5 DEF IInv

-----------------------------------------------------------------------------
\* The inductive invariant holds in every reachable state.
THEOREM Invariance == Spec => []IInv
<1>1. IInv /\ [Next]_vars => IInv'
  BY TypeStep, StopStep, BalanceStep, PopStep, EmptyStep, OwnershipStep, DrainStep
     DEF IInv
<1> QED
  BY InitIInv, <1>1, PTL DEF Spec

\* The pool's variables keep their types: no semaphore becomes negative.
THEOREM TypeCorrect == Spec => []TypeOK
<1>1. IInv => TypeOK
  BY DEF IInv
<1> QED
  BY Invariance, <1>1, PTL

\* Every task in a queue has its token, and the token of stop() is the only
\* other one.
THEOREM Balance == Spec => []TokenBalance
<1>1. IInv => TokenBalance
  BY DEF IInv
<1> QED
  BY Invariance, <1>1, PTL

\* No worker pops an empty queue, even when stop() wakes it.
THEOREM NeverPopsEmpty == Spec => []PopNonEmpty
<1>1. IInv => PopNonEmpty
  BY DEF IInv
<1> QED
  BY Invariance, <1>1, PTL

\* drain() is never told by a worker that works that it has run out of work.
THEOREM EmptyIsIdle == Spec => []EmptyMeansIdle
<1>1. IInv => EmptyMeansIdle
  BY DEF IInv
<1> QED
  BY Invariance, <1>1, PTL

\* The guard of WorkerStep(q): a worker waits for nothing but a token of task_sem.
WorkerCanGo(q) == ~Ended(q) /\ (worker[q] = "wait" => taskSem[q] > 0)

\* stop() joins no worker that waits.
JoinNeverBlocks == owner = "join" => \A q \in Queues : Ended(q) \/ WorkerCanGo(q)

\* A worker that waits while its queue has a task, or its token of stop(), finds
\* a token.
LEMMA WaitsForWork ==
  ASSUME TypeOK, TokenBalance, NEW q \in Queues, worker[q] = "wait",
         queue[q] # <<>> \/ Posted(q)
  PROVE  taskSem[q] > 0
<1>1. /\ taskSem[q] \in Nat /\ queue[q] \in Seq(Tasks)
      /\ taskSem[q] + Count(HoldsToken(q)) = Len(queue[q]) + Count(Posted(q))
  BY DEF TypeOK, TokenBalance
<1>2. Count(HoldsToken(q)) = 0
  BY DEF HoldsToken, Count
<1>3. Len(queue[q]) \in Nat /\ (queue[q] # <<>> => Len(queue[q]) > 0)
  BY <1>1, PopFacts
<1>4. Count(Posted(q)) \in {0, 1} /\ (Posted(q) => Count(Posted(q)) = 1)
  BY DEF Count
<1> QED
  BY <1>1, <1>2, <1>3, <1>4

\* Neither stop() nor the destructor has to wait for a thread that waits itself.
LEMMA CallsReturn == IInv => JoinNeverBlocks /\ DestroyNeverBlocks
<1>1. ASSUME IInv, owner = "join", NEW q \in Queues, ~Ended(q) PROVE WorkerCanGo(q)
  <2>1. Posted(q)
    BY <1>1 DEF IInv, StopInv, Ended, Posted
  <2> QED
    BY <1>1, <2>1, WaitsForWork DEF IInv, WorkerCanGo
<1>2. ASSUME IInv, owner = "destroy", queue[at] # <<>> PROVE taskSem[at] > 0
  <2>1. /\ at \in Queues /\ taskSem[at] \in Nat /\ queue[at] \in Seq(Tasks)
        /\ taskSem[at] + Count(HoldsToken(at)) = Len(queue[at]) + Count(Posted(at))
    BY <1>2 DEF IInv, TypeOK, TokenBalance
  <2>2. Len(queue[at]) \in Nat \ {0}
    BY <1>2, <2>1, PopFacts
  <2>3. Ended(at) /\ ~processing
    BY <1>2, <2>1 DEF IInv, StopInv
  \* A worker that kept its token was woken by stop(), which posted another.
  <2>4. HoldsToken(at) => Posted(at)
    BY <1>2, <2>3 DEF Ended, HoldsToken, Posted
  <2>5. Count(HoldsToken(at)) \in {0, 1} /\ Count(Posted(at)) \in {0, 1}
        /\ (Count(HoldsToken(at)) = 1 => Count(Posted(at)) = 1)
    BY <2>4 DEF Count
  <2> QED
    BY <2>1, <2>2, <2>5
<1> QED
  BY <1>1, <1>2 DEF JoinNeverBlocks, DestroyNeverBlocks

\* Whatever a worker was doing when stop() posted its token, it finds one: no
\* worker waits any more when stop() joins them.
THEOREM StopWakesAll == Spec => []JoinNeverBlocks
BY Invariance, CallsReturn, PTL

\* The destructor's wait on task_sem returns at once.
THEOREM DestructorReturns == Spec => []DestroyNeverBlocks
BY Invariance, CallsReturn, PTL

\* When drain() returns, every queue is empty.
THEOREM DrainEmpties == Spec => DrainMeansEmpty
<1>1. ASSUME IInv, [Next]_vars
      PROVE  [owner = "drainTest" /\ owner' = "idle"
                => \A q \in Queues : queue[q] = <<>>]_vars
  <2> SUFFICES ASSUME owner = "drainTest", owner' = "idle", NEW q \in Queues
               PROVE  queue[q] = <<>>
    OBVIOUS
  <2>1. DrainTest
    <3>1. ASSUME NEW r \in Queues, WorkerStep(r) PROVE FALSE
      BY <3>1, WorkerFrame
    <3>2. ASSUME NEW c \in Clients, EnqueueStep(c) \/ \E t \in Tasks : EnqueueCall(c, t)
          PROVE  FALSE
      BY <3>2 DEF EnqueueStep, EnqueueScan, EnqueuePush, EnqueueCall
    <3>3. ~OwnerCall /\ ~Terminated /\ ~UNCHANGED vars
      BY DEF OwnerCall, Start, Stop, Destroy, StopCall, DrainCall, Terminated, vars
    <3>4. OwnerStep
      BY <1>1, <3>1, <3>2, <3>3 DEF Next
    <3> QED
      BY <3>4 DEF OwnerStep, StopFlag, StopPost, StopJoin, DrainWait,
                  DestroyTask, DestroyQueue
  <2>2. at = PoolSize /\ queue[at] = <<>> /\ at \in Queues
    BY <1>1, <2>1 DEF DrainTest, IInv, TypeOK
  <2>3. q < at => queue[q] = <<>>
    BY <1>1 DEF IInv, DrainInv
  <2> QED
    BY <2>2, <2>3, QueueIds
<1> QED
  BY <1>1, Invariance, PTL DEF Spec, DrainMeansEmpty

-----------------------------------------------------------------------------
(* The MultiQueueThreadpool implements TaskPool.                           *)

\* Initially nothing has been submitted.
LEMMA RefineInit == Init => Pool!Init
BY DEF Init, Pool!Init

\* The steps of the abstract pool, one by one.
LEMMA PoolSteps ==
  /\ \A t \in Tasks : Pool!Submit(t) => Pool!Next
  /\ \A q \in Queues, t \in Tasks : Pool!Begin(q, t) => Pool!Next
  /\ \A q \in Queues : Pool!Complete(q) => Pool!Next
  /\ \A S : S \subseteq {t \in Tasks : task[t] = "queued"} /\ Pool!GiveUp(S) => Pool!Next
BY DEF Pool!Next

\* The tasks that workers execute are the running ones.
LEMMA ExecutingFacts ==
  ASSUME IInv
  PROVE  \A t \in Pool!Executing : t \in Tasks /\ task[t] = "running"
<1> SUFFICES ASSUME NEW t \in Pool!Executing PROVE t \in Tasks /\ task[t] = "running"
  OBVIOUS
<1>1. PICK q \in Queues : t = job[q] /\ t # NoTask
  BY DEF Pool!Executing
<1> QED
  BY <1>1 DEF IInv, TypeOK, SingleOwnership

\* Every step is a step of the abstract pool, or changes nothing it sees.
LEMMA RefineStep == IInv /\ [Next]_vars => [Pool!Next]_(Pool!poolVars)
<1> SUFFICES ASSUME IInv, [Next]_vars PROVE [Pool!Next]_(Pool!poolVars)
  OBVIOUS
<1>a. /\ SingleOwnership /\ PopNonEmpty /\ enqueue \in [Clients -> Locals]
      /\ queue \in [Queues -> Seq(Tasks)] /\ at \in Queues
      /\ job \in [Queues -> Tasks \cup {NoTask}]
      /\ task \in [Tasks -> TaskStates] /\ NoTask \notin Tasks
  BY NoTaskAssumption DEF IInv, TypeOK
<1>1. ASSUME NEW c \in Clients, EnqueuePush(c) PROVE Pool!Next
  <2>1. PICK t \in Tasks : t = enqueue[c].task
    BY <1>a, <1>1 DEF EnqueuePush, Locals
  <2>2. task[t] = "offered" /\ task' = [task EXCEPT ![t] = "queued"] /\ job' = job
    BY <1>a, <1>1, <2>1 DEF EnqueuePush, SingleOwnership
  <2>3. t \notin Pool!Executing
    BY <2>2, ExecutingFacts
  <2>4. Pool!Submit(t)
    BY <1>a, <2>2, <2>3 DEF Pool!Submit
  <2> QED
    BY <2>4, PoolSteps
<1>2. ASSUME NEW c \in Clients, NEW t \in Tasks, EnqueueCall(c, t)
      PROVE  UNCHANGED Pool!poolVars
  BY <1>a, <1>2 DEF EnqueueCall, Pool!poolVars
<1>3. ASSUME NEW q \in Queues, WorkerPop(q) PROVE Pool!Next
  <2>1. queue[q] \in Seq(Tasks) /\ queue[q] # <<>>
    BY <1>a, <1>3 DEF WorkerPop, PopNonEmpty
  <2>2. PICK t \in Tasks : t = Head(queue[q])
    BY <2>1, PopFacts
  <2>3. /\ task[t] = "queued" /\ task' = [task EXCEPT ![t] = "running"]
        /\ job[q] = NoTask /\ job' = [job EXCEPT ![q] = t]
    BY <1>a, <1>3, <2>1, <2>2, PopFacts DEF WorkerPop, SingleOwnership
  <2>4. Pool!Begin(q, t)
    BY <1>a, <2>3 DEF Pool!Begin
  <2> QED
    BY <2>4, PoolSteps
<1>4. ASSUME NEW q \in Queues, WorkerFinish(q) PROVE Pool!Next
  <2>1. /\ job[q] \in Tasks /\ task[job[q]] = "running"
        /\ task' = [task EXCEPT ![job[q]] = "done"]
        /\ job' = [job EXCEPT ![q] = NoTask]
    BY <1>a, <1>4 DEF WorkerFinish, SingleOwnership
  <2>2. Pool!Complete(q)
    BY <1>a, <2>1 DEF Pool!Complete
  <2> QED
    BY <2>2, PoolSteps
<1>5. CASE DestroyTask
  <2>1. queue[at] \in Seq(Tasks) /\ queue[at] # <<>>
    BY <1>a, <1>5 DEF DestroyTask
  <2>2. PICK t \in Tasks : t = Head(queue[at])
    BY <2>1, PopFacts
  <2>3. task[t] = "queued" /\ task' = [task EXCEPT ![t] = "deleted"] /\ job' = job
    BY <1>a, <1>5, <2>1, <2>2, PopFacts DEF DestroyTask, SingleOwnership
  <2>4. Pool!GiveUp({t})
    BY <1>a, <2>3 DEF Pool!GiveUp
  <2> QED
    BY <2>3, <2>4, PoolSteps
<1>6. UNCHANGED <<job, task>> => UNCHANGED Pool!poolVars
  BY DEF Pool!poolVars
<1>7. ASSUME NEW q \in Queues,
             \/ WorkerCheck(q) \/ WorkerTry(q) \/ WorkerPost(q) \/ WorkerWait(q)
             \/ WorkerWoken(q) \/ WorkerTryEmpty(q) \/ WorkerTest(q)
      PROVE  UNCHANGED <<job, task>>
  BY <1>7 DEF WorkerCheck, WorkerTry, WorkerPost, WorkerWait, WorkerWoken,
              WorkerTryEmpty, WorkerTest
<1>8. ASSUME \/ Start \/ Stop \/ Destroy \/ StopFlag \/ StopPost \/ StopJoin
             \/ DrainCall \/ DrainWait \/ DrainTest \/ DestroyQueue
             \/ UNCHANGED vars \/ \E c \in Clients : EnqueueScan(c)
      PROVE  UNCHANGED <<job, task>>
  BY <1>8 DEF Start, Stop, Destroy, StopCall, StopFlag, StopPost, StopJoin,
              DrainCall, DrainWait, DrainTest, DestroyQueue, EnqueueScan, vars
<1> QED
  BY <1>1, <1>2, <1>3, <1>4, <1>5, <1>6, <1>7, <1>8
     DEF Next, EnqueueStep, WorkerStep, OwnerCall, OwnerStep, Terminated

\* Whatever clients, workers and owner do, a task is executed at most once and
\* never after it was given up.
THEOREM Refinement == Spec => PoolSpec
<1>1. IInv /\ [Next]_vars => [Pool!Next]_(Pool!poolVars)
  BY RefineStep
<1> QED
  BY RefineInit, <1>1, Invariance, PTL DEF Spec, PoolSpec, Pool!Spec
=============================================================================
