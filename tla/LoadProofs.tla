----------------------------- MODULE LoadProofs -----------------------------
(***************************************************************************)
(* enqueue_task of a MultiQueueThreadpool adds "to lowest pending jobs     *)
(* queue", but it reads the sizes of the queues one after the other, and   *)
(* other clients push in between.  The proof that the queues of a pool     *)
(* that is not started still differ by no more tasks than there are        *)
(* clients, for every number of queues, clients and tasks.                 *)
(*                                                                         *)
(* The argument: take a number v that some queue does not exceed.  A       *)
(* client that has read a size of at most v is going to push on that very  *)
(* queue, unless it finds a shorter one; a client that has not will look   *)
(* for one.  So the length of a queue and the number of clients that aim   *)
(* at it, having read at most v, never exceed v by more than the number of *)
(* clients: the queue was no longer than v when the last of them read it.  *)
(***************************************************************************)
EXTENDS MultiQueueThreadpoolProofs, FiniteSetTheorems

\* No queue becomes as long as INT_MAX, the initial value of lowestAmt.
EnoughInt ==
  IsFiniteSet(Clients) /\ IsFiniteSet(Tasks) /\ Cardinality(Tasks) < INT_MAX

Unstarted == \A q \in Queues : worker[q] = "none"

\* The clients that are about to push on q, as things stand, because they have
\* read a size of at most v there.
Aiming(q, v) ==
  {c \in Clients : /\ enqueue[c].task # NoTask
                   /\ enqueue[c].lowestIdx = q
                   /\ enqueue[c].lowestAmt <= v}

\* The local variables of a client: what it has found is no more than what the
\* queues it has looked at hold by now.
ScanInv ==
  /\ \A c \in Clients : enqueue[c].task = NoTask => enqueue[c] = Outside
  /\ Unstarted =>
       \A c \in Clients :
         enqueue[c].task # NoTask =>
           \A p \in Queues :
             p < enqueue[c].i => /\ enqueue[c].lowestAmt <= Len(queue[p])
                                 /\ enqueue[c].lowestAmt < INT_MAX

\* Nobody enqueues while the pool is destroyed, and what the destructor has
\* passed is empty.
DestroyInv ==
  /\ resume = "destroy" => \A c \in Clients : enqueue[c].task = NoTask
  /\ owner \in {"destroy", "destroyed"} => resume = "destroy"
  /\ Unstarted /\ owner = "destroy" => \A q \in Queues : q < at => queue[q] = <<>>
  /\ Unstarted /\ owner = "destroyed" => \A q \in Queues : queue[q] = <<>>

AimInv ==
  Unstarted /\ owner \notin {"destroy", "destroyed"} =>
    \A p, q \in Queues, v \in 0 .. INT_MAX - 1 :
      Len(queue[p]) <= v =>
        Len(queue[q]) + Cardinality(Aiming(q, v)) <= v + Cardinality(Clients)

LoadInv == ScanInv /\ DestroyInv /\ AimInv

-----------------------------------------------------------------------------
LEMMA IntMax == INT_MAX \in Nat /\ INT_MAX > 0
BY DEF INT_MAX

\* A task is in one place, so that no queue is longer than there are tasks.
LEMMA ShortQueues ==
  ASSUME EnoughInt, IInv, NEW q \in Queues
  PROVE  Len(queue[q]) \in Nat /\ Len(queue[q]) < INT_MAX
<1> DEFINE s == queue[q]
           n == Len(s)
<1>1. s \in Seq(Tasks) /\ n \in Nat /\ s \in [1 .. n -> Tasks]
  BY LenProperties DEF IInv, TypeOK
<1>2. \A i, j \in 1 .. n : s[i] = s[j] => i = j
  BY DEF IInv, SingleOwnership
<1> HIDE DEF s
<1>3. s \in Injection(1 .. n, Tasks)
  BY <1>1, <1>2 DEF Injection, IsInjective
<1>4. Cardinality(1 .. n) <= Cardinality(Tasks)
  BY <1>3, FS_Injection DEF EnoughInt
<1>5. Cardinality(1 .. n) = n
  BY <1>1, FS_Interval
<1>6. Cardinality(Tasks) \in Nat
  BY FS_CardinalityType DEF EnoughInt
<1>7. n < INT_MAX
  BY <1>1, <1>4, <1>5, <1>6, IntMax DEF EnoughInt
<1> QED
  BY <1>1, <1>7 DEF s

\* The clients that aim at a queue can be counted.
LEMMA AimingFacts ==
  ASSUME EnoughInt, NEW S, S \subseteq Clients
  PROVE  /\ IsFiniteSet(S) /\ Cardinality(S) \in Nat
         /\ Cardinality(S) <= Cardinality(Clients) /\ Cardinality(Clients) \in Nat
BY FS_Subset, FS_CardinalityType DEF EnoughInt

LEMMA FewerAim ==
  ASSUME EnoughInt, NEW S, NEW T, S \subseteq T, T \subseteq Clients
  PROVE  Cardinality(S) \in Nat /\ Cardinality(T) \in Nat
         /\ Cardinality(S) <= Cardinality(T)
BY AimingFacts, FS_Subset

\* Workers are created once; until then nothing pops but the destructor.
LEMMA UnstartedSteps ==
  ASSUME IInv, [Next]_vars, Unstarted'
  PROVE  /\ Unstarted
         /\ \/ \E c \in Clients : EnqueueStep(c) \/ \E t \in Tasks : EnqueueCall(c, t)
            \/ Stop \/ Destroy \/ DestroyTask \/ DestroyQueue
            \/ UNCHANGED vars
<1>1. /\ StopInv /\ worker \in [Queues -> WorkerStates] /\ at \in Queues
      /\ 1 \in Queues
  BY QueueIds DEF IInv, TypeOK
<1>2. ASSUME NEW q \in Queues, WorkerStep(q) PROVE FALSE
  <2>1. \E s \in WorkerStates \ {"none"} : worker' = [worker EXCEPT ![q] = s]
    BY <1>2, WorkerFrame
  <2>2. worker'[q] # "none"
    BY <1>1, <2>1
  <2> QED
    BY <2>2 DEF Unstarted
<1>3. CASE Start
  BY <1>1, <1>3 DEF Start, Unstarted
<1>4. CASE StopFlag \/ StopPost \/ StopJoin
  <2>1. owner \in {"flag", "post", "join"} /\ worker' = worker
    BY <1>4 DEF StopFlag, StopPost, StopJoin
  <2> QED
    BY <1>1, <2>1 DEF StopInv, Unstarted
<1>5. CASE DrainCall \/ DrainWait \/ DrainTest
  <2>1. processing /\ worker' = worker
    BY <1>1, <1>5 DEF DrainCall, DrainWait, DrainTest, StopInv
  <2> QED
    BY <1>1, <2>1 DEF StopInv, Unstarted
<1>6. CASE Stop \/ Destroy \/ DestroyTask \/ DestroyQueue
  BY <1>6 DEF Stop, Destroy, StopCall, DestroyTask, DestroyQueue, Unstarted
<1>7. ASSUME NEW c \in Clients, EnqueueStep(c) \/ \E t \in Tasks : EnqueueCall(c, t)
      PROVE  Unstarted
  BY <1>7 DEF EnqueueStep, EnqueueScan, EnqueuePush, EnqueueCall, Unstarted
<1>8. CASE UNCHANGED vars \/ Terminated
  BY <1>8 DEF vars, Terminated, Unstarted
<1> QED
  BY <1>2, <1>3, <1>4, <1>5, <1>6, <1>7, <1>8
     DEF Next, OwnerCall, OwnerStep, Terminated

-----------------------------------------------------------------------------
(* The steps.                                                              *)

LEMMA InitLoad == ASSUME EnoughInt PROVE Init => LoadInv
<1> SUFFICES ASSUME Init PROVE LoadInv
  OBVIOUS
<1>1. \A c \in Clients : enqueue[c] = Outside /\ enqueue[c].task = NoTask
  BY DEF Init, Outside
<1>2. owner = "idle" /\ resume = "idle"
  BY DEF Init
<1>3. ScanInv /\ DestroyInv
  BY <1>1, <1>2 DEF ScanInv, DestroyInv
<1>4. ASSUME NEW q \in Queues, NEW v PROVE Aiming(q, v) = {}
  BY <1>1 DEF Aiming
<1>5. \A q \in Queues : Len(queue[q]) = 0
  BY DEF Init
<1>6. Cardinality({}) = 0 /\ Cardinality(Clients) \in Nat
  BY FS_EmptySet, FS_CardinalityType DEF EnoughInt
<1>7. ASSUME NEW q \in Queues, NEW v \in 0 .. INT_MAX - 1
      PROVE  Len(queue[q]) + Cardinality(Aiming(q, v)) <= v + Cardinality(Clients)
  <2>1. Len(queue[q]) = 0 /\ Cardinality(Aiming(q, v)) = 0
    BY <1>4, <1>5, <1>6
  <2>2. v \in Nat
    BY IntMax
  <2> QED
    BY <1>6, <2>1, <2>2
<1>8. AimInv
  BY <1>7 DEF AimInv
<1> QED
  BY <1>3, <1>8 DEF LoadInv

\* A client comes with a size of INT_MAX in its hands: it aims at nothing.
LEMMA CallLoad ==
  ASSUME EnoughInt, IInv, LoadInv, NEW c \in Clients, NEW t \in Tasks,
         EnqueueCall(c, t)
  PROVE  LoadInv'
<1>1. /\ enqueue \in [Clients -> Locals] /\ enqueue[c].task = NoTask
      /\ enqueue' = [enqueue EXCEPT ![c].task = t]
      /\ resume # "destroy"
      /\ UNCHANGED <<queue, worker, owner, at, resume>>
  BY DEF EnqueueCall, IInv, TypeOK
<1>2. enqueue[c] = Outside
  BY <1>1 DEF LoadInv, ScanInv
<1>3. /\ enqueue'[c].task = t /\ t # NoTask
      /\ enqueue'[c].i = 1 /\ enqueue'[c].lowestAmt = INT_MAX
  BY <1>1, <1>2, NoTaskAssumption DEF Outside, Locals
<1>4. \A b \in Clients : b # c => enqueue'[b] = enqueue[b]
  BY <1>1
<1>5. Unstarted' <=> Unstarted
  BY <1>1 DEF Unstarted
<1>6. ScanInv'
  <2>1. \A b \in Clients : enqueue'[b].task = NoTask => enqueue'[b] = Outside
    BY <1>3, <1>4 DEF LoadInv, ScanInv
  <2>2. \A p \in Queues : ~(p < enqueue'[c].i)
    BY <1>3, QueueIds
  <2> QED
    BY <1>1, <1>3, <1>4, <1>5, <2>1, <2>2 DEF LoadInv, ScanInv
<1>7. DestroyInv'
  BY <1>1, <1>5 DEF LoadInv, DestroyInv
<1>8. ASSUME NEW q \in Queues, NEW v \in 0 .. INT_MAX - 1
      PROVE  Aiming(q, v)' = Aiming(q, v)
  <2>1. ~(enqueue'[c].lowestAmt <= v)
    BY <1>3, IntMax
  <2> QED
    BY <1>1, <1>4, <2>1 DEF Aiming
<1>9. AimInv'
  BY <1>1, <1>5, <1>8 DEF LoadInv, AimInv
<1> QED
  BY <1>6, <1>7, <1>9 DEF LoadInv

\* A client that reads the size of queue k: if it aims there from now on, having
\* read at most v, then k is no longer than v; and it aims nowhere else anew.
LEMMA ScanLoad ==
  ASSUME EnoughInt, IInv, LoadInv, NEW c \in Clients, EnqueueScan(c)
  PROVE  LoadInv'
<1> DEFINE e == enqueue[c]
           k == e.i
           size == Len(queue[k])
<1>1. /\ enqueue \in [Clients -> Locals] /\ e \in Locals
      /\ e.task # NoTask /\ k \in Queues
      /\ enqueue' = [enqueue EXCEPT ![c] =
           IF size < e.lowestAmt
           THEN [e EXCEPT !.i = k + 1, !.lowestIdx = k, !.lowestAmt = size]
           ELSE [e EXCEPT !.i = k + 1]]
      /\ UNCHANGED <<queue, worker, owner, at, resume>>
  BY DEF EnqueueScan, IInv, TypeOK
<1>2. size \in Nat /\ size < INT_MAX /\ k \in Nat /\ e.lowestAmt \in Nat
  BY <1>1, ShortQueues, QueueIds DEF Locals
<1>3. /\ enqueue'[c].task = e.task /\ enqueue'[c].i = k + 1
      /\ \/ /\ size < e.lowestAmt
            /\ enqueue'[c].lowestIdx = k /\ enqueue'[c].lowestAmt = size
         \/ /\ size >= e.lowestAmt
            /\ enqueue'[c].lowestIdx = e.lowestIdx
            /\ enqueue'[c].lowestAmt = e.lowestAmt
  <2> HIDE DEF size, k
  <2>1. CASE size < e.lowestAmt
    BY <1>1, <2>1 DEF Locals
  <2>2. CASE ~(size < e.lowestAmt)
    <3>1. size >= e.lowestAmt
      BY <1>2, <2>2
    <3> QED
      BY <1>1, <2>2, <3>1 DEF Locals
  <2> QED
    BY <2>1, <2>2
<1>4. \A b \in Clients : b # c => enqueue'[b] = enqueue[b]
  BY <1>1
<1>5. Unstarted' <=> Unstarted
  BY <1>1 DEF Unstarted
<1>6. ScanInv'
  <2>1. \A b \in Clients : enqueue'[b].task = NoTask => enqueue'[b] = Outside
    BY <1>1, <1>3, <1>4 DEF LoadInv, ScanInv
  <2>2. ASSUME Unstarted, NEW p \in Queues, p < k + 1
        PROVE  enqueue'[c].lowestAmt <= Len(queue[p])
               /\ enqueue'[c].lowestAmt < INT_MAX
    <3>1. Len(queue[p]) \in Nat /\ p \in Nat
      BY ShortQueues, QueueIds
    <3>2. enqueue'[c].lowestAmt <= size /\ enqueue'[c].lowestAmt <= e.lowestAmt
          /\ enqueue'[c].lowestAmt \in Nat
      BY <1>2, <1>3
    <3>3. CASE p = k
      BY <1>2, <3>2, <3>3, IntMax
    <3>4. CASE p # k
      <4>1. p < k
        BY <1>2, <2>2, <3>1, <3>4
      <4>2. e.lowestAmt <= Len(queue[p])
        BY <1>1, <2>2, <4>1 DEF LoadInv, ScanInv
      <4> QED
        BY <1>2, <3>1, <3>2, <4>2, IntMax
    <3> QED
      BY <3>3, <3>4
  <2> QED
    BY <1>1, <1>3, <1>4, <1>5, <2>1, <2>2 DEF LoadInv, ScanInv
<1>7. DestroyInv'
  BY <1>1, <1>3, <1>4, <1>5 DEF LoadInv, DestroyInv
<1>8. ASSUME Unstarted, owner \notin {"destroy", "destroyed"},
             NEW p \in Queues, NEW q \in Queues, NEW v \in 0 .. INT_MAX - 1,
             Len(queue[p]) <= v
      PROVE  Len(queue[q]) + Cardinality(Aiming(q, v)') <= v + Cardinality(Clients)
  <2>1. Aiming(q, v) \subseteq Clients /\ Aiming(q, v)' \subseteq Clients
    BY DEF Aiming
  <2>2. Len(queue[q]) \in Nat
    BY ShortQueues
  <2>3. Len(queue[q]) + Cardinality(Aiming(q, v)) <= v + Cardinality(Clients)
    BY <1>8 DEF LoadInv, AimInv
  <2>4. CASE q = k /\ size <= v
    <3>1. Cardinality(Aiming(q, v)') \in Nat
          /\ Cardinality(Aiming(q, v)') <= Cardinality(Clients)
          /\ Cardinality(Clients) \in Nat
      BY <2>1, AimingFacts
    <3> QED
      BY <1>2, <2>2, <2>4, <3>1
  <2>5. CASE ~(q = k /\ size <= v)
    <3>1. c \in Aiming(q, v)' => c \in Aiming(q, v)
      <4> SUFFICES ASSUME enqueue'[c].lowestIdx = q, enqueue'[c].lowestAmt <= v
                   PROVE  e.lowestIdx = q /\ e.lowestAmt <= v
        BY <1>1 DEF Aiming
      <4> QED
        BY <1>3, <2>5
    <3>2. Aiming(q, v)' \subseteq Aiming(q, v)
      BY <1>4, <3>1 DEF Aiming
    <3>3. /\ Cardinality(Aiming(q, v)') \in Nat /\ Cardinality(Aiming(q, v)) \in Nat
          /\ Cardinality(Aiming(q, v)') <= Cardinality(Aiming(q, v))
      BY <2>1, <3>2, FewerAim
    <3>4. Cardinality(Clients) \in Nat
      BY AimingFacts
    <3> QED
      BY <2>2, <2>3, <3>3, <3>4
  <2> QED
    BY <2>4, <2>5
<1>9. AimInv'
  BY <1>1, <1>5, <1>8 DEF AimInv
<1> QED
  BY <1>6, <1>7, <1>9 DEF LoadInv

\* A client that pushes aimed at its queue, whatever it is that some queue does
\* not exceed: the queue grows by one, and those that aim at it are one less.
LEMMA PushLoad ==
  ASSUME EnoughInt, IInv, LoadInv, Unstarted, NEW c \in Clients, EnqueuePush(c)
  PROVE  LoadInv'
<1> DEFINE e == enqueue[c]
           k == e.lowestIdx
<1>1. /\ enqueue \in [Clients -> Locals] /\ e \in Locals
      /\ e.task \in Tasks /\ k \in Queues /\ e.lowestAmt \in Nat
      /\ e.task # NoTask /\ e.i = PoolSize + 1
      /\ queue \in [Queues -> Seq(Tasks)]
      /\ queue' = [queue EXCEPT ![k] = Append(@, e.task)]
      /\ enqueue' = [enqueue EXCEPT ![c] = Outside]
      /\ UNCHANGED <<worker, owner, at, resume>>
  BY DEF EnqueuePush, IInv, TypeOK, Locals
<1>2. enqueue'[c] = Outside /\ enqueue'[c].task = NoTask
  BY <1>1 DEF Outside
<1>3. \A b \in Clients : b # c => enqueue'[b] = enqueue[b]
  BY <1>1
<1>4. /\ Len(queue'[k]) = Len(queue[k]) + 1
      /\ \A q \in Queues : q # k => queue'[q] = queue[q]
      /\ \A q \in Queues : Len(queue[q]) \in Nat /\ Len(queue'[q]) \in Nat
      /\ \A q \in Queues : Len(queue[q]) <= Len(queue'[q])
  <2>1. Len(Append(queue[k], e.task)) = Len(queue[k]) + 1
    BY <1>1, PushFacts
  <2>2. \A q \in Queues : Len(queue[q]) \in Nat
    BY ShortQueues
  <2>3. /\ Len(queue'[k]) = Len(queue[k]) + 1
        /\ \A q \in Queues : q # k => queue'[q] = queue[q]
    BY <1>1, <2>1
  <2> QED
    BY <1>1, <2>2, <2>3
<1>5. Unstarted'
  BY <1>1 DEF Unstarted
<1>6. \A p \in Queues : e.lowestAmt <= Len(queue[p])
  <2>1. \A p \in Queues : p < e.i
    BY <1>1, QueueIds
  <2> QED
    BY <1>1, <2>1 DEF LoadInv, ScanInv
<1>7. owner \notin {"destroy", "destroyed"}
  BY <1>1 DEF LoadInv, DestroyInv
<1>8. ScanInv'
  <2>1. \A b \in Clients : enqueue'[b].task = NoTask => enqueue'[b] = Outside
    BY <1>2, <1>3 DEF LoadInv, ScanInv
  <2>2. ASSUME NEW b \in Clients, enqueue'[b].task # NoTask,
               NEW p \in Queues, p < enqueue'[b].i
        PROVE  enqueue'[b].lowestAmt <= Len(queue'[p])
               /\ enqueue'[b].lowestAmt < INT_MAX
    <3>1. b # c /\ enqueue'[b] = enqueue[b] /\ enqueue[b].lowestAmt \in Nat
      BY <1>1, <1>2, <1>3, <2>2 DEF Locals
    <3>2. enqueue[b].lowestAmt <= Len(queue[p]) /\ enqueue[b].lowestAmt < INT_MAX
      BY <2>2, <3>1 DEF LoadInv, ScanInv
    <3>3. Len(queue[p]) \in Nat /\ Len(queue'[p]) \in Nat
          /\ Len(queue[p]) <= Len(queue'[p])
      BY <1>4
    <3> QED
      BY <3>1, <3>2, <3>3
  <2> QED
    BY <2>1, <2>2 DEF ScanInv
<1>9. DestroyInv'
  BY <1>1, <1>2, <1>3, <1>7 DEF LoadInv, DestroyInv
<1>10. ASSUME NEW p \in Queues, NEW q \in Queues, NEW v \in 0 .. INT_MAX - 1,
              Len(queue'[p]) <= v
       PROVE  Len(queue'[q]) + Cardinality(Aiming(q, v)')
                <= v + Cardinality(Clients)
  <2>1. Len(queue[p]) <= v
    BY <1>4, <1>10
  <2>2. Len(queue[q]) + Cardinality(Aiming(q, v)) <= v + Cardinality(Clients)
    BY <1>7, <2>1 DEF LoadInv, AimInv
  <2>3. Aiming(q, v) \subseteq Clients /\ IsFiniteSet(Aiming(q, v))
        /\ Cardinality(Aiming(q, v)) \in Nat
    BY AimingFacts DEF Aiming
  <2>4. Aiming(q, v)' = Aiming(q, v) \ {c}
    BY <1>2, <1>3 DEF Aiming
  <2>5. CASE q = k
    <3>1. e.lowestAmt <= v
      BY <1>1, <1>4, <1>6, <2>1
    <3>2. c \in Aiming(q, v)
      BY <1>1, <2>5, <3>1 DEF Aiming
    <3>3. Cardinality(Aiming(q, v)') = Cardinality(Aiming(q, v)) - 1
      BY <2>3, <2>4, <3>2, FS_RemoveElement
    <3>4. Len(queue'[q]) = Len(queue[q]) + 1 /\ Len(queue[q]) \in Nat
      BY <1>4, <2>5
    <3> QED
      BY <2>2, <2>3, <3>3, <3>4
  <2>6. CASE q # k
    <3>1. Aiming(q, v)' = Aiming(q, v)
      BY <2>4, <2>6 DEF Aiming
    <3> QED
      BY <1>4, <2>2, <2>6, <3>1
  <2> QED
    BY <2>5, <2>6
<1>11. AimInv'
  BY <1>10 DEF AimInv
<1> QED
  BY <1>8, <1>9, <1>11 DEF LoadInv

\* The owner: the destructor empties one queue after the other.
LEMMA OwnerLoad ==
  ASSUME EnoughInt, IInv, LoadInv, Unstarted, Unstarted',
         Stop \/ Destroy \/ DestroyTask \/ DestroyQueue
  PROVE  LoadInv'
<1>1. /\ StopInv /\ at \in Queues /\ queue \in [Queues -> Seq(Tasks)]
      /\ enqueue' = enqueue /\ 1 \in Queues
  BY QueueIds DEF IInv, TypeOK, Stop, Destroy, StopCall, DestroyTask, DestroyQueue
<1>2. ScanInv
  BY DEF LoadInv
<1>3. CASE Stop \/ Destroy
  <2>1. /\ UNCHANGED <<queue, enqueue>> /\ at' = 1 /\ owner = "idle"
        /\ resume' = "destroy" => \A c \in Clients : enqueue[c].task = NoTask
        /\ owner' = resume' /\ resume' \in {"idle", "destroy"}
    BY <1>1, <1>3 DEF Stop, Destroy, StopCall, StopInv, Unstarted
  <2>2. ScanInv'
    BY <1>2, <2>1 DEF ScanInv
  <2>3. \A q \in Queues : ~(q < 1)
    BY QueueIds
  <2>4. DestroyInv'
    BY <2>1, <2>3 DEF DestroyInv
  <2>5. \A q \in Queues, v \in 0 .. INT_MAX - 1 : Aiming(q, v)' = Aiming(q, v)
    BY <2>1 DEF Aiming
  <2>6. AimInv'
    BY <2>1, <2>5 DEF LoadInv, AimInv
  <2> QED
    BY <2>2, <2>4, <2>6 DEF LoadInv
<1>4. CASE DestroyTask \/ DestroyQueue
  <2>1. /\ owner = "destroy" /\ resume' = resume
        /\ owner' \in {"destroy", "destroyed"}
    BY <1>4 DEF DestroyTask, DestroyQueue
  <2>2. \A c \in Clients : enqueue[c].task = NoTask
    BY <2>1 DEF LoadInv, DestroyInv
  <2>3. ScanInv'
    BY <1>1, <1>2, <2>2 DEF ScanInv
  <2>4. \A q \in Queues : q < at => queue[q] = <<>>
    BY <2>1 DEF LoadInv, DestroyInv
  <2>5. ASSUME NEW q \in Queues, owner' = "destroy" => q < at'
        PROVE  queue'[q] = <<>>
    <3>1. CASE DestroyTask
      <4>1. at' = at /\ owner' = "destroy" /\ queue' = [queue EXCEPT ![at] = Tail(@)]
        BY <2>1, <3>1 DEF DestroyTask
      <4>2. q < at /\ q # at
        BY <1>1, <2>5, <4>1, QueueIds
      <4> QED
        BY <1>1, <2>4, <4>1, <4>2
    <3>2. CASE DestroyQueue
      <4>1. /\ queue' = queue /\ queue[at] = <<>>
            /\ owner' = IF at = PoolSize THEN "destroyed" ELSE "destroy"
            /\ at' = IF at = PoolSize THEN 1 ELSE at + 1
        BY <3>2 DEF DestroyQueue
      <4>2. q < at \/ q = at
        BY <1>1, <2>5, <4>1, QueueIds
      <4> QED
        BY <2>4, <4>1, <4>2
    <3> QED
      BY <1>4, <3>1, <3>2
  <2>6. DestroyInv'
    BY <1>1, <2>1, <2>2, <2>5 DEF LoadInv, DestroyInv
  <2>7. AimInv'
    BY <2>1 DEF AimInv
  <2> QED
    BY <2>3, <2>6, <2>7 DEF LoadInv
<1> QED
  BY <1>3, <1>4

\* Once the pool is started the invariant says little, and that cannot change.
LEMMA StartedLoad ==
  ASSUME EnoughInt, IInv, LoadInv, [Next]_vars, ~Unstarted' PROVE LoadInv'
<1>1. \A c \in Clients : enqueue[c].task = NoTask => enqueue[c] = Outside
  BY DEF LoadInv, ScanInv
<1>2. /\ enqueue \in [Clients -> Locals] /\ owner \in OwnerStates
      /\ resume \in {"idle", "destroy"} /\ StopInv /\ 1 \in Queues
  BY QueueIds DEF IInv, TypeOK
<1>3. /\ resume = "destroy" => \A c \in Clients : enqueue[c].task = NoTask
      /\ owner \in {"destroy", "destroyed"} => resume = "destroy"
  BY DEF LoadInv, DestroyInv
<1> DEFINE Kept ==
      /\ \A c \in Clients : enqueue'[c].task = NoTask => enqueue'[c] = Outside
      /\ resume' = "destroy" => \A c \in Clients : enqueue'[c].task = NoTask
      /\ owner' \in {"destroy", "destroyed"} => resume' = "destroy"
<1>4. Kept => LoadInv'
  BY DEF LoadInv, ScanInv, DestroyInv, AimInv
<1>5. ASSUME NEW c \in Clients, NEW t \in Tasks, EnqueueCall(c, t) PROVE LoadInv'
  BY <1>5, CallLoad
<1>6. ASSUME NEW c \in Clients, EnqueueScan(c) PROVE LoadInv'
  BY <1>6, ScanLoad
<1>7. ASSUME NEW c \in Clients, EnqueuePush(c) PROVE LoadInv'
  <2>1. /\ enqueue' = [enqueue EXCEPT ![c] = Outside] /\ UNCHANGED <<owner, resume>>
        /\ enqueue[c].task # NoTask
    BY <1>7 DEF EnqueuePush
  <2>2. Kept
    BY <1>1, <1>2, <1>3, <2>1
  <2> QED
    BY <1>4, <2>2
<1>8. CASE UNCHANGED <<enqueue, owner, resume>>
  BY <1>1, <1>3, <1>4, <1>8
<1>9. ASSUME NEW q \in Queues, WorkerStep(q) PROVE LoadInv'
  BY <1>8, <1>9, WorkerFrame
<1>10. CASE Start
  BY <1>8, <1>10 DEF Start
<1>11. CASE Stop \/ Destroy
  <2>1. /\ UNCHANGED enqueue
        /\ resume' = "destroy" => \A c \in Clients : enqueue[c].task = NoTask
        /\ owner' \in {resume', "flag"} /\ resume' \in {"idle", "destroy"}
    BY <1>11 DEF Stop, Destroy, StopCall
  <2>2. Kept
    BY <1>1, <2>1
  <2> QED
    BY <1>4, <2>2
<1>12. CASE StopFlag \/ StopPost \/ StopJoin
  <2>1. UNCHANGED <<enqueue, resume>> /\ owner' \in {resume, "flag", "post", "join"}
    BY <1>12 DEF StopFlag, StopPost, StopJoin
  <2>2. Kept
    BY <1>1, <1>2, <1>3, <2>1
  <2> QED
    BY <1>4, <2>2
<1>13. CASE DrainCall \/ DrainWait \/ DrainTest
  <2>1. /\ UNCHANGED <<enqueue, resume>>
        /\ owner' \in {"idle", "drainWait", "drainTest"}
    BY <1>13 DEF DrainCall, DrainWait, DrainTest
  <2>2. Kept
    BY <1>1, <1>3, <2>1
  <2> QED
    BY <1>4, <2>2
<1>14. CASE DestroyTask \/ DestroyQueue
  <2>1. UNCHANGED <<enqueue, resume>> /\ owner = "destroy"
    BY <1>14 DEF DestroyTask, DestroyQueue
  <2>2. Kept
    BY <1>1, <1>3, <2>1
  <2> QED
    BY <1>4, <2>2
<1>15. CASE Terminated \/ UNCHANGED vars
  BY <1>8, <1>15 DEF Terminated, vars
<1> QED
  BY <1>5, <1>6, <1>7, <1>9, <1>10, <1>11, <1>12, <1>13, <1>14, <1>15
     DEF Next, EnqueueStep, OwnerCall, OwnerStep

LEMMA NextLoad == ASSUME EnoughInt PROVE IInv /\ LoadInv /\ [Next]_vars => LoadInv'
<1> SUFFICES ASSUME IInv, LoadInv, [Next]_vars PROVE LoadInv'
  OBVIOUS
<1>1. CASE Unstarted'
  <2>1. Unstarted
    BY <1>1, UnstartedSteps
  <2>2. CASE UNCHANGED vars
    <3>1. \A q \in Queues, v \in 0 .. INT_MAX - 1 : Aiming(q, v)' = Aiming(q, v)
      BY <2>2 DEF Aiming, vars
    <3>2. ScanInv' /\ DestroyInv' /\ AimInv'
      BY <1>1, <2>1, <2>2, <3>1 DEF LoadInv, ScanInv, DestroyInv, AimInv, vars
    <3> QED
      BY <3>2 DEF LoadInv
  <2> QED
    BY <1>1, <2>1, <2>2, UnstartedSteps, CallLoad, ScanLoad, PushLoad, OwnerLoad
       DEF EnqueueStep
<1> QED
  BY <1>1, StartedLoad

-----------------------------------------------------------------------------
\* As long as the pool is not started, its queues differ by no more tasks than
\* there are clients, whatever the clients read while others push.
THEOREM StaysBalanced == ASSUME EnoughInt PROVE Spec => []LoadBalanced
<1>1. Init => LoadInv
  BY InitLoad
<1>2. IInv /\ LoadInv /\ [Next]_vars => LoadInv'
  BY NextLoad
<1>3. ASSUME IInv, LoadInv, Unstarted, owner # "destroy",
             NEW p \in Queues, NEW q \in Queues
      PROVE  Len(queue[p]) - Len(queue[q]) <= Cardinality(Clients)
  <2>1. /\ Len(queue[p]) \in Nat /\ Len(queue[q]) \in 0 .. INT_MAX - 1
    BY <1>3, ShortQueues, IntMax
  <2>2. Cardinality(Clients) \in Nat
    BY AimingFacts
  <2>3. CASE owner = "destroyed"
    <3>1. queue[p] = <<>> /\ queue[q] = <<>>
      BY <1>3, <2>3 DEF LoadInv, DestroyInv
    <3> QED
      BY <2>2, <3>1
  <2>4. CASE owner # "destroyed"
    <3>1. Len(queue[p]) + Cardinality(Aiming(p, Len(queue[q])))
            <= Len(queue[q]) + Cardinality(Clients)
      BY <1>3, <2>1, <2>4 DEF LoadInv, AimInv
    <3>2. Cardinality(Aiming(p, Len(queue[q]))) \in Nat
      BY AimingFacts DEF Aiming
    <3>3. Len(queue[q]) \in Nat
      BY <2>1, IntMax
    <3>4. ASSUME NEW m \in Nat, NEW n \in Nat, NEW k \in Nat, NEW b \in Nat,
                 m + k <= n + b
          PROVE  m - n <= b
      BY <3>4
    <3> QED
      BY <2>1, <2>2, <3>1, <3>2, <3>3, <3>4
  <2> QED
    BY <2>3, <2>4
<1>4. IInv /\ LoadInv => LoadBalanced
  BY <1>3 DEF LoadBalanced, Unstarted
<1> QED
  BY <1>1, <1>2, <1>4, Invariance, PTL DEF Spec
=============================================================================
