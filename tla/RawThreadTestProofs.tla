------------------------ MODULE RawThreadTestProofs ------------------------
(***************************************************************************)
(* Proofs about RawThreadTest, for every number of elements and threads.   *)
(* The arithmetic behind them: what the threads still to be created are to *)
(* execute, made * iter_per_thread elements less than at the beginning, is *)
(* always what lies between start and the end of numbers.                  *)
(***************************************************************************)
EXTENDS RawThreadTest, TLAPS

LEMMA Distribute ==
  ASSUME NEW k \in Int, NEW q \in Int PROVE (k - 1) * q = k * q - q
OBVIOUS

LEMMA AtLeastOnce ==
  ASSUME NEW k \in Nat, k >= 1, NEW q \in Nat PROVE k * q >= q
OBVIOUS

LEMMA NoProduct == ASSUME NEW k \in Nat, NEW q \in Nat PROVE k * q \in Nat
OBVIOUS

\* What the constructor of the slices relies on.
LEMMA Division ==
  /\ iter_per_thread \in 0 .. NumElements
  /\ extra_load \in 0 .. NumElements
  /\ extra_load + (NumThreads - 1) * iter_per_thread = NumElements
  /\ NumThreads = 1 => iter_per_thread = NumElements /\ extra_load = NumElements
<1> DEFINE q == iter_per_thread
<1>1. q \in Nat /\ NumThreads * q <= NumElements
  BY RawAssumption DEF iter_per_thread
<1>2. (NumThreads - 1) * q = NumThreads * q - q
  BY <1>1, RawAssumption, Distribute
<1>3. NumThreads * q >= q
  BY <1>1, RawAssumption, AtLeastOnce
<1>4. (NumThreads - 1) * q \in Nat
  BY <1>1, RawAssumption, NoProduct
<1>5. extra_load = NumElements - (NumThreads - 1) * q
  BY <1>1, RawAssumption DEF extra_load
<1>6. NumThreads * q \in Nat
  BY <1>1, RawAssumption, NoProduct
<1>7. NumThreads = 1 => q = NumElements
  BY RawAssumption DEF iter_per_thread
<1> HIDE DEF q
<1>8. extra_load \in 0 .. NumElements /\ q \in 0 .. NumElements
  BY <1>1, <1>2, <1>3, <1>4, <1>5, <1>6, RawAssumption
<1>9. extra_load + (NumThreads - 1) * q = NumElements
  BY <1>4, <1>5, RawAssumption
<1>10. NumThreads = 1 => extra_load = NumElements
  <2> SUFFICES ASSUME NumThreads = 1 PROVE extra_load = NumElements
    OBVIOUS
  <2>1. (NumThreads - 1) * q = 0
    BY <1>1
  <2> QED
    BY <2>1, <1>5, RawAssumption
<1> QED
  BY <1>7, <1>8, <1>9, <1>10 DEF q

-----------------------------------------------------------------------------
(* The inductive invariant.                                                *)

Last == NumThreads - 1

\* The creating loop: the elements after start are those of the threads that
\* are still to be created.
Cutting ==
  /\ creator = "call" => made = 0
  /\ creator # "call" =>
       made >= 1 /\ start + (NumThreads - made) * iter_per_thread = NumElements
  /\ creator = "write" => made < NumThreads /\ data.start = start
  /\ \A w \in RawWorkers : raw[w] # "none" => w < made

\* However torn, what a thread may read is inside of numbers.
Bounded ==
  /\ leftover.start = 0 /\ leftover.end <= NumElements
  /\ data.start >= 0 /\ data.end <= NumElements
  /\ \A w \in RawWorkers : index[w] >= 0

\* The last thread is created last, so that nothing overwrites its slice, and it
\* has executed what its loop index has passed.
LastSlice ==
  /\ raw[Last] # "none" =>
       /\ made = NumThreads /\ creator # "write"
       /\ Work(Last).start = NumElements - iter_per_thread
       /\ Work(Last).end = NumElements
  /\ raw[Last] \in {"loop", "exited"} =>
       \A e \in NumElements - iter_per_thread .. NumElements - 1 :
         e < index[Last] => executed[e] > 0
  /\ raw[Last] = "exited" => index[Last] >= NumElements
  /\ creator = "returned" => raw[Last] = "exited"

RawInv == RawTypeOK /\ Cutting /\ Bounded /\ LastSlice

LEMMA LastFacts == Last \in RawWorkers /\ NumThreads \in Nat /\ NumElements \in Nat
BY RawAssumption DEF Last, RawWorkers

LEMMA RawInitInv == RawInit => RawInv
<1> SUFFICES ASSUME RawInit PROVE RawInv
  OBVIOUS
<1>1. RawTypeOK
  BY RawAssumption DEF RawInit, RawTypeOK, WorkerData
<1>2. Cutting /\ Bounded
  BY LastFacts DEF RawInit, Cutting, Bounded
<1>3. LastSlice
  BY LastFacts DEF RawInit, LastSlice
<1> QED
  BY <1>1, <1>2, <1>3 DEF RawInv

LEMMA CreateFirstKeeps == ASSUME RawInv, CreateFirst PROVE RawInv'
<1>1. /\ start' = extra_load /\ made' = 1 /\ creator' = "create"
      /\ leftover' = [start |-> 0, end |-> extra_load]
      /\ raw' = [raw EXCEPT ![0] = "begin"]
      /\ UNCHANGED <<data, index, executed>> /\ creator = "call" /\ made = 0
  BY DEF CreateFirst, RawInv, Cutting
<1>2. RawTypeOK'
  BY <1>1, Division, RawAssumption
     DEF RawInv, RawTypeOK, WorkerData, RawWorkers
<1>3. \A w \in RawWorkers : raw[w] = "none"
  BY <1>1 DEF RawInv, Cutting, RawWorkers
<1>4. Cutting'
  BY <1>1, <1>3, Division DEF RawInv, RawTypeOK, Cutting, RawWorkers
<1>5. Bounded'
  BY <1>1, Division, RawAssumption DEF RawInv, Bounded
<1>6. LastSlice'
  <2>1. CASE NumThreads = 1
    <3>1. Work(Last)' = leftover' /\ Last = 0
      BY <2>1 DEF Work, Last
    <3>2. raw'[Last] = "begin"
      BY <1>1, <3>1, LastFacts DEF RawInv, RawTypeOK
    <3> QED
      BY <1>1, <2>1, <3>1, <3>2, Division, LastFacts DEF LastSlice
  <2>2. CASE NumThreads # 1
    <3>1. raw'[Last] = "none"
      BY <1>1, <1>3, <2>2, LastFacts DEF Last, RawInv, RawTypeOK
    <3> QED
      BY <1>1, <3>1 DEF LastSlice
  <2> QED
    BY <2>1, <2>2
<1> QED
  BY <1>2, <1>4, <1>5, <1>6 DEF RawInv

LEMMA WriteStartKeeps == ASSUME RawInv, WriteStart PROVE RawInv'
<1>1. /\ creator = "create" /\ made < NumThreads /\ creator' = "write"
      /\ data' = [data EXCEPT !.start = start]
      /\ UNCHANGED <<made, start, leftover, raw, index, executed>>
  BY DEF WriteStart
<1>2. RawTypeOK' /\ data'.start = start /\ data'.end = data.end /\ start >= 0
  BY <1>1 DEF RawInv, RawTypeOK, WorkerData
<1>3. Cutting'
  BY <1>1, <1>2 DEF RawInv, Cutting
<1>4. Bounded'
  BY <1>1, <1>2 DEF RawInv, Bounded
<1>5. raw[Last] = "none"
  BY <1>1, LastFacts DEF RawInv, LastSlice, RawTypeOK
<1>6. LastSlice'
  BY <1>1, <1>5 DEF LastSlice
<1> QED
  BY <1>2, <1>3, <1>4, <1>6 DEF RawInv

LEMMA CreateNextKeeps == ASSUME RawInv, CreateNext PROVE RawInv'
<1> DEFINE q == iter_per_thread
           rest == (NumThreads - made) * q
<1>1. /\ creator = "write" /\ creator' = "create" /\ made' = made + 1
      /\ data' = [data EXCEPT !.end = start + q]
      /\ raw' = [raw EXCEPT ![made] = "begin"]
      /\ start' = start + q
      /\ UNCHANGED <<leftover, index, executed>>
  BY DEF CreateNext
<1>2. /\ made \in Nat /\ made >= 1 /\ made < NumThreads /\ data.start = start
      /\ start + rest = NumElements /\ start \in Nat
  BY <1>1, LastFacts DEF RawInv, RawTypeOK, Cutting
<1>3. q \in Nat /\ NumThreads \in Nat /\ NumElements \in Nat
  BY Division, LastFacts
<1>4. rest >= q /\ rest \in Nat
  BY <1>2, <1>3, AtLeastOnce, NoProduct
<1>5. (NumThreads - (made + 1)) * q = rest - q
  <2>1. NumThreads - (made + 1) = (NumThreads - made) - 1
    BY <1>2, <1>3
  <2> QED
    BY <1>2, <1>3, <2>1, Distribute
<1> HIDE DEF q, rest
<1>6. start + q \in 0 .. NumElements
  BY <1>2, <1>3, <1>4
<1>7. /\ data'.start = start /\ data'.end = start + q /\ data' \in WorkerData
      /\ start' \in 0 .. NumElements /\ made' \in 0 .. NumThreads
  BY <1>1, <1>2, <1>3, <1>6 DEF RawInv, RawTypeOK, WorkerData
<1>8. RawTypeOK'
  BY <1>1, <1>7 DEF RawInv, RawTypeOK
<1>9. start' + (NumThreads - made') * q = NumElements
  BY <1>1, <1>2, <1>3, <1>4, <1>5
<1>10. \A w \in RawWorkers : raw'[w] # "none" => w < made'
  BY <1>1, <1>2, LastFacts DEF RawInv, RawTypeOK, Cutting, RawWorkers
<1>11. Cutting'
  BY <1>1, <1>2, <1>9, <1>10 DEF Cutting, q
<1>12. Bounded'
  BY <1>1, <1>2, <1>3, <1>6, <1>7 DEF RawInv, Bounded
<1>13. LastSlice'
  <2>1. CASE made = Last
    <3>1. made' = NumThreads /\ rest = q
      BY <1>1, <1>2, <1>3, <2>1 DEF Last, rest
    <3>2. Work(Last)' = data'
      BY <1>2, <2>1 DEF Work
    <3>3. /\ Work(Last)'.start = NumElements - q
          /\ Work(Last)'.end = NumElements
      BY <1>2, <1>3, <1>7, <3>1, <3>2
    <3>4. raw'[Last] = "begin"
      BY <1>1, <2>1, LastFacts DEF RawInv, RawTypeOK
    <3> QED
      BY <1>1, <3>1, <3>3, <3>4 DEF LastSlice, q
  <2>2. CASE made # Last
    <3>1. raw[Last] = "none"
      BY <1>2, <1>3, LastFacts DEF RawInv, Cutting, Last, LastSlice
    <3>2. raw'[Last] = "none"
      BY <1>1, <2>2, <3>1, LastFacts DEF RawInv, RawTypeOK
    <3> QED
      BY <1>1, <3>2 DEF LastSlice
  <2> QED
    BY <2>1, <2>2
<1> QED
  BY <1>8, <1>11, <1>12, <1>13 DEF RawInv

\* A thread reads its slice from a WorkerData of its own, or from the one the
\* others share.
LEMMA WorkFacts ==
  ASSUME RawInv, NEW w \in RawWorkers
  PROVE  /\ Work(w) \in WorkerData
         /\ Work(w).start \in Nat /\ Work(w).end \in Int
         /\ Work(w).end <= NumElements
BY DEF RawInv, RawTypeOK, Bounded, Work, WorkerData

LEMMA RawBeginKeeps ==
  ASSUME RawInv, NEW w \in RawWorkers, RawBegin(w) PROVE RawInv'
<1>1. /\ raw[w] = "begin" /\ index' = [index EXCEPT ![w] = Work(w).start]
      /\ raw' = [raw EXCEPT ![w] = "loop"]
      /\ UNCHANGED <<creator, made, start, leftover, data, executed>>
  BY DEF RawBegin
<1>2. Work(w).start \in Nat
  BY WorkFacts
<1>3. RawTypeOK'
  BY <1>1, <1>2 DEF RawInv, RawTypeOK
<1>4. Cutting'
  BY <1>1 DEF RawInv, RawTypeOK, Cutting
<1>5. Bounded'
  BY <1>1, <1>2 DEF RawInv, RawTypeOK, Bounded
<1>6. Work(Last)' = Work(Last)
  BY <1>1 DEF Work
<1>7. LastSlice'
  <2>1. CASE w = Last
    <3>1. index'[Last] = NumElements - iter_per_thread /\ raw'[Last] = "loop"
      BY <1>1, <2>1 DEF RawInv, RawTypeOK, LastSlice
    <3>2. creator # "returned"
      BY <1>1, <2>1 DEF RawInv, LastSlice
    <3>3. \A e \in NumElements - iter_per_thread .. NumElements - 1 :
            ~(e < index'[Last])
      BY <3>1, Division, LastFacts
    <3> QED
      BY <1>1, <1>6, <2>1, <3>1, <3>2, <3>3 DEF RawInv, LastSlice
  <2>2. CASE w # Last
    <3>1. raw'[Last] = raw[Last] /\ index'[Last] = index[Last]
      BY <1>1, <2>2, LastFacts DEF RawInv, RawTypeOK
    <3> QED
      BY <1>1, <1>6, <3>1 DEF RawInv, LastSlice
  <2> QED
    BY <2>1, <2>2
<1> QED
  BY <1>3, <1>4, <1>5, <1>7 DEF RawInv

LEMMA RawTurnKeeps ==
  ASSUME RawInv, NEW w \in RawWorkers, RawTurn(w) PROVE RawInv'
<1>1. /\ raw[w] = "loop" /\ index[w] < Work(w).end
      /\ executed' = [executed EXCEPT ![index[w]] = @ + 1]
      /\ index' = [index EXCEPT ![w] = @ + 1]
      /\ UNCHANGED <<creator, made, start, leftover, data, raw>>
  BY DEF RawTurn
<1>2. index[w] \in Nat /\ index[w] \in Elements
  BY <1>1, WorkFacts, LastFacts DEF RawInv, RawTypeOK, Bounded, Elements
<1>3. /\ executed \in [Elements -> Nat] /\ executed' \in [Elements -> Nat]
      /\ executed'[index[w]] > 0
      /\ \A e \in Elements : executed'[e] >= executed[e]
  BY <1>1, <1>2 DEF RawInv, RawTypeOK
<1>4. RawTypeOK'
  BY <1>1, <1>2, <1>3 DEF RawInv, RawTypeOK
<1>5. Cutting'
  BY <1>1 DEF RawInv, Cutting
<1>6. Bounded'
  BY <1>1, <1>2 DEF RawInv, RawTypeOK, Bounded
<1>7. Work(Last)' = Work(Last)
  BY <1>1 DEF Work
<1>8. ASSUME NEW e \in NumElements - iter_per_thread .. NumElements - 1
      PROVE  /\ e \in Elements
             /\ executed[e] > 0 => executed'[e] > 0
  <2>1. e \in Elements
    BY Division, LastFacts DEF Elements
  <2>2. executed[e] \in Nat /\ executed'[e] \in Nat /\ executed'[e] >= executed[e]
    BY <1>3, <2>1
  <2> QED
    BY <2>1, <2>2
<1>9. LastSlice'
  <2>1. CASE w = Last
    <3>1. index'[Last] = index[Last] + 1 /\ raw'[Last] = "loop"
      BY <1>1, <2>1 DEF RawInv, RawTypeOK
    <3>2. ASSUME NEW e \in NumElements - iter_per_thread .. NumElements - 1,
                 e < index'[Last]
          PROVE  executed'[e] > 0
      <4>1. CASE e = index[Last]
        BY <1>3, <2>1, <4>1
      <4>2. CASE e # index[Last]
        <5>1. e < index[Last]
          BY <1>2, <2>1, <3>1, <3>2, <4>2, Division, LastFacts
        <5> QED
          BY <1>1, <1>8, <2>1, <5>1 DEF RawInv, LastSlice
      <4> QED
        BY <4>1, <4>2
    <3>3. creator # "returned"
      BY <1>1, <2>1 DEF RawInv, LastSlice
    <3> QED
      BY <1>1, <1>7, <3>1, <3>2, <3>3 DEF RawInv, LastSlice
  <2>2. CASE w # Last
    <3>1. index'[Last] = index[Last]
      BY <1>1, <2>2, LastFacts DEF RawInv, RawTypeOK
    <3> QED
      BY <1>1, <1>7, <1>8, <3>1 DEF RawInv, LastSlice
  <2> QED
    BY <2>1, <2>2
<1> QED
  BY <1>4, <1>5, <1>6, <1>9 DEF RawInv

LEMMA RawEndKeeps ==
  ASSUME RawInv, NEW w \in RawWorkers, RawEnd(w) PROVE RawInv'
<1>1. /\ raw[w] = "loop" /\ index[w] >= Work(w).end
      /\ raw' = [raw EXCEPT ![w] = "exited"]
      /\ UNCHANGED <<creator, made, start, leftover, data, index, executed>>
  BY DEF RawEnd
<1>2. RawTypeOK'
  BY <1>1 DEF RawInv, RawTypeOK
<1>3. Cutting' /\ Bounded'
  BY <1>1 DEF RawInv, RawTypeOK, Cutting, Bounded
<1>4. Work(Last)' = Work(Last)
  BY <1>1 DEF Work
<1>5. LastSlice'
  <2>1. CASE w = Last
    <3>1. index[Last] >= NumElements /\ raw'[Last] = "exited"
      BY <1>1, <2>1 DEF RawInv, RawTypeOK, LastSlice
    <3> QED
      BY <1>1, <1>4, <2>1, <3>1 DEF RawInv, LastSlice
  <2>2. CASE w # Last
    <3>1. raw'[Last] = raw[Last]
      BY <1>1, <2>2, LastFacts DEF RawInv, RawTypeOK
    <3> QED
      BY <1>1, <1>4, <3>1 DEF RawInv, LastSlice
  <2> QED
    BY <2>1, <2>2
<1> QED
  BY <1>2, <1>3, <1>5 DEF RawInv

LEMMA RawJoinKeeps == ASSUME RawInv, RawJoin PROVE RawInv'
<1>1. /\ creator = "create" /\ made = NumThreads /\ creator' = "returned"
      /\ raw[Last] = "exited"
      /\ UNCHANGED <<made, start, leftover, data, raw, index, executed>>
  BY LastFacts DEF RawJoin
<1>2. Work(Last)' = Work(Last)
  BY <1>1 DEF Work
<1> QED
  BY <1>1, <1>2 DEF RawInv, RawTypeOK, Cutting, Bounded, LastSlice

LEMMA RawNextInv == RawInv /\ [RawNext]_rawVars => RawInv'
<1> SUFFICES ASSUME RawInv, [RawNext]_rawVars PROVE RawInv'
  OBVIOUS
<1>1. CASE Creator
  BY <1>1, CreateFirstKeeps, WriteStartKeeps, CreateNextKeeps, RawJoinKeeps
     DEF Creator
<1>2. CASE \E w \in RawWorkers : RawWorker(w)
  BY <1>2, RawBeginKeeps, RawTurnKeeps, RawEndKeeps DEF RawWorker
<1>3. CASE RawReturned \/ UNCHANGED rawVars
  <2>1. UNCHANGED rawVars
    BY <1>3 DEF RawReturned
  <2>2. Work(Last)' = Work(Last)
    BY <2>1 DEF Work, rawVars
  <2> QED
    BY <2>1, <2>2 DEF rawVars, RawInv, RawTypeOK, Cutting, Bounded, LastSlice
<1> QED
  BY <1>1, <1>2, <1>3 DEF RawNext

\* The invariant holds in every reachable state, for every number of elements
\* and of threads.
THEOREM RawInvariance == RawSpec => []RawInv
<1>1. RawInit => RawInv
  BY RawInitInv
<1>2. RawInv /\ [RawNext]_rawVars => RawInv'
  BY RawNextInv
<1> QED
  BY <1>1, <1>2, PTL DEF RawSpec

-----------------------------------------------------------------------------
(* The theorems.                                                           *)

\* The type invariant: start never passes the end of numbers.
THEOREM RawTypeCorrect == RawSpec => []RawTypeOK
<1>1. RawInv => RawTypeOK
  BY DEF RawInv
<1> QED
  BY <1>1, RawInvariance, PTL

\* What the invariant says of the bounds of each thread keeps it inside of them.
LEMMA InvInside == RawInv => RawInside
<1>1. ASSUME RawInv, NEW w \in RawWorkers, raw[w] = "loop", index[w] < Work(w).end
      PROVE  index[w] \in Elements
  BY <1>1, WorkFacts, LastFacts DEF RawInv, RawTypeOK, Bounded, Elements
<1> QED
  BY <1>1 DEF RawInside

\* What it says of the last thread leaves nothing of the last slice out.
LEMMA InvLastSlice == RawInv => LastSliceCovered
<1>1. ASSUME RawInv, creator = "returned",
             NEW e \in NumElements - iter_per_thread .. NumElements - 1
      PROVE  executed[e] > 0
  <2>1. raw[Last] = "exited" /\ index[Last] >= NumElements
    BY <1>1 DEF RawInv, LastSlice
  <2>2. e < index[Last]
    BY <1>1, <2>1, Division, LastFacts DEF RawInv, RawTypeOK
  <2> QED
    BY <1>1, <2>1, <2>2 DEF RawInv, LastSlice
<1> QED
  BY <1>1 DEF LastSliceCovered

\* However the threads and the creating loop interleave, no thread reads numbers
\* outside of its bounds.
THEOREM TornButInside == RawSpec => []RawInside
BY InvInside, RawInvariance, PTL

\* When runRawThreadTest returns, the last slice has been executed.
THEOREM LastSliceSafe == RawSpec => []LastSliceCovered
BY InvLastSlice, RawInvariance, PTL
=============================================================================
