--------------------------- MODULE RawThreadTest ---------------------------
(***************************************************************************)
(* runRawThreadTest (cortex.t.cpp): the comparison the thread pools are    *)
(* measured against.  The creating thread cuts the numbers into one slice  *)
(* per thread and hands each thread the address of a WorkerData.  Thread 0 *)
(* has one of its own.  The others are all given the address of the        *)
(* variable data, which the loop that creates them overwrites at every     *)
(* turn: a thread reads it when it gets to run, field by field.            *)
(*                                                                         *)
(* The build is unoptimised (g++ -g), so data has one place in the frame   *)
(* of runRawThreadTest and keeps its last contents after the loop; a write *)
(* or a read of one of its fields is a step.                               *)
(***************************************************************************)
EXTENDS Integers, FiniteSets

CONSTANTS
  NumElements,  \* numbers.size()
  NumThreads    \* the argument numThreads

\* With no thread the code divides by zero.
ASSUME RawAssumption == NumElements \in Nat /\ NumThreads \in Nat \ {0}

VARIABLES
  creator,   \* where the creating thread is
  made,      \* its loop index i: the threads below it have been created
  start,     \* its local variable start
  leftover,  \* the WorkerData of thread 0
  data,      \* the WorkerData of all the others
  raw,       \* where each raw_worker is
  index,     \* its loop index
  executed   \* how often each element was executed

rawVars == <<creator, made, start, leftover, data, raw, index, executed>>

-----------------------------------------------------------------------------
RawWorkers == 0 .. NumThreads - 1

Elements == 0 .. NumElements - 1

iter_per_thread == NumElements \div NumThreads

extra_load == NumElements - iter_per_thread * (NumThreads - 1)

WorkerData == [start : Int, end : Int]

\* What the pointer handed to a thread points to.
Work(w) == IF w = 0 THEN leftover ELSE data

RawInit ==
  /\ creator = "call"
  /\ made = 0
  /\ start = 0
  /\ leftover = [start |-> 0, end |-> 0]
  /\ data = [start |-> 0, end |-> 0]
  /\ raw = [w \in RawWorkers |-> "none"]
  /\ index = [w \in RawWorkers |-> 0]
  /\ executed = [e \in Elements |-> 0]

\* WorkerData leftover = {0, extra_load, numbers}; thread 0 is created.
CreateFirst ==
  /\ creator = "call"
  /\ start' = extra_load
  /\ leftover' = [start |-> 0, end |-> extra_load]
  /\ made' = 1
  /\ raw' = [raw EXCEPT ![0] = "begin"]
  /\ creator' = "create"
  /\ UNCHANGED <<data, index, executed>>

\* The first half of WorkerData data = {start, start + iter_per_thread, numbers}.
WriteStart ==
  /\ creator = "create"
  /\ made < NumThreads
  /\ data' = [data EXCEPT !.start = start]
  /\ creator' = "write"
  /\ UNCHANGED <<made, start, leftover, raw, index, executed>>

\* Mutant: the end of a slice is not moved with its start.
CreateNextLate ==
  /\ creator = "write"
  /\ data' = [data EXCEPT !.end = extra_load]
  /\ raw' = [raw EXCEPT ![made] = "begin"]
  /\ start' = start + iter_per_thread
  /\ made' = made + 1
  /\ creator' = "create"
  /\ UNCHANGED <<leftover, index, executed>>

\* Mutant: every slice is one element longer.
CreateNextLonger ==
  /\ creator = "write"
  /\ data' = [data EXCEPT !.end = start + iter_per_thread + 1]
  /\ raw' = [raw EXCEPT ![made] = "begin"]
  /\ start' = start + iter_per_thread
  /\ made' = made + 1
  /\ creator' = "create"
  /\ UNCHANGED <<leftover, index, executed>>

\* The second half; pthread_create(..., &data); start += iter_per_thread
CreateNext ==
  /\ creator = "write"
  /\ data' = [data EXCEPT !.end = start + iter_per_thread]
  /\ raw' = [raw EXCEPT ![made] = "begin"]
  /\ start' = start + iter_per_thread
  /\ made' = made + 1
  /\ creator' = "create"
  /\ UNCHANGED <<leftover, index, executed>>

\* int i = work->start
RawBegin(w) ==
  /\ raw[w] = "begin"
  /\ index' = [index EXCEPT ![w] = Work(w).start]
  /\ raw' = [raw EXCEPT ![w] = "loop"]
  /\ UNCHANGED <<creator, made, start, leftover, data, executed>>

\* i < work->end; genAndSort(work->numbers[i]); ++i
RawTurn(w) ==
  /\ raw[w] = "loop"
  /\ index[w] < Work(w).end
  /\ executed' = [executed EXCEPT ![index[w]] = @ + 1]
  /\ index' = [index EXCEPT ![w] = @ + 1]
  /\ UNCHANGED <<creator, made, start, leftover, data, raw>>

\* i >= work->end: the thread returns
RawEnd(w) ==
  /\ raw[w] = "loop"
  /\ index[w] >= Work(w).end
  /\ raw' = [raw EXCEPT ![w] = "exited"]
  /\ UNCHANGED <<creator, made, start, leftover, data, index, executed>>

\* Every thread is joined, and runRawThreadTest returns.
RawJoin ==
  /\ creator = "create"
  /\ made = NumThreads
  /\ \A w \in RawWorkers : raw[w] = "exited"
  /\ creator' = "returned"
  /\ UNCHANGED <<made, start, leftover, data, raw, index, executed>>

RawReturned == creator = "returned" /\ UNCHANGED rawVars

RawWorker(w) == RawBegin(w) \/ RawTurn(w) \/ RawEnd(w)

Creator == CreateFirst \/ WriteStart \/ CreateNext \/ RawJoin

RawNext == Creator \/ (\E w \in RawWorkers : RawWorker(w)) \/ RawReturned

RawSpec == RawInit /\ [][RawNext]_rawVars

-----------------------------------------------------------------------------
(* Correctness.                                                            *)

\* The type invariant.
RawTypeOK ==
  /\ creator \in {"call", "create", "write", "returned"}
  /\ made \in 0 .. NumThreads
  /\ start \in 0 .. NumElements
  /\ leftover \in WorkerData
  /\ data \in WorkerData
  /\ raw \in [RawWorkers -> {"none", "begin", "loop", "exited"}]
  /\ index \in [RawWorkers -> Int]
  /\ executed \in [Elements -> Nat]

\* However a WorkerData is torn between two turns of the creating loop, no
\* thread reads numbers outside of its bounds.
RawInside ==
  \A w \in RawWorkers :
    raw[w] = "loop" /\ index[w] < Work(w).end => index[w] \in Elements

\* The last thread finds its own slice in data, so the last slice is executed,
\* although perhaps not by that thread alone.
LastSliceCovered ==
  creator = "returned" =>
    \A e \in NumElements - iter_per_thread .. NumElements - 1 : executed[e] > 0

\* "Number of jobs per pass": a pass executes each of its elements, once.
RawPassComplete ==
  creator = "returned" => \A e \in Elements : executed[e] = 1
=============================================================================
