---------------------------- MODULE AlphaSeries ----------------------------
(***************************************************************************)
(* The test of the thread pools in cortex/alpha_series, which its Makefile *)
(* (target ct) builds from copies of the sources of the pools and of       *)
(* cortex.t.cpp.  The pools are the same line by line.  Its parseOptions   *)
(* is not: it takes the number of an option without looking whether there  *)
(* is one.                                                                 *)
(*                                                                         *)
(* One definition stands for one function of the copies, with every step   *)
(* that is taken inside it: of the pools, those that main() calls.         *)
(***************************************************************************)
EXTENDS CortexTest

-----------------------------------------------------------------------------
(* cortex.cpp                                                              *)

InCortex == UNCHANGED <<mqVars, rawVars, mainVars>>

\* The constructor.
Cortex_Cortex == NewCortex

Cortex_start == CortexStart

Cortex_enqueue_task(t) == Core!Enqueue(t) /\ InCortex

cortex_worker_thread == (\E w \in Core!Workers : Core!WorkerCheck(w)) /\ InCortex

Cortex_process_next_function ==
  /\ \/ \E w \in Core!Workers :
          \/ Core!WorkerLock(w) \/ Core!WorkerWait(w) \/ Core!WorkerTake(w)
          \/ Core!WorkerDispatch(w) \/ Core!WorkerFinish(w)
     \/ Core!SpuriousWake
  /\ InCortex

Cortex_drain == CortexDrain \/ ((Core!DrainTest \/ Core!DrainWait) /\ InCortex)

Cortex_stop == CortexStop \/ ((Core!StopSignal \/ Core!StopJoin) /\ InCortex)

\* The destructor.
Cortex_destroy == CortexDestroy \/ (Core!DestroyGate /\ InCortex)

Cortex_cpp ==
  \/ Cortex_start \/ Cortex_drain \/ Cortex_stop \/ Cortex_destroy
  \/ cortex_worker_thread \/ Cortex_process_next_function

-----------------------------------------------------------------------------
(* multiqueue_threadpool.cpp                                               *)

InMqt == UNCHANGED <<cortexVars, rawVars, mainVars>>

\* The constructor.
Mqt_MultiQueueThreadpool == NewMqt

Mqt_start == MqtStart

Mqt_enqueue_task == Mqt!EnqueueStep(Driver) /\ InMqt

mqt_worker_thread == (\E q \in Mqt!Queues : Mqt!WorkerStep(q)) /\ InMqt

Mqt_drain == MqtDrain \/ ((Mqt!DrainWait \/ Mqt!DrainTest) /\ InMqt)

Mqt_stop == MqtStop \/ ((Mqt!StopFlag \/ Mqt!StopPost \/ Mqt!StopJoin) /\ InMqt)

\* The destructor.
Mqt_destroy == MqtDestroy \/ ((Mqt!DestroyTask \/ Mqt!DestroyQueue) /\ InMqt)

Mqt_cpp ==
  \/ Mqt_start \/ Mqt_enqueue_task \/ Mqt_drain \/ Mqt_stop \/ Mqt_destroy
  \/ mqt_worker_thread

-----------------------------------------------------------------------------
(* cortex.t.cpp                                                            *)

\* main() up to parseOptions.
AlphaInit == TestInit

parseOptions == ParseOptionUnguarded \/ ParseEnd

\* main() reads the options into its variables, generates the numbers and sorts
\* them, which changes nothing here.
generateNumbers == GenerateNumbers

\* A turn of the loop of fill(threadpool, complexities).
fillCortex ==
  /\ step = "fill"
  /\ \E t \in Tasks : task[t] = "new"
  /\ Cortex_enqueue_task(CHOOSE t \in Tasks : task[t] = "new")

\* A turn of the loop of fill(mqt_tp, complexities), up to the call.
fillMqt == MqtFill

raw_worker ==
  /\ step = "raw" /\ \E w \in RawWorkers : RawWorker(w)
  /\ UNCHANGED <<cortexVars, mqVars, mainVars>>

\* The call, and the loops that create and join the threads.
runRawThreadTest ==
  RawTest \/ (step = "raw" /\ Creator /\ UNCHANGED <<cortexVars, mqVars, mainVars>>)

\* A turn of the loop of main(): the calls it makes, the threads they start, and
\* the pools of the next turn.
OnePass ==
  \/ fillCortex \/ Cortex_cpp \/ fillMqt \/ Mqt_cpp
  \/ raw_worker \/ runRawThreadTest
  \/ NextPass /\ Cortex_Cortex /\ Mqt_MultiQueueThreadpool /\ NewRaw

\* The statistics are printed and main() returns, or the program ended before.
Returned == Finished

AlphaNext == parseOptions \/ generateNumbers \/ OnePass \/ Returned

AlphaSpec == AlphaInit /\ [][AlphaNext]_testVars

-----------------------------------------------------------------------------
(* Correctness.                                                            *)

\* "delete any remaining tasks": when the Cortex of a pass is destroyed, each job
\* of the pass was executed and deleted, or deleted.
NothingLeaked == Core!NothingLeaked
=============================================================================
