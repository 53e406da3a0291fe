----------------------------- MODULE CortexTest -----------------------------
(***************************************************************************)
(* The driver of the thread pools (cortex.t.cpp): it reads its options and *)
(* then runs a number of passes.  In each of them it hands the same jobs   *)
(* to a new Cortex, to a new MultiQueueThreadpool and to raw threads, one  *)
(* after the other; the two pools are destroyed at the end of the pass.    *)
(*                                                                         *)
(* This module composes the specifications of the three with the calls     *)
(* main() makes.  The driver is the owner of both pools and the only       *)
(* client; whoever is not being called does not move, and the threads of   *)
(* the pools run on their own.  An argument of the command line is what    *)
(* the code asks about it: name is what is left of it without its leading  *)
(* dashes, number what atoi() makes of it.                                 *)
(***************************************************************************)
EXTENDS RawThreadTest, Sequences

CONSTANTS
  MAX_THREADS,  \* 8 in the headers of both pools
  Tasks,        \* the jobs of a pass
  NoTask,       \* a NULL Task pointer
  CommandLines  \* the sequences argv[1], argv[2], ... considered

VARIABLES
  argv,      \* the command line
  arg,       \* the loop index of parseOptions
  opts,      \* the map from options to numbers
  showHelp,  \* whether an argument was not understood
  step,      \* where main() is
  passes,    \* how many passes are complete
  gate, processing, mutex, hasWork, queueEmpty, worker, ret, owner, resume,
  task,      \* the Cortex
  mq_processing, running, queue, taskSem, emptySem, mq_worker, job, enqueue,
  mq_owner, at, mq_resume, mq_task  \* the MultiQueueThreadpool

cortexVars == <<gate, processing, mutex, hasWork, queueEmpty, worker, ret, owner,
                resume, task>>
mqVars == <<mq_processing, running, queue, taskSem, emptySem, mq_worker, job,
            enqueue, mq_owner, at, mq_resume, mq_task>>
mainVars == <<argv, arg, opts, showHelp, step, passes>>
testVars == <<cortexVars, mqVars, rawVars, mainVars>>

Core == INSTANCE Cortex

\* The thread of main(), the owner of both pools and the one client.
Driver == Core!Owner

Mqt == INSTANCE MultiQueueThreadpool WITH
  Clients <- {Driver}, processing <- mq_processing, worker <- mq_worker,
  owner <- mq_owner, resume <- mq_resume, task <- mq_task

-----------------------------------------------------------------------------
Defaults == [threads_only |-> 0, runs |-> 1, threads |-> 2, help |-> 0,
             elements |-> 10000, range_max |-> 10000, sort |-> 0]

OptionNames == DOMAIN Defaults

\* What a command line asks for, if each of its options has its number.
WellFormed(line) ==
  /\ Len(line) % 2 = 0
  /\ \A k \in 1 .. Len(line) : k % 2 = 1 => line[k].name \in OptionNames

Asked(line) ==
  [name \in OptionNames |->
     LET given == {k \in 1 .. Len(line) : k % 2 = 1 /\ line[k].name = name}
     IN  IF given = {} THEN Defaults[name]
         ELSE line[(CHOOSE k \in given : \A j \in given : j <= k) + 1].number]

Arguments == [name : STRING, number : Int]

ASSUME ArgumentsAssumption == CommandLines \subseteq Seq(Arguments)
ASSUME PoolAssumption == MAX_THREADS \in Nat \ {0} /\ NoTask \notin Tasks

\* The numbers of the passes can be generated: there is a vector of that many, the
\* average divides by how many there are, and rand() is taken modulo range_max.
CanGenerate(options) == options["elements"] > 0 /\ options["range_max"] # 0

\* The instance runs the passes that its command lines ask for.
ASSUME CommandLinesAssumption ==
  \A line \in CommandLines :
    WellFormed(line) /\ Asked(line)["help"] = 0 /\ CanGenerate(Asked(line))
      => /\ Asked(line)["threads"] = NumThreads
         /\ Asked(line)["elements"] = NumElements
ASSUME ElementsAssumption ==
  IsFiniteSet(Tasks) /\ Cardinality(Tasks) = NumElements

TestInit ==
  /\ Core!Init
  /\ Mqt!Init
  /\ RawInit
  /\ argv \in CommandLines
  /\ arg = 1
  /\ opts = Defaults
  /\ showHelp = FALSE
  /\ step = "options"
  /\ passes = 0

-----------------------------------------------------------------------------
(* parseOptions.                                                           *)

\* The parser of the alpha series, and a mutant of the other: the number of an
\* option is read without looking whether there is one.  atoi(NULL) ends the
\* program.
ParseOptionUnguarded ==
  /\ step = "options" /\ arg <= Len(argv)
  /\ \/ /\ argv[arg].name \in OptionNames
        /\ IF arg < Len(argv)
           THEN /\ opts' = [opts EXCEPT ![argv[arg].name] = argv[arg + 1].number]
                /\ UNCHANGED step
           ELSE step' = "crashed" /\ UNCHANGED opts
        /\ arg' = arg + 2
        /\ UNCHANGED showHelp
     \/ /\ argv[arg].name \notin OptionNames
        /\ showHelp' = TRUE
        /\ arg' = arg + 1
        /\ UNCHANGED <<opts, step>>
  /\ UNCHANGED <<cortexVars, mqVars, rawVars, argv, passes>>

\* An option that is known and not the last argument takes the next one for its
\* number.
ParseOption ==
  /\ step = "options" /\ arg <= Len(argv)
  /\ \/ /\ argv[arg].name \in OptionNames /\ arg < Len(argv)
        /\ opts' = [opts EXCEPT ![argv[arg].name] = argv[arg + 1].number]
        /\ arg' = arg + 2
        /\ UNCHANGED showHelp
     \/ /\ ~(argv[arg].name \in OptionNames /\ arg < Len(argv))
        /\ showHelp' = TRUE
        /\ arg' = arg + 1
        /\ UNCHANGED opts
  /\ UNCHANGED <<cortexVars, mqVars, rawVars, argv, step, passes>>

\* The usage is displayed and the program ends, or parseOptions returns true.
ParseEnd ==
  /\ step = "options" /\ arg > Len(argv)
  /\ step' = IF showHelp \/ opts["help"] # 0 THEN "usage" ELSE "numbers"
  /\ UNCHANGED <<cortexVars, mqVars, rawVars, argv, arg, opts, showHelp, passes>>

\* main() generates the numbers of all passes, displays their average and may sort
\* them; with a range_max or a number of elements of 0 it divides by zero, and a
\* vector of a negative size throws.
GenerateNumbers ==
  /\ step = "numbers"
  /\ step' = IF CanGenerate(opts) THEN "pass" ELSE "aborted"
  /\ UNCHANGED <<cortexVars, mqVars, rawVars, argv, arg, opts, showHelp, passes>>

-----------------------------------------------------------------------------
(* The calls of a pass.                                                    *)

MainKeeps == UNCHANGED <<argv, arg, opts, showHelp, passes>>

Goto(next) == step' = next /\ MainKeeps

\* process_in_thread unless threads_only; Cortex threadpool(threads) and its
\* start(), which find the state of a new Cortex.
CortexStart ==
  /\ step = "pass" /\ passes < opts["runs"]
  /\ Core!Start
  /\ Goto("fill")
  /\ UNCHANGED <<mqVars, rawVars>>

\* fill(threadpool, complexities) binds a job to each number and enqueues it.
CortexFill ==
  /\ step = "fill"
  /\ \E t \in Tasks : task[t] = "new"
  /\ Core!Enqueue(CHOOSE t \in Tasks : task[t] = "new")
  /\ UNCHANGED <<mqVars, rawVars, mainVars>>

CortexDrain ==
  /\ step = "fill"
  /\ \A t \in Tasks : task[t] # "new"
  /\ Core!DrainCall
  /\ Goto("drain")
  /\ UNCHANGED <<mqVars, rawVars>>

CortexStop ==
  /\ step = "drain" /\ owner = "idle"
  /\ Core!Stop
  /\ Goto("stop")
  /\ UNCHANGED <<mqVars, rawVars>>

\* stop() has returned: MultiQueueThreadpool mqt_tp(threads); mqt_tp.start()
MqtStart ==
  /\ step = "stop" /\ owner = "idle"
  /\ Mqt!Start
  /\ Goto("mqtFill")
  /\ UNCHANGED <<cortexVars, rawVars>>

\* fill(mqt_tp, complexities)
MqtFill ==
  /\ step = "mqtFill"
  /\ \E t \in Tasks : mq_task[t] = "new"
  /\ Mqt!EnqueueCall(Driver, CHOOSE t \in Tasks : mq_task[t] = "new")
  /\ UNCHANGED <<cortexVars, rawVars, mainVars>>

MqtDrain ==
  /\ step = "mqtFill"
  /\ \A t \in Tasks : mq_task[t] # "new"
  /\ Mqt!DrainCall
  /\ Goto("mqtDrain")
  /\ UNCHANGED <<cortexVars, rawVars>>

MqtStop ==
  /\ step = "mqtDrain" /\ mq_owner = "idle"
  /\ Mqt!Stop
  /\ Goto("mqtStop")
  /\ UNCHANGED <<cortexVars, rawVars>>

\* mqt_tp.stop() has returned: runRawThreadTest(threads, complexities)
RawTest ==
  /\ step = "mqtStop" /\ mq_owner = "idle"
  /\ Goto("raw")
  /\ UNCHANGED <<cortexVars, mqVars, rawVars>>

\* The end of the pass: the pools are destroyed, the younger one first.
MqtDestroy ==
  /\ step = "raw" /\ creator = "returned"
  /\ Mqt!Destroy
  /\ Goto("mqtDestroy")
  /\ UNCHANGED <<cortexVars, rawVars>>

CortexDestroy ==
  /\ step = "mqtDestroy" /\ mq_owner = "destroyed"
  /\ Core!Destroy
  /\ Goto("destroy")
  /\ UNCHANGED <<mqVars, rawVars>>

\* Cortex threadpool(threads) and the jobs that will be bound for it.
NewCortex ==
  /\ gate' = <<>> /\ processing' = FALSE /\ mutex' = Core!Free
  /\ hasWork' = {} /\ queueEmpty' = {}
  /\ worker' = [w \in Core!Workers |-> "none"]
  /\ ret' = [h \in Core!Threads |-> NoTask]
  /\ owner' = "idle" /\ resume' = "idle"
  /\ task' = [t \in Tasks |-> "new"]

\* MultiQueueThreadpool mqt_tp(threads) and its jobs.
NewMqt ==
  /\ mq_processing' = FALSE
  /\ running' = [q \in Mqt!Queues |-> FALSE]
  /\ queue' = [q \in Mqt!Queues |-> <<>>]
  /\ taskSem' = [q \in Mqt!Queues |-> 0]
  /\ emptySem' = [q \in Mqt!Queues |-> 0]
  /\ mq_worker' = [q \in Mqt!Queues |-> "none"]
  /\ job' = [q \in Mqt!Queues |-> NoTask]
  /\ enqueue' = [c \in {Driver} |-> Mqt!Outside]
  /\ mq_owner' = "idle" /\ at' = 1 /\ mq_resume' = "idle"
  /\ mq_task' = [t \in Tasks |-> "new"]

\* The frame of the next runRawThreadTest.
NewRaw ==
  /\ creator' = "call" /\ made' = 0 /\ start' = 0
  /\ leftover' = [start |-> 0, end |-> 0] /\ data' = leftover'
  /\ raw' = [w \in RawWorkers |-> "none"]
  /\ index' = [w \in RawWorkers |-> 0]
  /\ executed' = [e \in Elements |-> 0]

\* ++passes
NextPass ==
  /\ step = "destroy" /\ owner = "destroyed"
  /\ step' = "pass" /\ passes' = passes + 1
  /\ UNCHANGED <<argv, arg, opts, showHelp>>

\* The next pass constructs two new pools and binds new jobs.
PassEnd == NextPass /\ NewCortex /\ NewMqt /\ NewRaw

\* The statistics are printed and main() returns; or it did so before.
Finished ==
  /\ \/ step = "pass" /\ passes >= opts["runs"]
     \/ step \in {"usage", "aborted", "crashed"}
  /\ UNCHANGED testVars

-----------------------------------------------------------------------------
(* What goes on inside the calls, and in the threads of the pools.         *)

CortexWorkers ==
  /\ (\E w \in Core!Workers : Core!WorkerStep(w)) \/ Core!SpuriousWake
  /\ UNCHANGED <<mqVars, rawVars, mainVars>>

CortexOwner == Core!OwnerStep /\ UNCHANGED <<mqVars, rawVars, mainVars>>

MqtWorkers ==
  /\ \E q \in Mqt!Queues : Mqt!WorkerStep(q)
  /\ UNCHANGED <<cortexVars, rawVars, mainVars>>

MqtOwner ==
  /\ Mqt!EnqueueStep(Driver) \/ Mqt!OwnerStep
  /\ UNCHANGED <<cortexVars, rawVars, mainVars>>

RawThreads ==
  /\ step = "raw"
  /\ Creator \/ \E w \in RawWorkers : RawWorker(w)
  /\ UNCHANGED <<cortexVars, mqVars, mainVars>>

Options == ParseOption \/ ParseEnd \/ GenerateNumbers

CortexCalls ==
  CortexStart \/ CortexFill \/ CortexDrain \/ CortexStop \/ CortexDestroy

MqtCalls == MqtStart \/ MqtFill \/ MqtDrain \/ MqtStop \/ MqtDestroy

Pass == CortexCalls \/ MqtCalls \/ RawTest \/ PassEnd

TestNext ==
  \/ Options \/ Pass
  \/ CortexWorkers \/ CortexOwner
  \/ MqtWorkers \/ MqtOwner
  \/ RawThreads
  \/ Finished

TestSpec == TestInit /\ [][TestNext]_testVars

\* The driver goes on, the threads are scheduled and the jobs return.
TestFairness ==
  /\ WF_testVars(Options \/ Pass)
  /\ WF_testVars(MqtOwner)
  /\ \A q \in Mqt!Queues :
       WF_testVars(Mqt!WorkerStep(q) /\ UNCHANGED <<cortexVars, rawVars, mainVars>>)

FairTestSpec == TestSpec /\ TestFairness

-----------------------------------------------------------------------------
(* Correctness.                                                            *)

\* "All arguments take a single integer": the numbers are generated and a pass is
\* begun exactly with the options the command line asks for, and only if it is
\* well formed and does not ask for help; the program gives up only when it
\* cannot generate what was asked for, and reads beyond the command line only if
\* that is not well formed.
PassesAsAsked ==
  /\ step \notin {"options", "usage", "crashed"} =>
       WellFormed(argv) /\ opts = Asked(argv) /\ opts["help"] = 0
  /\ step = "usage" => ~WellFormed(argv) \/ Asked(argv)["help"] # 0
  /\ step = "aborted" => ~CanGenerate(Asked(argv))
  /\ step = "crashed" => ~WellFormed(argv)

\* The same of the parser that looks whether an option has its number: it never
\* reads beyond the command line, well formed or not.
RunsAsAsked == PassesAsAsked /\ step # "crashed"

\* drain() and then stop(): when both have returned, the Cortex has executed
\* every job of the pass but the ones that stop() made its workers drop, at
\* most one for each.
CortexPassLoses ==
  step = "stop" /\ owner = "idle" =>
    /\ \A t \in Tasks : task[t] \in {"done", "leaked"}
    /\ Cardinality({t \in Tasks : task[t] = "leaked"}) <= Core!PoolSize

\* The MultiQueueThreadpool loses none: drain() may return while jobs are still
\* executing, but stop() waits for their threads.
MqtPassComplete ==
  step = "mqtStop" /\ mq_owner = "idle" => \A t \in Tasks : mq_task[t] = "done"

\* In the order in which the driver calls it, no call of the
\* MultiQueueThreadpool blocks for ever: in particular the one drain() of the
\* pass finds the token it waits for.
MqtPassEnds == step = "mqtFill" ~> step = "raw"
=============================================================================
