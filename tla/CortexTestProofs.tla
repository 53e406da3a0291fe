--------------------------- MODULE CortexTestProofs ---------------------------
(***************************************************************************)
(* Proofs about the driver of the thread pools, for every number of        *)
(* threads, jobs and passes, and for every command line that agrees with   *)
(* them.  What is proved of a pool alone, in CortexProofs,                 *)
(* MultiQueueThreadpoolProofs and RawThreadTestProofs, is used here of the *)
(* pools of the driver.  The lemmas are about a driver that may have       *)
(* either parser, so that they serve cortex.t.cpp and its copy in the      *)
(* alpha series.                                                           *)
(***************************************************************************)
EXTENDS AlphaSeries, RawThreadTestProofs, FiniteSetTheorems,
        SequenceTheorems

\* The steps of a driver, whichever of the two parsers it has.
DriverNext == TestNext \/ ParseOptionUnguarded

\* What main() does before its first pass.
Reading == Options \/ ParseOptionUnguarded

\* Where main() is before it begins another pass, or ends.
Beginning == {"options", "numbers", "usage", "aborted", "crashed", "pass"}

USE DEF Beginning

-----------------------------------------------------------------------------
(* The options.                                                            *)

\* Where the first so many arguments give the option its number.
Given(name, bound) ==
  {k \in 1 .. Len(argv) : k % 2 = 1 /\ k < bound /\ argv[k].name = name}

\* Every option in front of the loop index is known and has its last number, or
\* there was something the parser did not understand.
Read ==
  \/ showHelp /\ ~WellFormed(argv)
  \/ /\ ~showHelp
     /\ arg \in 1 .. Len(argv) + 1 /\ arg % 2 = 1
     /\ opts \in [OptionNames -> Int]
     /\ \A k \in 1 .. Len(argv) :
          k % 2 = 1 /\ k < arg => argv[k].name \in OptionNames
     /\ \A name \in OptionNames :
          /\ Given(name, arg) = {} => opts[name] = Defaults[name]
          /\ \A k \in Given(name, arg) :
               (\A j \in Given(name, arg) : j <= k) => opts[name] = argv[k + 1].number

ParserInv ==
  /\ argv \in CommandLines
  /\ step = "options" => Read

\* An argument is a record, and there are so many of them.
LEMMA LineFacts ==
  ASSUME argv \in CommandLines
  PROVE  /\ Len(argv) \in Nat
         /\ \A k \in 1 .. Len(argv) : argv[k].name \in STRING /\ argv[k].number \in Int
<1>1. argv \in Seq(Arguments)
  BY ArgumentsAssumption
<1>2. Len(argv) \in Nat
  BY <1>1, LenProperties
<1>3. ASSUME NEW k \in 1 .. Len(argv) PROVE argv[k] \in Arguments
  BY <1>1, <1>3
<1> QED
  BY <1>2, <1>3 DEF Arguments

LEMMA DefaultsAreNumbers == Defaults \in [OptionNames -> Int]
BY DEF Defaults, OptionNames

LEMMA ParserInit == TestInit => ParserInv
<1> SUFFICES ASSUME TestInit PROVE ParserInv
  OBVIOUS
<1>1. argv \in CommandLines /\ arg = 1 /\ opts = Defaults /\ ~showHelp
  BY DEF TestInit
<1>2. Len(argv) \in Nat
  BY <1>1, LineFacts
<1>3. ASSUME NEW name PROVE Given(name, arg) = {}
  BY <1>1, <1>2 DEF Given
<1> HIDE DEF Given
<1> QED
  BY <1>1, <1>2, <1>3, DefaultsAreNumbers DEF ParserInv, Read

\* An option that is known and has its number is read with it.
LEMMA OptionKeeps ==
  ASSUME argv \in CommandLines, Read, ~showHelp, arg < Len(argv),
         NEW known \in OptionNames, argv[arg].name = known,
         opts' = [opts EXCEPT ![known] = argv[arg + 1].number],
         arg' = arg + 2, UNCHANGED <<argv, showHelp>>
  PROVE  Read'
<1>1. /\ Len(argv) \in Nat /\ arg \in Nat /\ arg >= 1
      /\ arg + 1 \in 1 .. Len(argv) /\ arg \in 1 .. Len(argv)
      /\ arg % 2 = 1 /\ (arg + 2) % 2 = 1 /\ (arg + 1) % 2 = 0
      /\ argv[arg + 1].number \in Int
  <2>1. Len(argv) \in Nat /\ arg \in 1 .. Len(argv) + 1 /\ arg % 2 = 1
    BY LineFacts DEF Read
  <2>2. /\ arg \in Nat /\ arg >= 1
        /\ arg + 1 \in 1 .. Len(argv) /\ arg \in 1 .. Len(argv)
    BY <2>1
  <2>3. (arg + 2) % 2 = 1 /\ (arg + 1) % 2 = 0
    BY <2>1, <2>2
  <2> QED
    BY <2>1, <2>2, <2>3, LineFacts
<1>2. opts' \in [OptionNames -> Int]
  BY <1>1 DEF Read
<1>3. ASSUME NEW k \in 1 .. Len(argv), k % 2 = 1, k < arg + 2 PROVE k < arg \/ k = arg
  BY <1>1, <1>3
<1>4. \A k \in 1 .. Len(argv) :
        k % 2 = 1 /\ k < arg + 2 => argv[k].name \in OptionNames
  BY <1>1, <1>3 DEF Read
<1>5. ASSUME NEW name \in OptionNames, name # known
      PROVE  Given(name, arg)' = Given(name, arg) /\ opts'[name] = opts[name]
  <2>1. Given(name, arg)' = Given(name, arg)
    BY <1>1, <1>3, <1>5 DEF Given
  <2> QED
    BY <1>5, <2>1 DEF Read
<1>6. arg \in Given(known, arg)' /\ \A k \in Given(known, arg)' : k <= arg
  <2>1. arg < arg'
    BY <1>1
  <2>2. arg \in Given(known, arg)'
    BY <1>1, <2>1 DEF Given
  <2>3. ASSUME NEW k \in Given(known, arg)' PROVE k <= arg
    <3>1. k \in 1 .. Len(argv) /\ k % 2 = 1 /\ k < arg + 2
      BY <1>1, <2>3 DEF Given
    <3> QED
      BY <1>1, <1>3, <3>1
  <2> QED
    BY <2>2, <2>3
<1>7. opts'[known] = argv[arg + 1].number
  BY DEF Read
<1>8. ASSUME NEW name \in OptionNames
      PROVE  /\ Given(name, arg)' = {} => opts'[name] = Defaults[name]
             /\ \A k \in Given(name, arg)' :
                  (\A j \in Given(name, arg)' : j <= k)
                     => opts'[name] = argv[k + 1].number
  <2>1. CASE name # known
    BY <1>5, <2>1 DEF Read
  <2>2. CASE name = known
    <3>1. ASSUME NEW k \in Given(known, arg)', arg <= k PROVE k = arg
      BY <1>1, <1>6, <3>1 DEF Given
    <3>2. Given(known, arg)' # {}
      BY <1>6
    <3>3. ASSUME NEW k \in Given(known, arg)',
                 \A j \in Given(known, arg)' : j <= k
          PROVE  opts'[known] = argv[k + 1].number
      <4>1. arg <= k
        BY <1>6, <3>3
      <4> QED
        BY <1>7, <3>1, <4>1
    <3> QED
      BY <2>2, <3>2, <3>3
  <2> QED
    BY <2>1, <2>2
<1>9. arg' \in 1 .. Len(argv) + 1 /\ arg' % 2 = 1
  BY <1>1
<1> QED
  BY <1>2, <1>4, <1>8, <1>9 DEF Read

LEMMA OptionStep ==
  ASSUME argv \in CommandLines, Read, ParseOption \/ ParseOptionUnguarded
  PROVE  /\ step' = "options" => Read'
         /\ step' = "crashed" => ~WellFormed(argv)
<1> DEFINE named == argv[arg].name \in OptionNames /\ arg < Len(argv)
<1>1. CASE named
  <2>1. /\ opts' = [opts EXCEPT ![argv[arg].name] = argv[arg + 1].number]
        /\ arg' = arg + 2 /\ UNCHANGED <<argv, showHelp, step>> /\ step = "options"
    BY <1>1 DEF ParseOption, ParseOptionUnguarded
  <2>2. CASE showHelp
    BY <2>1, <2>2 DEF Read, WellFormed
  <2>3. CASE ~showHelp
    BY <1>1, <2>1, <2>3, OptionKeeps
  <2> QED
    BY <2>1, <2>2, <2>3
<1>2. CASE ~named
  <2>1. /\ argv' = argv /\ arg <= Len(argv)
        /\ showHelp' \/ (showHelp' = showHelp /\ step' = "crashed")
        /\ showHelp => showHelp'
    BY <1>2 DEF ParseOption, ParseOptionUnguarded
  <2>2. ~WellFormed(argv)
    <3>1. CASE showHelp
      BY <3>1 DEF Read
    <3>2. CASE ~showHelp
      <4>1. Len(argv) \in Nat /\ arg \in 1 .. Len(argv) /\ arg % 2 = 1
        BY <2>1, <3>2, LineFacts DEF Read
      <4>2. CASE argv[arg].name \notin OptionNames
        BY <4>1, <4>2 DEF WellFormed
      <4>3. CASE arg = Len(argv)
        BY <4>1, <4>3 DEF WellFormed
      <4> QED
        BY <1>2, <4>1, <4>2, <4>3
    <3> QED
      BY <3>1, <3>2
  <2> QED
    BY <2>1, <2>2 DEF Read, WellFormed
<1> QED
  BY <1>1, <1>2 DEF ParseOption, ParseOptionUnguarded

\* Every set of arguments has a last one.
LEMMA LastExists ==
  ASSUME NEW n \in Nat, NEW S, S \subseteq 1 .. n, S # {}
  PROVE  \E x \in S : \A y \in S : y <= x
<1> DEFINE rest == {n - k : k \in S}
<1>1. rest # {}
  OBVIOUS
<1>2. rest \subseteq Nat
  <2>1. ASSUME NEW k \in S PROVE n - k \in Nat
    BY <2>1
  <2> QED
    BY <2>1
<1>3. PICK r \in rest : \A q \in rest : ~(q < r)
  <2>1. \A q, r \in Nat : <<q, r>> \in OpToRel(<, Nat) <=> q < r
    BY DEF OpToRel
  <2> HIDE DEF rest
  <2> QED
    BY <1>1, <1>2, <2>1, NatLessThanWellFounded, WFMin
<1>4. PICK x \in S : r = n - x
  OBVIOUS
<1>5. ASSUME NEW y \in S PROVE y <= x
  <2>1. n - y \in rest
    BY <1>5
  <2>2. ~(n - y < r)
    BY <1>3, <2>1
  <2> QED
    BY <1>4, <2>2
<1> QED
  BY <1>5

\* When there is nothing left to read and nothing was wrong, the options are the
\* ones that were asked for.
LEMMA ReadIsAsked ==
  ASSUME argv \in CommandLines, Read, ~showHelp, arg > Len(argv)
  PROVE  WellFormed(argv) /\ opts = Asked(argv)
<1>1. /\ Len(argv) \in Nat /\ arg = Len(argv) + 1 /\ arg % 2 = 1
      /\ opts \in [OptionNames -> Int]
      /\ \A k \in 1 .. Len(argv) :
           k % 2 = 1 /\ k < arg => argv[k].name \in OptionNames
  BY LineFacts DEF Read
<1>2. WellFormed(argv)
  <2>1. Len(argv) % 2 = 0
    BY <1>1
  <2> QED
    BY <1>1, <2>1 DEF WellFormed
<1>3. ASSUME NEW name \in OptionNames PROVE opts[name] = Asked(argv)[name]
  <2> DEFINE given == {k \in 1 .. Len(argv) : k % 2 = 1 /\ argv[k].name = name}
  <2>1. given = Given(name, arg)
    BY <1>1 DEF Given
  <2>2. Asked(argv)[name] =
          IF given = {} THEN Defaults[name]
          ELSE argv[(CHOOSE k \in given : \A j \in given : j <= k) + 1].number
    BY DEF Asked
  <2>3. /\ given = {} => opts[name] = Defaults[name]
        /\ \A k \in given :
             (\A j \in given : j <= k) => opts[name] = argv[k + 1].number
    BY <2>1 DEF Read
  <2>4. given # {} => \E k \in given : \A j \in given : j <= k
    BY <1>1, LastExists
  <2> HIDE DEF given
  <2> QED
    BY <2>2, <2>3, <2>4
<1>4. opts = Asked(argv)
  BY <1>1, <1>3 DEF Asked
<1> QED
  BY <1>2, <1>4

\* Nothing but parseOptions changes the options, and it is called once.
LEMMA OptionsStay ==
  ASSUME [TestNext]_testVars, ~Options
  PROVE  /\ UNCHANGED <<argv, arg, opts, showHelp>>
         /\ \/ step' = step
            \/ /\ step \notin {"options", "numbers", "usage", "aborted", "crashed"}
               /\ step' \notin {"options", "numbers", "usage", "aborted", "crashed"}
<1>1. CASE CortexCalls
  BY <1>1 DEF CortexCalls, CortexStart, CortexFill, CortexDrain, CortexStop,
              CortexDestroy, Goto, MainKeeps, mainVars
<1>2. CASE MqtCalls
  BY <1>2 DEF MqtCalls, MqtStart, MqtFill, MqtDrain, MqtStop, MqtDestroy, Goto,
              MainKeeps, mainVars
<1>3. CASE RawTest \/ PassEnd
  BY <1>3 DEF RawTest, PassEnd, NextPass, Goto, MainKeeps
<1>4. CASE CortexWorkers \/ CortexOwner \/ MqtWorkers \/ MqtOwner \/ RawThreads
  BY <1>4 DEF CortexWorkers, CortexOwner, MqtWorkers, MqtOwner, RawThreads, mainVars
<1>5. CASE Finished \/ UNCHANGED testVars
  BY <1>5 DEF Finished, testVars, mainVars
<1> QED
  BY <1>1, <1>2, <1>3, <1>4, <1>5 DEF TestNext, Pass

LEMMA ParserStep ==
  ParserInv /\ PassesAsAsked /\ [DriverNext]_testVars => ParserInv' /\ PassesAsAsked'
<1> SUFFICES ASSUME ParserInv, PassesAsAsked, [DriverNext]_testVars
             PROVE  ParserInv' /\ PassesAsAsked'
  OBVIOUS
<1>0. argv' = argv /\ WellFormed(argv)' = WellFormed(argv) /\ Asked(argv)' = Asked(argv)
  <2>1. argv' = argv
    BY OptionsStay DEF DriverNext, Options, ParseOption, ParseOptionUnguarded, ParseEnd,
                       GenerateNumbers
  <2> QED
    BY <2>1 DEF WellFormed, Asked
<1>1. CASE ParseOption \/ ParseOptionUnguarded
  <2>1. step = "options" /\ step' \in {"options", "crashed"}
    BY <1>1 DEF ParseOption, ParseOptionUnguarded
  <2>2. (step' = "options" => Read') /\ (step' = "crashed" => ~WellFormed(argv))
    BY <1>1, <2>1, OptionStep DEF ParserInv
  <2> QED
    BY <1>0, <2>1, <2>2 DEF ParserInv, PassesAsAsked
<1>2. CASE ParseEnd
  <2>1. /\ step = "options" /\ arg > Len(argv)
        /\ step' = IF showHelp \/ opts["help"] # 0 THEN "usage" ELSE "numbers"
        /\ opts' = opts
    BY <1>2 DEF ParseEnd
  <2>2. argv \in CommandLines /\ Read
    BY <2>1 DEF ParserInv
  <2>3. CASE showHelp
    BY <1>0, <2>1, <2>2, <2>3 DEF ParserInv, PassesAsAsked, Read
  <2>4. CASE ~showHelp
    <3>1. WellFormed(argv) /\ opts = Asked(argv)
      BY <2>1, <2>2, <2>4, ReadIsAsked
    <3> QED
      BY <1>0, <2>1, <2>2, <2>4, <3>1 DEF ParserInv, PassesAsAsked
  <2> QED
    BY <2>3, <2>4
<1>3. CASE GenerateNumbers
  <2>1. /\ step = "numbers" /\ opts' = opts
        /\ step' = IF CanGenerate(opts) THEN "pass" ELSE "aborted"
    BY <1>3 DEF GenerateNumbers
  <2>2. opts = Asked(argv) /\ WellFormed(argv) /\ opts["help"] = 0
    BY <2>1 DEF PassesAsAsked
  <2>3. CASE CanGenerate(opts)
    BY <1>0, <2>1, <2>2, <2>3 DEF ParserInv, PassesAsAsked
  <2>4. CASE ~CanGenerate(opts)
    <3>1. step' = "aborted" /\ ~CanGenerate(Asked(argv))
      BY <2>1, <2>2, <2>4
    <3>2. CanGenerate(Asked(argv))' = CanGenerate(Asked(argv))
      BY <1>0 DEF CanGenerate
    <3> QED
      BY <1>0, <2>1, <2>2, <3>1, <3>2 DEF ParserInv, PassesAsAsked
  <2> QED
    BY <2>3, <2>4
<1>4. CASE ~Reading
  <2>1. /\ UNCHANGED <<argv, arg, opts, showHelp>>
        /\ \/ step' = step
           \/ /\ step \notin {"options", "numbers", "usage", "aborted", "crashed"}
              /\ step' \notin {"options", "numbers", "usage", "aborted", "crashed"}
    BY <1>4, OptionsStay DEF DriverNext, Reading
  <2>2. Read' = Read
    BY <1>0, <2>1 DEF Read, Given
  <2>3. CanGenerate(Asked(argv))' = CanGenerate(Asked(argv))
    BY <1>0 DEF CanGenerate
  <2> QED
    BY <1>0, <2>1, <2>2, <2>3 DEF ParserInv, PassesAsAsked
<1> QED
  BY <1>1, <1>2, <1>3, <1>4 DEF Reading, Options

\* With the guarded parser nothing reads beyond the command line.
LEMMA NeverCrashes == step # "crashed" /\ [TestNext]_testVars => (step # "crashed")'
<1> SUFFICES ASSUME step # "crashed", [TestNext]_testVars PROVE step' # "crashed"
  OBVIOUS
<1>1. CASE Options
  BY <1>1 DEF Options, ParseOption, ParseEnd, GenerateNumbers
<1>2. CASE ~Options
  BY <1>2, OptionsStay
<1> QED
  BY <1>1, <1>2

-----------------------------------------------------------------------------
(* The Cortex of the driver takes the steps of Cortex, so what CortexProofs *)
(* says of it holds; the next pass begins with a new one.                   *)

CP == INSTANCE CortexProofs

LEMMA CortexAssumptions == CP!NumThreadsAssumption /\ CP!NoTaskAssumption
BY PoolAssumption, RawAssumption DEF CP!NumThreadsAssumption, CP!NoTaskAssumption

LEMMA CortexIds ==
  /\ Core!Workers = CP!Workers /\ Core!Owner = CP!Owner
  /\ Core!Threads = CP!Threads /\ Core!Free = CP!Free
  /\ Core!PoolSize = CP!PoolSize
BY DEF Core!Workers, CP!Workers, Core!Owner, CP!Owner, Core!Threads, CP!Threads,
       Core!Free, CP!Free, Core!PoolSize, CP!PoolSize

LEMMA CortexWorkerStep ==
  ASSUME NEW w \in Core!Workers, Core!WorkerStep(w) PROVE CP!WorkerStep(w)
BY CortexIds
   DEF Core!WorkerStep, Core!WorkerCheck, Core!WorkerLock, Core!WorkerWait,
       Core!WorkerTake, Core!WorkerDispatch, Core!WorkerFinish,
       CP!WorkerStep, CP!WorkerCheck, CP!WorkerLock, CP!WorkerWait, CP!WorkerTake,
       CP!WorkerDispatch, CP!WorkerFinish

LEMMA CortexOwnerStep == Core!OwnerStep => CP!OwnerStep
BY CortexIds
   DEF Core!OwnerStep, Core!StopSignal, Core!StopJoin, Core!DrainTest,
       Core!DrainWait, Core!IterateLock, Core!IterateRun, Core!IterateFinish,
       Core!IterateUnlock, Core!DestroyGate,
       CP!OwnerStep, CP!StopSignal, CP!StopJoin, CP!DrainTest, CP!DrainWait,
       CP!IterateLock, CP!IterateRun, CP!IterateFinish, CP!IterateUnlock,
       CP!DestroyGate

\* The calls of the driver, and what it calls.
LEMMA CortexCallSteps ==
  /\ CortexStart => CP!Start /\ step = "pass" /\ step' = "fill"
  /\ CortexFill => /\ step = "fill" /\ step' = "fill"
                   /\ \E t \in Tasks : CP!Enqueue(t)
  /\ CortexDrain => /\ step = "fill" /\ step' = "drain" /\ CP!DrainCall
                    /\ \A t \in Tasks : task[t] # "new"
  /\ CortexStop => /\ step = "drain" /\ step' = "stop" /\ owner = "idle"
                   /\ CP!StopCall("idle")
  /\ CortexDestroy => /\ step = "mqtDestroy" /\ step' = "destroy"
                      /\ CP!StopCall("destroy")
<1>1. CortexStart => CP!Start /\ step = "pass" /\ step' = "fill"
  BY CortexIds DEF CortexStart, Core!Start, CP!Start, Goto
<1>2. CortexFill => /\ step = "fill" /\ step' = "fill"
                    /\ \E t \in Tasks : CP!Enqueue(t)
  <2> SUFFICES ASSUME CortexFill
               PROVE  /\ step = "fill" /\ step' = "fill"
                      /\ \E t \in Tasks : CP!Enqueue(t)
    OBVIOUS
  <2> DEFINE next == CHOOSE t \in Tasks : task[t] = "new"
  <2>1. next \in Tasks
    BY DEF CortexFill
  <2>2. step = "fill" /\ step' = "fill" /\ Core!Enqueue(next)
    BY DEF CortexFill, mainVars
  <2> HIDE DEF next
  <2>3. CP!Enqueue(next)
    BY <2>2, CortexIds DEF Core!Enqueue, CP!Enqueue
  <2> QED
    BY <2>1, <2>2, <2>3
<1>3. CortexDrain => /\ step = "fill" /\ step' = "drain" /\ CP!DrainCall
                     /\ \A t \in Tasks : task[t] # "new"
  BY DEF CortexDrain, Core!DrainCall, CP!DrainCall, Goto
<1>4. CortexStop => /\ step = "drain" /\ step' = "stop" /\ owner = "idle"
                    /\ CP!StopCall("idle")
  BY DEF CortexStop, Core!Stop, Core!StopCall, CP!StopCall, Goto
<1>5. CortexDestroy => /\ step = "mqtDestroy" /\ step' = "destroy"
                       /\ CP!StopCall("destroy")
  BY DEF CortexDestroy, Core!Destroy, Core!StopCall, CP!StopCall, Goto
<1> QED
  BY <1>1, <1>2, <1>3, <1>4, <1>5

\* What happens to the Cortex in a step of the driver.
LEMMA CortexMoves ==
  ASSUME [DriverNext]_testVars
  PROVE  \/ CortexCalls
         \/ CortexWorkers
         \/ CP!OwnerStep /\ step' = step
         \/ PassEnd
         \/ UNCHANGED cortexVars /\ (step' = step \/ MqtCalls \/ RawTest \/ Reading)
<1>1. CASE MqtCalls \/ RawTest \/ Reading
  BY <1>1 DEF MqtCalls, MqtStart, MqtFill, MqtDrain, MqtStop, MqtDestroy, RawTest,
              Reading, Options, ParseOption, ParseOptionUnguarded,
              ParseEnd, GenerateNumbers
<1>2. CASE CortexOwner
  BY <1>2, CortexOwnerStep DEF CortexOwner, mainVars
<1>3. CASE MqtWorkers \/ MqtOwner \/ RawThreads \/ Finished \/ UNCHANGED testVars
  BY <1>3 DEF MqtWorkers, MqtOwner, RawThreads, Finished, testVars, mainVars
<1> QED
  BY <1>1, <1>2, <1>3 DEF DriverNext, Reading, TestNext, Pass

LEMMA NewCortexInv == PassEnd => CP!IInv'
<1>1. CP!Init => CP!IInv
  BY CP!InitIInv, CortexAssumptions
<1>2. CP!Init' => CP!IInv'
  BY <1>1, PTL
<1>3. PassEnd => CP!Init'
  BY CortexIds DEF PassEnd, NextPass, NewCortex, CP!Init
<1> QED
  BY <1>2, <1>3

LEMMA CortexStep ==
  [DriverNext]_testVars => PassEnd \/ [CP!Next]_(CP!vars)
<1> SUFFICES ASSUME [DriverNext]_testVars, ~PassEnd PROVE [CP!Next]_(CP!vars)
  OBVIOUS
<1>1. CASE CortexCalls
  BY <1>1, CortexCallSteps
     DEF CortexCalls, CP!Next, CP!OwnerCall, CP!Stop, CP!Destroy
<1>2. CASE CortexWorkers
  <2>1. CASE \E w \in Core!Workers : Core!WorkerStep(w)
    BY <2>1, CortexWorkerStep, CortexIds DEF CP!Next
  <2>2. CASE Core!SpuriousWake
    BY <2>2, CortexIds DEF Core!SpuriousWake, CP!SpuriousWake, CP!Next
  <2> QED
    BY <1>2, <2>1, <2>2 DEF CortexWorkers
<1>3. CASE CP!OwnerStep
  BY <1>3 DEF CP!Next
<1>4. CASE UNCHANGED cortexVars
  BY <1>4 DEF cortexVars, CP!vars
<1> QED
  BY <1>1, <1>2, <1>3, <1>4, CortexMoves

LEMMA CortexInvStep == CP!IInv /\ [DriverNext]_testVars => CP!IInv'
<1>1. CP!IInv /\ [CP!Next]_(CP!vars) => CP!IInv'
  BY CP!TypeStep, CP!MutexStep, CP!StartedStep, CP!RetStep, CP!OwnershipStep,
     CP!PopStep, CortexAssumptions DEF CP!IInv
<1> QED
  BY <1>1, CortexStep, NewCortexInv

\* The jobs that stop() has made workers drop, or can still make them drop.
Dropped ==
  {t \in Tasks : task[t] = "leaked" \/ \E w \in CP!Workers : ret[w] = t}

\* What the Cortex of a pass is like, by how far the driver has come.
CortexPhase ==
  /\ step \in Beginning =>
       /\ ~processing /\ owner = "idle" /\ resume = "idle"
       /\ \A t \in Tasks : task[t] = "new"
  /\ step = "fill" =>
       /\ processing /\ owner = "idle" /\ resume = "idle"
       /\ \A t \in Tasks : task[t] \in {"new", "queued", "held", "running", "done"}
  /\ step = "drain" =>
       /\ processing /\ owner \in {"idle", "drain", "drainWait"} /\ resume = "idle"
       /\ \A t \in Tasks : task[t] \in {"queued", "held", "running", "done"}
       /\ owner = "idle" => gate = <<>>
  /\ step = "stop" =>
       /\ ~processing /\ owner \in {"signal", "join", "idle"} /\ resume = "idle"
       /\ \A t \in Tasks : task[t] \in {"held", "running", "done", "leaked"}
       /\ gate = <<>>
       /\ Cardinality(Dropped) <= CP!PoolSize
  /\ step \in {"fill", "drain", "stop"} =>
       \A t \in Tasks :
         task[t] \in {"held", "running"} => \E w \in CP!Workers : ret[w] = t

\* The worker that has popped a job is one of PoolSize.
LEMMA DroppedBound ==
  ASSUME CP!TypeOK, \A t \in Tasks : task[t] # "leaked"
  PROVE  Cardinality(Dropped) <= CP!PoolSize
<1> DEFINE busy == {w \in CP!Workers : ret[w] # NoTask}
           job_of == [w \in busy |-> ret[w]]
<1>1. CP!PoolSize \in Nat /\ CP!Workers = 1 .. CP!PoolSize
  BY RawAssumption, PoolAssumption DEF CP!PoolSize, CP!Workers
<1>2. IsFiniteSet(CP!Workers) /\ Cardinality(CP!Workers) = CP!PoolSize
  BY <1>1, FS_Interval
<1>3. busy \in SUBSET CP!Workers
  OBVIOUS
<1>4. /\ IsFiniteSet(busy) /\ Cardinality(busy) <= CP!PoolSize
      /\ Cardinality(busy) \in Nat
  BY <1>2, <1>3, FS_Subset, FS_CardinalityType
<1>5. job_of \in Surjection(busy, Dropped)
  <2>1. ASSUME NEW w \in busy PROVE ret[w] \in Dropped
    BY <2>1 DEF CP!TypeOK, CP!Threads, Dropped
  <2>2. ASSUME NEW t \in Dropped PROVE \E w \in busy : job_of[w] = t
    BY <2>2, PoolAssumption DEF Dropped
  <2> QED
    BY <2>1, <2>2 DEF Surjection
<1>6. /\ IsFiniteSet(Dropped) /\ Cardinality(Dropped) <= Cardinality(busy)
  BY <1>4, <1>5, FS_Surjection
<1>7. Cardinality(Dropped) \in Nat
  BY <1>6, FS_CardinalityType
<1> QED
  BY <1>1, <1>4, <1>6, <1>7

LEMMA DroppedFinite ==
  /\ IsFiniteSet(Dropped) /\ Cardinality(Dropped) \in Nat
  /\ \A S \in SUBSET Dropped : Cardinality(S) <= Cardinality(Dropped)
                             /\ Cardinality(S) \in Nat
<1>1. IsFiniteSet(Tasks) /\ Dropped \in SUBSET Tasks
  BY ElementsAssumption DEF Dropped
<1>2. IsFiniteSet(Dropped)
  BY <1>1, FS_Subset
<1> QED
  BY <1>2, FS_Subset, FS_CardinalityType

LEMMA PhaseCalls ==
  ASSUME CP!IInv, CortexPhase, CortexCalls PROVE CortexPhase'
<1>0. CP!TypeOK /\ CP!SingleOwnership
  BY DEF CP!IInv
<1>1. CASE CortexStart
  <2>1. CP!Start /\ step = "pass" /\ step' = "fill"
    BY <1>1, CortexCallSteps
  <2> QED
    BY <1>0, <2>1 DEF CortexPhase, CP!Start
<1>2. CASE CortexFill
  <2>1. step = "fill" /\ step' = "fill"
    BY <1>2, CortexCallSteps
  <2>2. PICK t \in Tasks : CP!Enqueue(t)
    BY <1>2, CortexCallSteps
  <2> QED
    BY <1>0, <2>1, <2>2 DEF CortexPhase, CP!Enqueue, CP!TypeOK
<1>3. CASE CortexDrain
  <2>1. /\ step = "fill" /\ step' = "drain" /\ CP!DrainCall
        /\ \A t \in Tasks : task[t] # "new"
    BY <1>3, CortexCallSteps
  <2> QED
    BY <1>0, <2>1 DEF CortexPhase, CP!DrainCall
<1>4. CASE CortexStop
  <2>1. /\ step = "drain" /\ step' = "stop" /\ owner = "idle"
        /\ CP!StopCall("idle")
    BY <1>4, CortexCallSteps
  <2>2. UNCHANGED <<gate, ret, task>>
    BY <2>1 DEF CP!StopCall
  <2>3. Cardinality(Dropped)' <= CP!PoolSize
    <3>1. \A t \in Tasks : task[t] # "leaked"
      BY <2>1 DEF CortexPhase
    <3>2. Dropped' = Dropped
      BY <2>2 DEF Dropped
    <3> QED
      BY <1>0, <3>1, <3>2, DroppedBound
  <2>4. gate = <<>>
    BY <2>1 DEF CortexPhase
  <2>5. \A t \in Tasks : task[t] # "queued"
    BY <1>0, <2>4 DEF CP!SingleOwnership, CP!TypeOK
  <2> QED
    BY <1>0, <2>1, <2>2, <2>3, <2>4, <2>5 DEF CortexPhase, CP!StopCall
<1>5. CASE CortexDestroy
  <2>1. step' = "destroy"
    BY <1>5, CortexCallSteps
  <2> QED
    BY <2>1 DEF CortexPhase
<1> QED
  BY <1>1, <1>2, <1>3, <1>4, <1>5 DEF CortexCalls

LEMMA PhaseWorker ==
  ASSUME CP!IInv, CortexPhase, NEW w \in CP!Workers, CP!WorkerStep(w), step' = step
  PROVE  CortexPhase'
<1>0. /\ CP!TypeOK /\ CP!SingleOwnership /\ CP!RetInv /\ CP!PopNonEmpty
      /\ CP!StartedInv
  BY DEF CP!IInv
<1>1. /\ step \in {"fill", "drain", "stop"} \/ worker[w] \notin {"none", "exited"}
      /\ worker[w] \notin {"none", "exited"}
      /\ UNCHANGED <<processing, owner, resume>>
  BY DEF CP!WorkerStep, CP!WorkerCheck, CP!WorkerLock, CP!WorkerWait, CP!WorkerTake,
         CP!WorkerDispatch, CP!WorkerFinish
<1>2. step \notin Beginning
  BY <1>0, <1>1 DEF CortexPhase, CP!StartedInv
<1>3. CASE CP!WorkerCheck(w) \/ CP!WorkerLock(w) \/ CP!WorkerWait(w)
  <2>1. UNCHANGED <<gate, ret, task>>
    BY <1>3 DEF CP!WorkerCheck, CP!WorkerLock, CP!WorkerWait
  <2>2. Dropped' = Dropped
    BY <2>1 DEF Dropped
  <2> QED
    BY <1>1, <1>2, <2>1, <2>2 DEF CortexPhase
<1>4. CASE CP!WorkerTake(w) /\ processing
  <2>1. /\ gate # <<>> /\ worker[w] = "take" /\ ret[w] = NoTask
        /\ ret' = [ret EXCEPT ![w] = Head(gate)] /\ gate' = Tail(gate)
        /\ task' = [task EXCEPT ![Head(gate)] = "held"]
    BY <1>0, <1>4 DEF CP!WorkerTake, CP!PopNonEmpty, CP!RetInv
  <2>2. Head(gate) \in Tasks
    BY <1>0, <2>1 DEF CP!TypeOK
  <2>3. step # "stop" /\ (step = "drain" => owner # "idle")
    BY <1>4, <2>1 DEF CortexPhase
  <2>4. /\ ret'[w] = Head(gate) /\ \A v \in CP!Workers : v # w => ret'[v] = ret[v]
        /\ \A t \in Tasks : t # Head(gate) => task'[t] = task[t]
        /\ task'[Head(gate)] = "held"
    BY <1>0, <2>1, <2>2 DEF CP!TypeOK, CP!Threads
  <2>5. \A t \in Tasks :
          (\E v \in CP!Workers : ret[v] = t) => \E v \in CP!Workers : ret'[v] = t
    BY <2>1, <2>4, PoolAssumption
  <2> QED
    BY <1>1, <1>2, <2>3, <2>4, <2>5 DEF CortexPhase
<1>5. CASE CP!WorkerTake(w) /\ ~processing
  <2>1. UNCHANGED <<gate, ret, task>>
    BY <1>5 DEF CP!WorkerTake
  <2>2. Dropped' = Dropped
    BY <2>1 DEF Dropped
  <2> QED
    BY <1>1, <1>2, <2>1, <2>2 DEF CortexPhase
<1>6. CASE CP!WorkerDispatch(w) /\ processing
  <2>1. /\ ret[w] # NoTask /\ UNCHANGED <<gate, ret>>
        /\ task' = [task EXCEPT ![ret[w]] = "running"]
    BY <1>0, <1>6 DEF CP!WorkerDispatch, CP!RetInv
  <2>2. step # "stop"
    BY <1>6 DEF CortexPhase
  <2>3. \A t \in Tasks : task'[t] = IF t = ret[w] THEN "running" ELSE task[t]
    BY <1>0, <2>1 DEF CP!TypeOK
  <2> QED
    BY <1>1, <1>2, <2>1, <2>2, <2>3 DEF CortexPhase
<1>7. CASE CP!WorkerDispatch(w) /\ ~processing
  <2>1. /\ gate' = gate /\ ret' = [ret EXCEPT ![w] = NoTask]
        /\ task' = [t \in Tasks |-> IF t = ret[w] THEN "leaked" ELSE task[t]]
    BY <1>7 DEF CP!WorkerDispatch
  <2>2. step \notin {"fill", "drain"}
    BY <1>7 DEF CortexPhase
  <2>3. /\ \A v \in CP!Workers : ret'[v] = IF v = w THEN NoTask ELSE ret[v]
        /\ \A t \in Tasks : task'[t] = IF t = ret[w] THEN "leaked" ELSE task[t]
    BY <1>0, <2>1 DEF CP!TypeOK, CP!Threads
  <2>4. Dropped' = Dropped
    BY <2>3, PoolAssumption DEF Dropped
  <2> QED
    BY <1>1, <1>2, <2>1, <2>2, <2>3, <2>4 DEF CortexPhase
<1>8. CASE CP!WorkerFinish(w)
  <2>1. /\ ret[w] # NoTask /\ gate' = gate
        /\ task' = [task EXCEPT ![ret[w]] = "done"]
        /\ ret' = [ret EXCEPT ![w] = NoTask]
    BY <1>0, <1>8 DEF CP!WorkerFinish, CP!RetInv
  <2>2. /\ \A v \in CP!Workers : ret'[v] = IF v = w THEN NoTask ELSE ret[v]
        /\ \A t \in Tasks : task'[t] = IF t = ret[w] THEN "done" ELSE task[t]
    BY <1>0, <2>1 DEF CP!TypeOK, CP!Threads
  <2>3. Dropped' \in SUBSET Dropped
    BY <2>2, PoolAssumption DEF Dropped
  <2>4. CP!PoolSize \in Nat
    BY RawAssumption, PoolAssumption DEF CP!PoolSize
  <2>5. Cardinality(Dropped) <= CP!PoolSize => Cardinality(Dropped') <= CP!PoolSize
    BY <2>3, <2>4, DroppedFinite
  <2> QED
    BY <1>1, <1>2, <2>1, <2>2, <2>5, PoolAssumption DEF CortexPhase
<1> QED
  BY <1>3, <1>4, <1>5, <1>6, <1>7, <1>8 DEF CP!WorkerStep

LEMMA PhaseOwner ==
  ASSUME CP!IInv, CortexPhase, CP!OwnerStep, step' = step
  PROVE  CortexPhase'
<1>0. CP!TypeOK
  BY DEF CP!IInv
<1>1. CASE CP!StopSignal \/ CP!StopJoin
  <2>1. UNCHANGED <<gate, ret, task, processing, resume>>
    BY <1>1 DEF CP!StopSignal, CP!StopJoin
  <2>2. Dropped' = Dropped
    BY <2>1 DEF Dropped
  <2>3. owner \in {"signal", "join"} /\ owner' \in {"join", resume}
    BY <1>1 DEF CP!StopSignal, CP!StopJoin
  <2> QED
    BY <2>1, <2>2, <2>3 DEF CortexPhase
<1>2. CASE CP!DrainTest \/ CP!DrainWait
  <2>1. /\ UNCHANGED <<gate, ret, task, processing, resume>>
        /\ owner \in {"drain", "drainWait"}
        /\ owner' \in {"drain", "drainWait"} \/ (owner' = "idle" /\ gate = <<>>)
    BY <1>2 DEF CP!DrainTest, CP!DrainWait
  <2> QED
    BY <2>1 DEF CortexPhase
<1>3. CASE \/ CP!IterateLock \/ CP!IterateRun \/ CP!IterateFinish
           \/ CP!IterateUnlock \/ CP!DestroyGate
  <2>1. owner \in {"iterate", "process", "run", "destroy"}
    BY <1>3 DEF CP!IterateLock, CP!IterateRun, CP!IterateFinish, CP!IterateUnlock,
                CP!DestroyGate
  <2>2. step \notin Beginning \cup {"fill", "drain", "stop"}
    BY <2>1 DEF CortexPhase
  <2> QED
    BY <2>2 DEF CortexPhase
<1> QED
  BY <1>1, <1>2, <1>3 DEF CP!OwnerStep

LEMMA PhaseStep ==
  ASSUME CP!IInv, CortexPhase, [DriverNext]_testVars PROVE CortexPhase'
<1>1. CASE CortexCalls
  BY <1>1, PhaseCalls
<1>2. CASE CortexWorkers
  <2>1. step' = step
    BY <1>2 DEF CortexWorkers, mainVars
  <2>2. CASE \E w \in Core!Workers : Core!WorkerStep(w)
    BY <2>1, <2>2, CortexIds, CortexWorkerStep, PhaseWorker
  <2>3. CASE Core!SpuriousWake
    <3>1. UNCHANGED <<gate, ret, task, processing, owner, resume>>
      BY <2>3 DEF Core!SpuriousWake
    <3>2. Dropped' = Dropped
      BY <3>1 DEF Dropped
    <3> QED
      BY <2>1, <3>1, <3>2 DEF CortexPhase
  <2> QED
    BY <1>2, <2>2, <2>3 DEF CortexWorkers
<1>3. CASE CP!OwnerStep /\ step' = step
  BY <1>3, PhaseOwner
<1>4. CASE PassEnd
  BY <1>4 DEF PassEnd, NextPass, NewCortex, CortexPhase
<1>5. CASE UNCHANGED cortexVars /\ (step' = step \/ MqtCalls \/ RawTest \/ Reading)
  <2>1. UNCHANGED <<gate, ret, task, processing, owner, resume>>
    BY <1>5 DEF cortexVars
  <2>2. Dropped' = Dropped
    BY <2>1 DEF Dropped
  <2>3. CASE step' = step
    BY <2>1, <2>2, <2>3 DEF CortexPhase
  <2>4. CASE Reading
    <3>1. step \in Beginning /\ step' \in Beginning
      BY <2>4 DEF Reading, Options, ParseOption, ParseOptionUnguarded,
              ParseEnd, GenerateNumbers
    <3> QED
      BY <2>1, <3>1 DEF CortexPhase
  <2>5. CASE MqtCalls \/ RawTest
    <3>1. step' \in {"mqtFill", "mqtDrain", "mqtStop", "mqtDestroy", "raw"}
      BY <2>5 DEF MqtCalls, MqtStart, MqtFill, MqtDrain, MqtStop, MqtDestroy, RawTest,
                  Goto, mainVars
    <3> QED
      BY <3>1 DEF CortexPhase
  <2> QED
    BY <1>5, <2>3, <2>4, <2>5
<1> QED
  BY <1>1, <1>2, <1>3, <1>4, <1>5, CortexMoves

\* When stop() has returned no worker is left to hold a job.
LEMMA PassLoses == CP!IInv /\ CortexPhase => CortexPassLoses
<1> SUFFICES ASSUME CP!IInv, CortexPhase, step = "stop", owner = "idle"
             PROVE  /\ \A t \in Tasks : task[t] \in {"done", "leaked"}
                    /\ Cardinality({t \in Tasks : task[t] = "leaked"}) <= Core!PoolSize
  BY DEF CortexPassLoses
<1> DEFINE leaked == {t \in Tasks : task[t] = "leaked"}
<1>1. \A w \in CP!Workers : ret[w] = NoTask
  BY DEF CP!IInv, CP!StartedInv, CP!RetInv, CortexPhase
<1>2. \A t \in Tasks : task[t] \in {"done", "leaked"}
  BY <1>1, PoolAssumption DEF CortexPhase
<1>3. leaked \in SUBSET Dropped
  BY DEF Dropped
<1>4. CP!PoolSize \in Nat /\ Core!PoolSize = CP!PoolSize
  BY RawAssumption, PoolAssumption, CortexIds DEF CP!PoolSize
<1>5. Cardinality(Dropped) <= CP!PoolSize
  BY DEF CortexPhase
<1>6. Cardinality(leaked) <= Core!PoolSize
  <2> HIDE DEF leaked
  <2> QED
    BY <1>3, <1>4, <1>5, DroppedFinite
<1> QED
  BY <1>2, <1>6

-----------------------------------------------------------------------------
(* And so does its MultiQueueThreadpool.                                   *)

MP == INSTANCE MultiQueueThreadpoolProofs WITH
  Clients <- {Driver}, processing <- mq_processing, worker <- mq_worker,
  owner <- mq_owner, resume <- mq_resume, task <- mq_task

LEMMA MqtAssumptions == MP!NumThreadsAssumption /\ MP!NoTaskAssumption
BY PoolAssumption, RawAssumption DEF MP!NumThreadsAssumption, MP!NoTaskAssumption

LEMMA MqtIds ==
  /\ Mqt!Queues = MP!Queues /\ Mqt!PoolSize = MP!PoolSize
  /\ Mqt!Outside = MP!Outside
  /\ \A q : Mqt!Ended(q) <=> MP!Ended(q)
BY DEF Mqt!Queues, MP!Queues, Mqt!PoolSize, MP!PoolSize, Mqt!Outside, MP!Outside,
       Mqt!INT_MAX, MP!INT_MAX, Mqt!Ended, MP!Ended

LEMMA MqtWorkerStep ==
  ASSUME NEW q \in Mqt!Queues, Mqt!WorkerStep(q) PROVE MP!WorkerStep(q)
BY DEF Mqt!WorkerStep, Mqt!WorkerCheck, Mqt!WorkerTry, Mqt!WorkerPost,
       Mqt!WorkerWait, Mqt!WorkerWoken, Mqt!WorkerTryEmpty, Mqt!WorkerTest,
       Mqt!WorkerPop, Mqt!WorkerFinish, Mqt!Goto,
       MP!WorkerStep, MP!WorkerCheck, MP!WorkerTry, MP!WorkerPost, MP!WorkerWait,
       MP!WorkerWoken, MP!WorkerTryEmpty, MP!WorkerTest, MP!WorkerPop,
       MP!WorkerFinish, MP!Goto

LEMMA MqtEnqueueStep == Mqt!EnqueueStep(Driver) => MP!EnqueueStep(Driver)
BY MqtIds
   DEF Mqt!EnqueueStep, Mqt!EnqueueScan, Mqt!EnqueuePush,
       MP!EnqueueStep, MP!EnqueueScan, MP!EnqueuePush

LEMMA MqtOwnerStep == Mqt!OwnerStep => MP!OwnerStep
BY MqtIds
   DEF Mqt!OwnerStep, Mqt!StopFlag, Mqt!StopPost, Mqt!StopJoin, Mqt!DrainWait,
       Mqt!DrainTest, Mqt!DestroyTask, Mqt!DestroyQueue,
       MP!OwnerStep, MP!StopFlag, MP!StopPost, MP!StopJoin, MP!DrainWait,
       MP!DrainTest, MP!DestroyTask, MP!DestroyQueue

LEMMA MqtCallSteps ==
  /\ MqtStart => MP!Start /\ step = "stop" /\ step' = "mqtFill"
  /\ MqtFill => /\ step = "mqtFill" /\ step' = "mqtFill"
                /\ \E t \in Tasks : MP!EnqueueCall(Driver, t)
  /\ MqtDrain => /\ step = "mqtFill" /\ step' = "mqtDrain" /\ MP!DrainCall
                 /\ \A t \in Tasks : mq_task[t] # "new"
  /\ MqtStop => /\ step = "mqtDrain" /\ step' = "mqtStop" /\ mq_owner = "idle"
                /\ MP!StopCall("idle")
  /\ MqtDestroy => step = "raw" /\ step' = "mqtDestroy" /\ MP!Destroy
<1>1. MqtStart => MP!Start /\ step = "stop" /\ step' = "mqtFill"
  BY MqtIds DEF MqtStart, Mqt!Start, MP!Start, Goto
<1>2. MqtFill => /\ step = "mqtFill" /\ step' = "mqtFill"
                 /\ \E t \in Tasks : MP!EnqueueCall(Driver, t)
  <2> SUFFICES ASSUME MqtFill
               PROVE  /\ step = "mqtFill" /\ step' = "mqtFill"
                      /\ \E t \in Tasks : MP!EnqueueCall(Driver, t)
    OBVIOUS
  <2> DEFINE next == CHOOSE t \in Tasks : mq_task[t] = "new"
  <2>1. next \in Tasks
    BY DEF MqtFill
  <2>2. step = "mqtFill" /\ step' = "mqtFill" /\ Mqt!EnqueueCall(Driver, next)
    BY DEF MqtFill, mainVars
  <2> HIDE DEF next
  <2>3. MP!EnqueueCall(Driver, next)
    BY <2>2 DEF Mqt!EnqueueCall, MP!EnqueueCall
  <2> QED
    BY <2>1, <2>2, <2>3
<1>3. MqtDrain => /\ step = "mqtFill" /\ step' = "mqtDrain" /\ MP!DrainCall
                  /\ \A t \in Tasks : mq_task[t] # "new"
  BY DEF MqtDrain, Mqt!DrainCall, MP!DrainCall, Goto
<1>4. MqtStop => /\ step = "mqtDrain" /\ step' = "mqtStop" /\ mq_owner = "idle"
                 /\ MP!StopCall("idle")
  BY DEF MqtStop, Mqt!Stop, Mqt!StopCall, MP!StopCall, Goto
<1>5. MqtDestroy => step = "raw" /\ step' = "mqtDestroy" /\ MP!Destroy
  BY DEF MqtDestroy, Mqt!Destroy, Mqt!StopCall, MP!Destroy, MP!StopCall, Goto
<1> QED
  BY <1>1, <1>2, <1>3, <1>4, <1>5

\* What happens to the MultiQueueThreadpool in a step of the driver.
LEMMA MqtMoves ==
  ASSUME [DriverNext]_testVars
  PROVE  \/ MqtCalls
         \/ MqtWorkers
         \/ (MP!EnqueueStep(Driver) \/ MP!OwnerStep) /\ step' = step
         \/ PassEnd
         \/ UNCHANGED mqVars /\ (step' = step \/ CortexCalls \/ RawTest \/ Reading)
<1>1. CASE CortexCalls \/ RawTest \/ Reading
  BY <1>1 DEF CortexCalls, CortexStart, CortexFill, CortexDrain, CortexStop,
              CortexDestroy, RawTest, Reading, Options, ParseOption, ParseOptionUnguarded,
              ParseEnd, GenerateNumbers
<1>2. CASE MqtOwner
  BY <1>2, MqtOwnerStep, MqtEnqueueStep DEF MqtOwner, mainVars
<1>3. CASE CortexWorkers \/ CortexOwner \/ RawThreads \/ Finished \/ UNCHANGED testVars
  BY <1>3 DEF CortexWorkers, CortexOwner, RawThreads, Finished, testVars, mainVars
<1> QED
  BY <1>1, <1>2, <1>3 DEF DriverNext, Reading, TestNext, Pass

LEMMA NewMqtInv == PassEnd => MP!IInv'
<1>1. MP!Init => MP!IInv
  BY MP!InitIInv, MqtAssumptions
<1>2. MP!Init' => MP!IInv'
  BY <1>1, PTL
<1>3. PassEnd => MP!Init'
  BY MqtIds DEF PassEnd, NextPass, NewMqt, MP!Init
<1> QED
  BY <1>2, <1>3

LEMMA MqtStep ==
  [DriverNext]_testVars => PassEnd \/ [MP!Next]_(MP!vars)
<1> SUFFICES ASSUME [DriverNext]_testVars, ~PassEnd PROVE [MP!Next]_(MP!vars)
  OBVIOUS
<1>1. CASE MqtCalls
  BY <1>1, MqtCallSteps DEF MqtCalls, MP!Next, MP!OwnerCall, MP!Stop
<1>2. CASE MqtWorkers
  BY <1>2, MqtWorkerStep, MqtIds DEF MqtWorkers, MP!Next
<1>3. CASE MP!EnqueueStep(Driver) \/ MP!OwnerStep
  BY <1>3 DEF MP!Next
<1>4. CASE UNCHANGED mqVars
  BY <1>4 DEF mqVars, MP!vars
<1> QED
  BY <1>1, <1>2, <1>3, <1>4, MqtMoves

LEMMA MqtInvStep == MP!IInv /\ [DriverNext]_testVars => MP!IInv'
<1>1. MP!IInv /\ [MP!Next]_(MP!vars) => MP!IInv'
  BY MP!TypeStep, MP!StopStep, MP!BalanceStep, MP!PopStep, MP!EmptyStep,
     MP!OwnershipStep, MP!DrainStep, MqtAssumptions DEF MP!IInv
<1> QED
  BY <1>1, MqtStep, NewMqtInv

\* What the MultiQueueThreadpool of a pass is like, by how far the driver has
\* come, and where each job is.
MqtPhase ==
  /\ step \in Beginning \cup {"fill", "drain", "stop"} =>
       /\ ~mq_processing /\ mq_owner = "idle" /\ mq_resume = "idle"
       /\ enqueue[Driver].task = NoTask
       /\ \A t \in Tasks : mq_task[t] = "new"
  /\ step = "mqtFill" =>
       /\ mq_processing /\ mq_owner = "idle"
       /\ \A t \in Tasks : mq_task[t] # "deleted"
  /\ step = "mqtDrain" =>
       /\ mq_processing /\ mq_owner \in {"idle", "drainWait", "drainTest"}
       /\ enqueue[Driver].task = NoTask
       /\ \A t \in Tasks : mq_task[t] \in {"queued", "running", "done"}
       /\ mq_owner = "idle" => \A q \in MP!Queues : queue[q] = <<>>
  /\ step = "mqtStop" =>
       /\ ~mq_processing /\ mq_owner \in {"flag", "post", "join", "idle"}
       /\ mq_resume = "idle" /\ enqueue[Driver].task = NoTask
       /\ \A t \in Tasks : mq_task[t] \in {"running", "done"}
  /\ step \in {"mqtFill", "mqtDrain", "mqtStop"} =>
       \A t \in Tasks :
         /\ mq_task[t] = "offered" => enqueue[Driver].task = t
         /\ mq_task[t] = "queued" =>
              \E q \in MP!Queues : \E k \in 1 .. Len(queue[q]) : queue[q][k] = t
         /\ mq_task[t] = "running" => \E q \in MP!Queues : job[q] = t

LEMMA MqtPhaseCalls ==
  ASSUME MP!IInv, MqtPhase, MqtCalls PROVE MqtPhase'
<1>0. MP!TypeOK
  BY DEF MP!IInv
<1>1. CASE MqtStart
  <2>1. MP!Start /\ step = "stop" /\ step' = "mqtFill"
    BY <1>1, MqtCallSteps
  <2> QED
    BY <1>0, <2>1 DEF MqtPhase, MP!Start
<1>2. CASE MqtFill
  <2>1. step = "mqtFill" /\ step' = "mqtFill"
    BY <1>2, MqtCallSteps
  <2>2. PICK t \in Tasks : MP!EnqueueCall(Driver, t)
    BY <1>2, MqtCallSteps
  <2>3. /\ enqueue[Driver].task = NoTask /\ enqueue'[Driver].task = t
        /\ UNCHANGED <<mq_processing, mq_owner, queue, job>>
        /\ \A u \in Tasks : mq_task'[u] = IF u = t THEN "offered" ELSE mq_task[u]
    BY <1>0, <2>2 DEF MP!EnqueueCall, MP!TypeOK, MP!Locals
  <2> QED
    BY <1>0, <2>1, <2>3, PoolAssumption DEF MqtPhase
<1>3. CASE MqtDrain
  <2>1. /\ step = "mqtFill" /\ step' = "mqtDrain" /\ MP!DrainCall
        /\ \A t \in Tasks : mq_task[t] # "new"
    BY <1>3, MqtCallSteps
  <2>2. /\ enqueue[Driver].task = NoTask /\ mq_owner' = "drainWait"
        /\ UNCHANGED <<mq_processing, queue, job, mq_task, enqueue>>
    BY <2>1 DEF MP!DrainCall
  <2>3. \A t \in Tasks : mq_task[t] \in {"queued", "running", "done"}
    BY <1>0, <2>1, <2>2, PoolAssumption DEF MqtPhase, MP!TypeOK, MP!TaskStates
  <2> QED
    BY <2>1, <2>2, <2>3 DEF MqtPhase
<1>4. CASE MqtStop
  <2>1. /\ step = "mqtDrain" /\ step' = "mqtStop" /\ mq_owner = "idle"
        /\ MP!StopCall("idle")
    BY <1>4, MqtCallSteps
  <2>2. \A q \in MP!Queues : queue[q] = <<>>
    BY <2>1 DEF MqtPhase
  <2>3. \A t \in Tasks : mq_task[t] # "queued"
    BY <2>1, <2>2 DEF MqtPhase
  <2> QED
    BY <2>1, <2>3 DEF MqtPhase, MP!StopCall
<1>5. CASE MqtDestroy
  <2>1. step' = "mqtDestroy"
    BY <1>5, MqtCallSteps
  <2> QED
    BY <2>1 DEF MqtPhase
<1> QED
  BY <1>1, <1>2, <1>3, <1>4, <1>5 DEF MqtCalls

\* The job that the driver pushes is in a queue, and every other one stays there.
LEMMA MqtPhasePush ==
  ASSUME MP!IInv, MqtPhase, MP!EnqueueStep(Driver), step' = step
  PROVE  MqtPhase'
<1>0. MP!TypeOK
  BY DEF MP!IInv
<1> DEFINE e == enqueue[Driver]
<1>1. /\ e \in MP!Locals /\ e.task \in Tasks /\ e.task # NoTask
      /\ e.lowestIdx \in MP!Queues
      /\ UNCHANGED <<mq_processing, mq_owner, mq_resume, job>>
  BY <1>0 DEF MP!TypeOK, MP!Locals, MP!EnqueueStep, MP!EnqueueScan, MP!EnqueuePush
<1>2. step \notin Beginning \cup {"fill", "drain", "stop", "mqtDrain",
                                "mqtStop"}
  BY <1>1 DEF MqtPhase
<1>3. CASE MP!EnqueueScan(Driver)
  <2>1. UNCHANGED <<queue, mq_task>>
    BY <1>3 DEF MP!EnqueueScan
  <2>2. enqueue'[Driver].task = e.task
    BY <1>0, <1>1, <1>3 DEF MP!EnqueueScan, MP!TypeOK, MP!Locals
  <2> QED
    BY <1>1, <1>2, <2>1, <2>2 DEF MqtPhase
<1>4. CASE MP!EnqueuePush(Driver)
  <2> DEFINE low == e.lowestIdx
             pushed == Append(queue[low], e.task)
  <2>1. /\ queue' = [queue EXCEPT ![low] = pushed]
        /\ mq_task' = [mq_task EXCEPT ![e.task] = "queued"]
    BY <1>4 DEF MP!EnqueuePush
  <2>2. /\ Len(pushed) = Len(queue[low]) + 1 /\ Len(queue[low]) \in Nat
        /\ pushed[Len(queue[low]) + 1] = e.task
        /\ \A k \in 1 .. Len(queue[low]) : pushed[k] = queue[low][k]
    BY <1>0, <1>1 DEF MP!TypeOK
  <2>3. /\ queue'[low] = pushed
        /\ \A q \in MP!Queues : q # low => queue'[q] = queue[q]
        /\ \A t \in Tasks : mq_task'[t] = IF t = e.task THEN "queued" ELSE mq_task[t]
    BY <1>0, <1>1, <2>1 DEF MP!TypeOK
  <2>4. \E k \in 1 .. Len(queue'[low]) : queue'[low][k] = e.task
    BY <2>2, <2>3
  <2>5. ASSUME NEW q \in MP!Queues, NEW k \in 1 .. Len(queue[q])
        PROVE  k \in 1 .. Len(queue'[q]) /\ queue'[q][k] = queue[q][k]
    BY <2>2, <2>3, <2>5
  <2> HIDE DEF low, pushed
  <2> QED
    BY <1>1, <1>2, <2>3, <2>4, <2>5 DEF MqtPhase, low
<1> QED
  BY <1>3, <1>4 DEF MP!EnqueueStep

LEMMA MqtPhaseWorker ==
  ASSUME MP!IInv, MqtPhase, NEW q \in MP!Queues, MP!WorkerStep(q), step' = step
  PROVE  MqtPhase'
<1>0. /\ MP!TypeOK /\ MP!SingleOwnership /\ MP!PopNonEmpty /\ MP!StopInv
  BY DEF MP!IInv
<1>1. /\ ~MP!Ended(q)
      /\ UNCHANGED <<mq_processing, mq_owner, mq_resume, enqueue>>
  BY DEF MP!WorkerStep, MP!WorkerCheck, MP!WorkerTry, MP!WorkerPost, MP!WorkerWait,
         MP!WorkerWoken, MP!WorkerTryEmpty, MP!WorkerTest, MP!WorkerPop,
         MP!WorkerFinish, MP!Ended
<1>2. step \notin Beginning \cup {"fill", "drain", "stop"}
  BY <1>0, <1>1 DEF MqtPhase, MP!StopInv
<1>3. CASE MP!WorkerPop(q)
  <2> DEFINE front == Head(queue[q])
  <2>1. /\ queue[q] \in Seq(Tasks) /\ queue[q] # <<>> /\ job[q] = NoTask
        /\ job' = [job EXCEPT ![q] = front]
        /\ queue' = [queue EXCEPT ![q] = Tail(queue[q])]
        /\ mq_task' = [mq_task EXCEPT ![front] = "running"]
    BY <1>0, <1>3 DEF MP!WorkerPop, MP!PopNonEmpty, MP!TypeOK, MP!SingleOwnership
  <2>2. /\ front \in Tasks /\ front = queue[q][1] /\ 1 \in 1 .. Len(queue[q])
        /\ Len(queue[q]) \in Nat /\ Len(Tail(queue[q])) = Len(queue[q]) - 1
        /\ \A k \in 1 .. Len(Tail(queue[q])) : Tail(queue[q])[k] = queue[q][k + 1]
    BY <2>1
  <2>3. /\ job'[q] = front /\ \A p \in MP!Queues : p # q => job'[p] = job[p]
        /\ queue'[q] = Tail(queue[q])
        /\ \A p \in MP!Queues : p # q => queue'[p] = queue[p]
        /\ \A t \in Tasks : mq_task'[t] = IF t = front THEN "running" ELSE mq_task[t]
    BY <1>0, <2>1, <2>2 DEF MP!TypeOK
  <2>4. ASSUME NEW t \in Tasks, t # front,
               \E p \in MP!Queues : \E k \in 1 .. Len(queue[p]) : queue[p][k] = t
        PROVE  \E p \in MP!Queues : \E k \in 1 .. Len(queue'[p]) : queue'[p][k] = t
    <3>0. PICK p \in MP!Queues : \E k \in 1 .. Len(queue[p]) : queue[p][k] = t
      BY <2>4
    <3>1. PICK k \in 1 .. Len(queue[p]) : queue[p][k] = t
      BY <3>0
    <3>2. CASE p # q
      BY <2>3, <3>1, <3>2
    <3>3. CASE p = q
      <4>1. k # 1 /\ k - 1 \in 1 .. Len(Tail(queue[q]))
        BY <2>2, <2>4, <3>1, <3>3
      <4>2. queue'[q][k - 1] = t
        BY <2>2, <2>3, <3>1, <3>3, <4>1
      <4> QED
        BY <2>3, <4>1, <4>2
    <3> QED
      BY <3>2, <3>3
  <2>5. mq_task[front] = "queued"
    BY <1>0, <2>2 DEF MP!SingleOwnership
  <2>6. step # "mqtStop"
    BY <2>2, <2>5 DEF MqtPhase
  <2>7. ~(step = "mqtDrain" /\ mq_owner = "idle")
    BY <2>1 DEF MqtPhase
  <2>8. \A t \in Tasks :
          (\E p \in MP!Queues : job[p] = t) => \E p \in MP!Queues : job'[p] = t
    BY <2>1, <2>3, PoolAssumption
  <2> HIDE DEF front
  <2> QED
    BY <1>1, <1>2, <2>2, <2>3, <2>4, <2>6, <2>7, <2>8 DEF MqtPhase
<1>4. CASE MP!WorkerFinish(q)
  <2>1. /\ job[q] \in Tasks /\ mq_task[job[q]] = "running" /\ queue' = queue
        /\ mq_task' = [mq_task EXCEPT ![job[q]] = "done"]
        /\ job' = [job EXCEPT ![q] = NoTask]
    BY <1>0, <1>4 DEF MP!WorkerFinish, MP!SingleOwnership, MP!TypeOK
  <2>2. /\ \A p \in MP!Queues : job'[p] = IF p = q THEN NoTask ELSE job[p]
        /\ \A t \in Tasks : mq_task'[t] = IF t = job[q] THEN "done" ELSE mq_task[t]
    BY <1>0, <2>1 DEF MP!TypeOK
  <2> QED
    BY <1>1, <1>2, <2>1, <2>2 DEF MqtPhase
<1>5. CASE ~MP!WorkerPop(q) /\ ~MP!WorkerFinish(q)
  <2>1. UNCHANGED <<queue, job, mq_task>>
    BY <1>5 DEF MP!WorkerStep, MP!WorkerCheck, MP!WorkerTry, MP!WorkerPost,
                MP!WorkerWait, MP!WorkerWoken, MP!WorkerTryEmpty, MP!WorkerTest
  <2> QED
    BY <1>1, <1>2, <2>1 DEF MqtPhase
<1> QED
  BY <1>3, <1>4, <1>5

LEMMA MqtPhaseOwner ==
  ASSUME MP!IInv, MqtPhase, MP!OwnerStep, step' = step
  PROVE  MqtPhase'
<1>0. MP!TypeOK /\ MP!DrainInv
  BY DEF MP!IInv
<1>1. CASE MP!StopFlag \/ MP!StopPost \/ MP!StopJoin
  <2>1. /\ UNCHANGED <<queue, job, mq_task, enqueue, mq_processing, mq_resume>>
        /\ mq_owner \in {"flag", "post", "join"}
        /\ mq_owner' \in {"flag", "post", "join", mq_resume}
    BY <1>1 DEF MP!StopFlag, MP!StopPost, MP!StopJoin
  <2> QED
    BY <2>1 DEF MqtPhase
<1>2. CASE MP!DrainWait
  <2>1. /\ UNCHANGED <<queue, job, mq_task, enqueue, mq_processing, mq_resume>>
        /\ mq_owner = "drainWait" /\ mq_owner' = "drainTest"
    BY <1>2 DEF MP!DrainWait
  <2> QED
    BY <2>1 DEF MqtPhase
<1>3. CASE MP!DrainTest
  <2>1. /\ UNCHANGED <<queue, job, mq_task, enqueue, mq_processing, mq_resume>>
        /\ mq_owner = "drainTest"
        /\ \/ mq_owner' = "drainWait"
           \/ mq_owner' = "idle" /\ at = MP!PoolSize /\ queue[at] = <<>>
    BY <1>3 DEF MP!DrainTest
  <2>2. mq_owner' = "idle" => \A q \in MP!Queues : queue[q] = <<>>
    <3> SUFFICES ASSUME mq_owner' = "idle", NEW q \in MP!Queues
                 PROVE  queue[q] = <<>>
      OBVIOUS
    <3>1. at = MP!PoolSize /\ queue[at] = <<>>
      BY <2>1
    <3>2. MP!PoolSize \in Nat
      BY RawAssumption, PoolAssumption DEF MP!PoolSize
    <3>3. q < at \/ q = at
      BY <3>1, <3>2 DEF MP!Queues
    <3> QED
      BY <1>0, <2>1, <3>1, <3>3 DEF MP!DrainInv
  <2> QED
    BY <2>1, <2>2 DEF MqtPhase
<1>4. CASE MP!DestroyTask \/ MP!DestroyQueue
  <2>1. mq_owner = "destroy"
    BY <1>4 DEF MP!DestroyTask, MP!DestroyQueue
  <2>2. step \notin Beginning \cup {"fill", "drain", "stop", "mqtFill",
                                  "mqtDrain", "mqtStop"}
    BY <2>1 DEF MqtPhase
  <2> QED
    BY <2>2 DEF MqtPhase
<1> QED
  BY <1>1, <1>2, <1>3, <1>4 DEF MP!OwnerStep

LEMMA MqtPhaseStep ==
  ASSUME MP!IInv, MqtPhase, [DriverNext]_testVars PROVE MqtPhase'
<1>1. CASE MqtCalls
  BY <1>1, MqtPhaseCalls
<1>2. CASE MqtWorkers
  BY <1>2, MqtIds, MqtWorkerStep, MqtPhaseWorker DEF MqtWorkers, mainVars
<1>3. CASE (MP!EnqueueStep(Driver) \/ MP!OwnerStep) /\ step' = step
  BY <1>3, MqtPhasePush, MqtPhaseOwner
<1>4. CASE PassEnd
  BY <1>4, MqtIds DEF PassEnd, NextPass, NewMqt, MqtPhase, MP!Outside
<1>5. CASE UNCHANGED mqVars /\ (step' = step \/ CortexCalls \/ RawTest \/ Reading)
  <2>1. UNCHANGED <<queue, job, mq_task, enqueue, mq_processing, mq_owner, mq_resume>>
    BY <1>5 DEF mqVars
  <2>2. CASE step' = step
    BY <2>1, <2>2 DEF MqtPhase
  <2>3. CASE Reading
    <3>1. step \in Beginning /\ step' \in Beginning
      BY <2>3 DEF Reading, Options, ParseOption, ParseOptionUnguarded,
              ParseEnd, GenerateNumbers
    <3> QED
      BY <2>1, <3>1 DEF MqtPhase
  <2>4. CASE CortexCalls
    <3>1. \/ step \in {"pass", "fill", "drain"} /\ step' \in {"fill", "drain", "stop"}
          \/ step' = "destroy"
      BY <2>4, CortexCallSteps DEF CortexCalls
    <3> QED
      BY <2>1, <3>1 DEF MqtPhase
  <2>5. CASE RawTest
    <3>1. step' = "raw"
      BY <2>5 DEF RawTest, Goto
    <3> QED
      BY <3>1 DEF MqtPhase
  <2> QED
    BY <1>5, <2>2, <2>3, <2>4, <2>5
<1> QED
  BY <1>1, <1>2, <1>3, <1>4, <1>5, MqtMoves

\* When stop() has returned no worker is executing a job any more.
LEMMA PassComplete == MP!IInv /\ MqtPhase => MqtPassComplete
<1> SUFFICES ASSUME MP!IInv, MqtPhase, step = "mqtStop", mq_owner = "idle",
                    NEW t \in Tasks
             PROVE  mq_task[t] = "done"
  BY DEF MqtPassComplete
<1>1. ~mq_processing /\ mq_task[t] \in {"running", "done"}
  BY DEF MqtPhase
<1>2. ASSUME NEW q \in MP!Queues PROVE job[q] = NoTask
  <2>1. MP!Ended(q)
    BY <1>1 DEF MP!IInv, MP!StopInv
  <2> QED
    BY <2>1 DEF MP!IInv, MP!SingleOwnership, MP!Ended
<1>3. mq_task[t] # "running"
  BY <1>2, PoolAssumption DEF MqtPhase
<1> QED
  BY <1>1, <1>3

-----------------------------------------------------------------------------
(* The one drain() of a pass finds its tokens.                             *)

\* Queue q has not been drained yet in this pass.
ToDrain(q) ==
  \/ step = "mqtFill"
  \/ step = "mqtDrain" /\ mq_owner = "drainWait" /\ at <= q
  \/ step = "mqtDrain" /\ mq_owner = "drainTest" /\ at < q

\* A worker that waits has left its token in empty_sem, and drain() takes it only
\* when it comes to that queue; if it then finds a job there, so will the worker.
TokensLeft ==
  /\ step \notin {"mqtFill", "mqtDrain"} => ~mq_processing
  /\ \A q \in MP!Queues :
       mq_worker[q] = "wait" /\ ToDrain(q) => emptySem[q] > 0 \/ queue[q] # <<>>

\* No call that the driver makes of the pool waits for a thread that itself waits.
MqtNeverBlocks ==
  /\ mq_owner = "drainWait" => emptySem[at] > 0 \/ MP!WorkerCanGo(at)
  /\ MP!JoinNeverBlocks
  /\ MP!DestroyNeverBlocks

LEMMA TokensLeftCalls ==
  ASSUME MP!IInv, MqtPhase, TokensLeft, MqtCalls PROVE TokensLeft'
<1>1. CASE MqtStart
  <2>1. step' = "mqtFill" /\ MP!Start
    BY <1>1, MqtCallSteps
  <2>2. mq_worker' = [q \in MP!Queues |-> "check"]
    BY <2>1 DEF MP!Start
  <2> QED
    BY <2>1, <2>2 DEF TokensLeft
<1>2. CASE MqtFill
  <2>1. step = "mqtFill" /\ step' = "mqtFill"
        /\ \E t \in Tasks : MP!EnqueueCall(Driver, t)
    BY <1>2, MqtCallSteps
  <2>2. UNCHANGED <<mq_worker, emptySem, queue>>
    BY <2>1 DEF MP!EnqueueCall
  <2> QED
    BY <2>1, <2>2 DEF TokensLeft, ToDrain
<1>3. CASE MqtDrain
  <2>1. step = "mqtFill" /\ step' = "mqtDrain" /\ MP!DrainCall
    BY <1>3, MqtCallSteps
  <2>2. UNCHANGED <<mq_worker, emptySem, queue>>
    BY <2>1 DEF MP!DrainCall
  <2> QED
    BY <2>1, <2>2 DEF TokensLeft, ToDrain
<1>4. CASE MqtStop
  <2>1. step' = "mqtStop" /\ MP!StopCall("idle")
    BY <1>4, MqtCallSteps
  <2> QED
    BY <2>1 DEF TokensLeft, ToDrain, MP!StopCall
<1>5. CASE MqtDestroy
  <2>1. step' = "mqtDestroy" /\ MP!Destroy
    BY <1>5, MqtCallSteps
  <2> QED
    BY <2>1 DEF TokensLeft, ToDrain, MP!Destroy, MP!StopCall
<1> QED
  BY <1>1, <1>2, <1>3, <1>4, <1>5 DEF MqtCalls

LEMMA TokensLeftWorker ==
  ASSUME MP!IInv, TokensLeft, NEW q \in MP!Queues, MP!WorkerStep(q), step' = step
  PROVE  TokensLeft'
<1>0. MP!TypeOK
  BY DEF MP!IInv
<1>1. UNCHANGED <<mq_processing, mq_owner, at>>
  BY DEF MP!WorkerStep, MP!WorkerCheck, MP!WorkerTry, MP!WorkerPost, MP!WorkerWait,
         MP!WorkerWoken, MP!WorkerTryEmpty, MP!WorkerTest, MP!WorkerPop,
         MP!WorkerFinish
<1>2. ASSUME NEW p \in MP!Queues, p # q
      PROVE  /\ mq_worker'[p] = mq_worker[p] /\ emptySem'[p] = emptySem[p]
             /\ queue'[p] = queue[p]
  BY <1>0, <1>2
     DEF MP!TypeOK, MP!WorkerStep, MP!WorkerCheck, MP!WorkerTry, MP!WorkerPost,
         MP!WorkerWait, MP!WorkerWoken, MP!WorkerTryEmpty, MP!WorkerTest, MP!WorkerPop,
         MP!WorkerFinish, MP!Goto
<1>3. mq_worker'[q] = "wait" => emptySem'[q] > 0
  BY <1>0
     DEF MP!TypeOK, MP!WorkerStep, MP!WorkerCheck, MP!WorkerTry, MP!WorkerPost,
         MP!WorkerWait, MP!WorkerWoken, MP!WorkerTryEmpty, MP!WorkerTest, MP!WorkerPop,
         MP!WorkerFinish, MP!Goto
<1>4. \A p : ToDrain(p)' = ToDrain(p)
  BY <1>1 DEF ToDrain
<1> QED
  BY <1>1, <1>2, <1>3, <1>4 DEF TokensLeft

LEMMA TokensLeftPush ==
  ASSUME MP!IInv, TokensLeft, MP!EnqueueStep(Driver), step' = step
  PROVE  TokensLeft'
<1>1. UNCHANGED <<mq_processing, mq_owner, at, mq_worker, emptySem>>
  BY DEF MP!EnqueueStep, MP!EnqueueScan, MP!EnqueuePush
<1>2. ASSUME NEW q \in MP!Queues, queue[q] # <<>> PROVE queue'[q] # <<>>
  <2>1. CASE MP!EnqueueScan(Driver)
    BY <1>2, <2>1 DEF MP!EnqueueScan
  <2>2. CASE MP!EnqueuePush(Driver)
    <3> DEFINE e == enqueue[Driver]
               pushed == Append(queue[e.lowestIdx], e.task)
    <3>1. /\ e.lowestIdx \in MP!Queues /\ e.task \in Tasks
          /\ queue \in [MP!Queues -> Seq(Tasks)]
      BY <2>2 DEF MP!IInv, MP!TypeOK, MP!Locals, MP!EnqueuePush
    <3>2. queue' = [queue EXCEPT ![e.lowestIdx] = pushed]
      BY <2>2 DEF MP!EnqueuePush
    <3>3. pushed # <<>>
      BY <3>1, MP!PushFacts, MqtAssumptions
    <3> QED
      BY <1>2, <3>1, <3>2, <3>3
  <2> QED
    BY <2>1, <2>2 DEF MP!EnqueueStep
<1>3. \A p : ToDrain(p)' = ToDrain(p)
  BY <1>1 DEF ToDrain
<1> QED
  BY <1>1, <1>2, <1>3 DEF TokensLeft

LEMMA TokensLeftOwner ==
  ASSUME MP!IInv, MqtPhase, TokensLeft, MP!OwnerStep, step' = step
  PROVE  TokensLeft'
<1>0. MP!TypeOK /\ MP!Queues \subseteq Nat
  BY MP!QueueIds, MqtAssumptions DEF MP!IInv
<1>1. mq_processing' = mq_processing
  BY DEF MP!OwnerStep, MP!StopFlag, MP!StopPost, MP!StopJoin, MP!DrainWait,
         MP!DrainTest, MP!DestroyTask, MP!DestroyQueue
<1>2. CASE MP!DrainWait
  <2>1. /\ mq_owner = "drainWait" /\ mq_owner' = "drainTest"
        /\ UNCHANGED <<at, mq_worker, queue>>
        /\ emptySem' = [emptySem EXCEPT ![at] = emptySem[at] - 1]
    BY <1>2 DEF MP!DrainWait
  <2>2. ASSUME NEW q \in MP!Queues, mq_worker'[q] = "wait", ToDrain(q)'
        PROVE  emptySem'[q] > 0 \/ queue'[q] # <<>>
    <3>1. step # "mqtFill"
      BY <2>1 DEF MqtPhase
    <3>2. step = "mqtDrain" /\ at < q
      BY <2>1, <2>2, <3>1 DEF ToDrain
    <3>3. at # q /\ at <= q
      BY <1>0, <3>2 DEF MP!TypeOK
    <3>4. emptySem'[q] = emptySem[q] /\ ToDrain(q)
      BY <1>0, <2>1, <3>2, <3>3 DEF MP!TypeOK, ToDrain
    <3> QED
      BY <2>1, <2>2, <3>4 DEF TokensLeft
  <2> QED
    BY <1>1, <2>2 DEF TokensLeft
<1>3. CASE MP!DrainTest
  <2>1. /\ mq_owner = "drainTest" /\ UNCHANGED <<mq_worker, emptySem, queue>>
        /\ \/ queue[at] # <<>> /\ mq_owner' = "drainWait" /\ at' = at
           \/ at # MP!PoolSize /\ mq_owner' = "drainWait" /\ at' = at + 1
           \/ mq_owner' = "idle"
    BY <1>3 DEF MP!DrainTest
  <2>2. ASSUME NEW q \in MP!Queues, mq_worker'[q] = "wait", ToDrain(q)'
        PROVE  emptySem'[q] > 0 \/ queue'[q] # <<>>
    <3>1. step = "mqtDrain" /\ mq_owner' = "drainWait" /\ at' <= q
      BY <2>1, <2>2 DEF MqtPhase, ToDrain
    <3>2. CASE q = at /\ at' = at /\ queue[at] # <<>>
      BY <2>1, <3>2
    <3>3. CASE at < q
      <4>1. ToDrain(q)
        BY <2>1, <3>1, <3>3 DEF ToDrain
      <4> QED
        BY <2>1, <2>2, <4>1 DEF TokensLeft
    <3>4. \/ q = at /\ at' = at /\ queue[at] # <<>>
          \/ at < q
      <4>1. at \in Nat /\ q \in Nat
        BY <1>0 DEF MP!TypeOK
      <4>2. CASE queue[at] # <<>> /\ at' = at
        BY <3>1, <4>1, <4>2
      <4>3. CASE at' = at + 1
        BY <3>1, <4>1, <4>3
      <4> QED
        BY <2>1, <3>1, <4>2, <4>3
    <3> QED
      BY <3>2, <3>3, <3>4
  <2> QED
    BY <1>1, <2>2 DEF TokensLeft
<1>4. CASE ~MP!DrainWait /\ ~MP!DrainTest
  <2>1. mq_owner \in {"flag", "post", "join", "destroy"}
    BY <1>4 DEF MP!OwnerStep, MP!StopFlag, MP!StopPost, MP!StopJoin, MP!DestroyTask,
                MP!DestroyQueue
  <2>2. step \notin {"mqtFill", "mqtDrain"}
    BY <2>1 DEF MqtPhase
  <2> QED
    BY <1>1, <2>2 DEF TokensLeft, ToDrain
<1> QED
  BY <1>2, <1>3, <1>4

LEMMA TokensLeftStep ==
  ASSUME MP!IInv, MqtPhase, TokensLeft, [DriverNext]_testVars PROVE TokensLeft'
<1>1. CASE MqtCalls
  BY <1>1, TokensLeftCalls
<1>2. CASE MqtWorkers
  BY <1>2, MqtIds, MqtWorkerStep, TokensLeftWorker DEF MqtWorkers, mainVars
<1>3. CASE (MP!EnqueueStep(Driver) \/ MP!OwnerStep) /\ step' = step
  BY <1>3, TokensLeftPush, TokensLeftOwner
<1>4. CASE PassEnd
  BY <1>4 DEF PassEnd, NextPass, NewMqt, TokensLeft, ToDrain
<1>5. CASE UNCHANGED mqVars /\ (step' = step \/ CortexCalls \/ RawTest \/ Reading)
  <2>1. UNCHANGED <<queue, emptySem, mq_worker, mq_processing, mq_owner, at>>
    BY <1>5 DEF mqVars
  <2>2. CASE step' = step
    BY <2>1, <2>2 DEF TokensLeft, ToDrain
  <2>3. CASE CortexCalls \/ RawTest \/ Reading
    <3>1. /\ step \notin {"mqtFill", "mqtDrain"}
          /\ step' \notin {"mqtFill", "mqtDrain"}
      BY <2>3, CortexCallSteps
         DEF CortexCalls, RawTest, Reading, Options, ParseOption, ParseOptionUnguarded,
              ParseEnd, GenerateNumbers, Goto
    <3> QED
      BY <2>1, <3>1 DEF TokensLeft, ToDrain
  <2> QED
    BY <1>5, <2>2, <2>3
<1> QED
  BY <1>1, <1>2, <1>3, <1>4, <1>5, MqtMoves

LEMMA NeverBlocks == MP!IInv /\ MqtPhase /\ TokensLeft => MqtNeverBlocks
<1> SUFFICES ASSUME MP!IInv, MqtPhase, TokensLeft PROVE MqtNeverBlocks
  OBVIOUS
<1>1. ASSUME mq_owner = "drainWait" PROVE emptySem[at] > 0 \/ MP!WorkerCanGo(at)
  <2>1. mq_processing /\ at \in MP!Queues /\ at \in Nat
    BY <1>1, MP!QueueIds, MqtAssumptions DEF MP!IInv, MP!StopInv, MP!TypeOK
  <2>2. step = "mqtDrain"
    BY <1>1, <2>1 DEF TokensLeft, MqtPhase
  <2>3. ToDrain(at)
    BY <1>1, <2>1, <2>2 DEF ToDrain
  <2>4. ~MP!Ended(at)
    <3>1. mq_worker[at] # "none" /\ running[at]
      BY <1>1, <2>1 DEF MP!IInv, MP!StopInv, MP!Cleared, MP!Posted
    <3> QED
      BY <2>1, <3>1 DEF MP!IInv, MP!StopInv, MP!Ended
  <2>5. CASE mq_worker[at] = "wait" /\ ~(emptySem[at] > 0)
    <3>1. queue[at] # <<>>
      BY <2>1, <2>3, <2>5 DEF TokensLeft
    <3>2. taskSem[at] > 0
      BY <2>1, <2>5, <3>1, MP!WaitsForWork, MqtAssumptions DEF MP!IInv
    <3> QED
      BY <2>4, <3>2 DEF MP!WorkerCanGo
  <2>6. CASE mq_worker[at] # "wait"
    BY <2>4, <2>6 DEF MP!WorkerCanGo
  <2> QED
    BY <2>5, <2>6
<1>2. MP!JoinNeverBlocks /\ MP!DestroyNeverBlocks
  BY MP!CallsReturn, MqtAssumptions
<1> QED
  BY <1>1, <1>2 DEF MqtNeverBlocks

-----------------------------------------------------------------------------
(* The raw threads of a pass.                                              *)

LEMMA RawStep == RawInv /\ [DriverNext]_testVars => RawInv'
<1> SUFFICES ASSUME RawInv, [DriverNext]_testVars PROVE RawInv'
  OBVIOUS
<1>1. CASE RawThreads
  BY <1>1, RawNextInv DEF RawThreads, RawNext
<1>2. CASE PassEnd
  <2>1. RawInit' => RawInv'
    BY RawInitInv, PTL
  <2>2. RawInit'
    BY <1>2 DEF PassEnd, NextPass, NewRaw, RawInit
  <2> QED
    BY <2>1, <2>2
<1>3. CASE UNCHANGED rawVars
  BY <1>3, RawNextInv
<1>4. UNCHANGED rawVars \/ RawThreads \/ PassEnd
  <2>1. CASE CortexCalls \/ MqtCalls
    BY <2>1 DEF CortexCalls, CortexStart, CortexFill, CortexDrain, CortexStop,
                CortexDestroy, MqtCalls, MqtStart, MqtFill, MqtDrain, MqtStop,
                MqtDestroy
  <2>2. CASE Reading \/ RawTest \/ Finished \/ UNCHANGED testVars
    BY <2>2 DEF Reading, Options, ParseOption, ParseOptionUnguarded,
              ParseEnd, GenerateNumbers, RawTest, Finished, testVars
  <2>3. CASE CortexWorkers \/ CortexOwner \/ MqtWorkers \/ MqtOwner
    BY <2>3 DEF CortexWorkers, CortexOwner, MqtWorkers, MqtOwner
  <2> QED
    BY <2>1, <2>2, <2>3 DEF DriverNext, Reading, TestNext, Pass
<1> QED
  BY <1>1, <1>2, <1>3, <1>4

-----------------------------------------------------------------------------
(* The theorems.                                                           *)

\* What holds of the driver all the time, with either parser.
DriverInv ==
  /\ ParserInv /\ PassesAsAsked
  /\ CP!IInv /\ CortexPhase
  /\ MP!IInv /\ MqtPhase /\ TokensLeft
  /\ RawInv

LEMMA TestInitInv == TestInit => DriverInv
<1> SUFFICES ASSUME TestInit PROVE DriverInv
  OBVIOUS
<1>1. step = "options" /\ Core!Init /\ Mqt!Init /\ RawInit
  BY DEF TestInit
<1>2. ParserInv /\ PassesAsAsked
  BY <1>1, ParserInit DEF PassesAsAsked
<1>3. CP!IInv /\ CortexPhase
  <2>1. CP!Init
    BY <1>1, CortexIds DEF Core!Init, CP!Init
  <2> QED
    BY <1>1, <2>1, CP!InitIInv, CortexAssumptions DEF CP!Init, CortexPhase
<1>4. MP!IInv /\ MqtPhase
  <2>1. MP!Init
    BY <1>1, MqtIds DEF Mqt!Init, MP!Init
  <2>2. MP!IInv
    BY <2>1, MP!InitIInv, MqtAssumptions
  <2> QED
    BY <1>1, <2>1, <2>2 DEF MP!Init, MP!Outside, MqtPhase
<1>5. TokensLeft
  BY <1>1, MqtIds DEF Mqt!Init, TokensLeft, ToDrain
<1> QED
  BY <1>1, <1>2, <1>3, <1>4, <1>5, RawInitInv DEF DriverInv

LEMMA DriverStep == DriverInv /\ [DriverNext]_testVars => DriverInv'
<1> SUFFICES ASSUME DriverInv, [DriverNext]_testVars PROVE DriverInv'
  OBVIOUS
<1>1. ParserInv' /\ PassesAsAsked'
  BY ParserStep DEF DriverInv
<1>2. CP!IInv' /\ MP!IInv'
  BY CortexInvStep, MqtInvStep DEF DriverInv
<1>3. CortexPhase' /\ MqtPhase' /\ TokensLeft'
  BY PhaseStep, MqtPhaseStep, TokensLeftStep DEF DriverInv
<1>4. RawInv'
  BY RawStep DEF DriverInv
<1> QED
  BY <1>1, <1>2, <1>3, <1>4 DEF DriverInv

LEMMA DriverInvariance == TestSpec => []DriverInv
<1>1. [TestNext]_testVars => [DriverNext]_testVars
  BY DEF DriverNext
<1> QED
  BY <1>1, TestInitInv, DriverStep, PTL DEF TestSpec

\* Both pools of the driver, in every pass and whatever the command line, keep
\* the invariants they have alone: the driver calls them within their contracts.
THEOREM PoolsInTheDriver == TestSpec => [](CP!IInv /\ MP!IInv)
<1>1. DriverInv => CP!IInv /\ MP!IInv
  BY DEF DriverInv
<1> QED
  BY <1>1, DriverInvariance, PTL

\* The passes are run as the command line asks or not at all, and it is never
\* read beyond its end.
THEOREM OptionsAsAsked == TestSpec => []RunsAsAsked
<1>1. DriverInv => PassesAsAsked
  BY DEF DriverInv
<1>2. TestInit => step # "crashed"
  BY DEF TestInit
<1>3. PassesAsAsked /\ step # "crashed" => RunsAsAsked
  BY DEF RunsAsAsked
<1> QED
  BY <1>1, <1>2, <1>3, DriverInvariance, NeverCrashes, PTL DEF TestSpec

\* The Cortex of a pass drops one job per worker at most, however many jobs there
\* are, and executes all the others.
THEOREM CortexLosesFew == TestSpec => []CortexPassLoses
<1>1. DriverInv => CortexPassLoses
  BY PassLoses DEF DriverInv
<1> QED
  BY <1>1, DriverInvariance, PTL

\* The MultiQueueThreadpool of a pass executes every job of it.
THEOREM MqtLosesNone == TestSpec => []MqtPassComplete
<1>1. DriverInv => MqtPassComplete
  BY PassComplete DEF DriverInv
<1> QED
  BY <1>1, DriverInvariance, PTL

\* No call of the MultiQueueThreadpool in a pass waits for ever: whenever drain()
\* waits its token is there or the worker can go on, stop() joins no worker that
\* waits, and the destructor waits for nothing.
THEOREM MqtCallsReturn == TestSpec => []MqtNeverBlocks
<1>1. DriverInv => MqtNeverBlocks
  BY NeverBlocks DEF DriverInv
<1> QED
  BY <1>1, DriverInvariance, PTL

\* In every pass the raw threads stay inside of the numbers, and the last slice
\* is executed.
THEOREM RawInThePass == TestSpec => []RawInside /\ []LastSliceCovered
<1>1. DriverInv => RawInside /\ LastSliceCovered
  BY InvInside, InvLastSlice DEF DriverInv
<1> QED
  BY <1>1, DriverInvariance, PTL

-----------------------------------------------------------------------------
(* The alpha series.                                                       *)

\* The functions of its copies take no other steps.
LEMMA AlphaStep == AlphaNext => DriverNext
<1> SUFFICES ASSUME AlphaNext PROVE DriverNext
  OBVIOUS
<1>1. CASE fillCortex \/ Cortex_cpp
  BY <1>1
     DEF fillCortex, Cortex_enqueue_task, CortexFill, Cortex_cpp, Cortex_start,
         Cortex_drain, Cortex_stop, Cortex_destroy, cortex_worker_thread, Cortex_process_next_function, InCortex,
         DriverNext, TestNext, Pass, CortexCalls, CortexWorkers, CortexOwner,
         Core!WorkerStep, Core!OwnerStep
<1>2. CASE fillMqt \/ Mqt_cpp
  BY <1>2
     DEF fillMqt, Mqt_cpp, Mqt_start, Mqt_enqueue_task, Mqt_drain, Mqt_stop, Mqt_destroy,
         mqt_worker_thread, InMqt, DriverNext, TestNext, Pass, MqtCalls, MqtWorkers,
         MqtOwner, Mqt!OwnerStep
<1>3. CASE raw_worker \/ runRawThreadTest
  BY <1>3
     DEF raw_worker, runRawThreadTest, DriverNext, TestNext, Pass, RawThreads
<1>4. CASE NextPass /\ Cortex_Cortex /\ Mqt_MultiQueueThreadpool /\ NewRaw
  BY <1>4
     DEF Cortex_Cortex, Mqt_MultiQueueThreadpool, DriverNext, TestNext, Pass, PassEnd
<1>5. CASE parseOptions \/ generateNumbers \/ Returned
  BY <1>5 DEF parseOptions, generateNumbers, Returned, DriverNext, TestNext, Options
<1> QED
  BY <1>1, <1>2, <1>3, <1>4, <1>5 DEF AlphaNext, OnePass

LEMMA AlphaInvariance == AlphaSpec => []DriverInv
<1>1. [AlphaNext]_testVars => [DriverNext]_testVars
  BY AlphaStep
<1> QED
  BY <1>1, TestInitInv, DriverStep, PTL DEF AlphaSpec, AlphaInit

\* With the parser of the alpha series, too, no pass is run that the command line
\* does not ask for: what it may do instead of displaying the usage is to read
\* beyond a command line that is not well formed.
THEOREM AlphaRunsAsAsked == AlphaSpec => []PassesAsAsked
<1>1. DriverInv => PassesAsAsked
  BY DEF DriverInv
<1> QED
  BY <1>1, AlphaInvariance, PTL

\* And the passes it runs are as good as those of the other driver.
THEOREM AlphaPasses ==
  AlphaSpec => [](/\ CortexPassLoses /\ MqtPassComplete /\ MqtNeverBlocks
                  /\ RawInside /\ LastSliceCovered)
<1>1. DriverInv => /\ CortexPassLoses /\ MqtPassComplete /\ MqtNeverBlocks
                   /\ RawInside /\ LastSliceCovered
  BY PassLoses, PassComplete, NeverBlocks, InvInside, InvLastSlice DEF DriverInv
<1> QED
  BY <1>1, AlphaInvariance, PTL
=============================================================================
