----------------------------- MODULE MainProofs -----------------------------
(***************************************************************************)
(* Proofs about Main, for every set of command lines and every size of the *)
(* grid.  main() uses the Grid as its specification allows, so that what   *)
(* GridProofs proves of the Grid holds of the program; and main() calls    *)
(* the Grid's functions in an order that keeps the promises the Grid alone *)
(* does not.                                                               *)
(***************************************************************************)
EXTENDS Main, GridProofs

\* What main() does is a step of the Grid, or the Grid does not notice it.
LEMMA MainStep == [MainNext]_allVars => [Next]_vars
<1> SUFFICES ASSUME [MainNext]_allVars PROVE [Next]_vars
  OBVIOUS
<1>1. CASE ParseNumber \/ ParseName \/ Construct
  BY <1>1 DEF ParseNumber, ParseName, Construct
<1>2. CASE FillToCapacity
  BY <1>2 DEF FillToCapacity, Next
<1>3. CASE HoldEvents \/ Leave
  BY <1>3 DEF HoldEvents, Leave
<1>4. CASE InitiateCycle
  BY <1>4 DEF InitiateCycle, Next
<1>5. CASE DisplayEvents
  BY <1>5 DEF DisplayEvents, Next
<1>6. CASE InsideTheGrid
  BY <1>6 DEF InsideTheGrid, Next
<1>7. CASE Exited \/ VectorFull \/ UNCHANGED allVars
  BY <1>7 DEF Exited, VectorFull, allVars
<1> QED
  BY <1>1, <1>2, <1>3, <1>4, <1>5, <1>6, <1>7 DEF MainNext

\* The program is a client the Grid is specified for: its behaviours are the
\* Grid's, with steps in between that leave the Grid alone.
THEOREM MainImplementsGrid == MainSpec => Spec
<1>1. MainInit => Init
  BY DEF MainInit
<1> QED
  BY <1>1, MainStep, PTL DEF MainSpec, Spec

-----------------------------------------------------------------------------
(* The order in which main() calls the Grid.                               *)

\* Where the Grid is while main() is at a step, and what main() has given it by
\* then.
CallOrder ==
  /\ step \in {"options", "fill", "hold", "loop", "cycle", "exit"}
  /\ state \in {"idle", "fill", "move"}
  /\ step \in {"options", "fill"} => Live = {}
  /\ state = "fill" => step = "hold"
  /\ state = "move" => step = "cycle"
  /\ step \in {"loop", "cycle"} => held

\* What is left in the vector, when the display is on.
Printed ==
  /\ step \in {"options", "fill", "hold"} => events = <<>>
  /\ step \in {"loop", "exit"} /\ option.display_events => events = <<>>

\* The room fill_to_capacity leaves: what is still to be made fits.
Room ==
  /\ Cardinality(Live) <= MAX_BOTBOTS
  /\ state = "fill" => Cardinality(Live) + left <= MAX_BOTBOTS

MainInv == CallOrder /\ Printed /\ Room

LEMMA MainInitInv == MainInit => MainInv
<1> SUFFICES ASSUME MainInit PROVE MainInv
  OBVIOUS
<1>1. Live = {} /\ events = <<>> /\ state = "idle" /\ step = "options"
  BY DEF MainInit, Init, Live
<1>2. Cardinality(Live) = 0
  BY <1>1, FS_EmptySet
<1> QED
  BY <1>1, <1>2, Sizes DEF MainInv, CallOrder, Printed, Room

\* The steps of main() that leave the Grid alone.
LEMMA OwnStepsKeep ==
  ASSUME MainInv,
         \/ ParseNumber \/ ParseName \/ Construct \/ HoldEvents \/ Leave
         \/ Exited \/ VectorFull \/ UNCHANGED allVars
  PROVE  MainInv'
<1> USE DEF MainInv
<1>1. CASE ParseNumber
  BY <1>1 DEF ParseNumber, CallOrder, Printed, Room, vars, Live
<1>2. CASE ParseName
  BY <1>2 DEF ParseName, CallOrder, Printed, Room, vars, Live
<1>3. CASE Construct
  BY <1>3 DEF Construct, CallOrder, Printed, Room, vars, Live
<1>4. CASE HoldEvents
  BY <1>4 DEF HoldEvents, CallOrder, Printed, Room, vars, Live
<1>5. CASE Leave
  BY <1>5 DEF Leave, CallOrder, Printed, Room, vars, Live
<1>6. CASE Exited \/ VectorFull \/ UNCHANGED allVars
  BY <1>6 DEF Exited, VectorFull, allVars, mainVars, CallOrder, Printed, Room,
              vars, Live
<1> QED
  BY <1>1, <1>2, <1>3, <1>4, <1>5, <1>6

\* The calls of the Grid's functions.  fill_to_capacity is called when nobody is
\* alive: all of MAX_BOTBOTS is room.
LEMMA CallsKeep ==
  ASSUME IInv, MainInv, FillToCapacity \/ InitiateCycle \/ DisplayEvents
  PROVE  MainInv'
<1>1. CASE FillToCapacity
  <2>1. /\ step = "fill" /\ step' = "hold" /\ state' = "fill"
        /\ UNCHANGED <<live_bots, events, held, option>>
        /\ left' = Smaller(MAX_BOTBOTS, Cardinality(EmptyCells))
    BY <1>1 DEF FillToCapacity, FillCall
  <2>2. Live = {} /\ Live' = {} /\ events = <<>>
    BY <2>1 DEF MainInv, CallOrder, Printed, Live
  <2>3. Cardinality(Live') = 0
    BY <2>2, FS_EmptySet
  <2>4. IsFiniteSet(EmptyCells)
    BY Sizes, FS_Subset DEF EmptyCells
  <2>5. Cardinality(EmptyCells) \in Nat
    BY <2>4, FS_CardinalityType
  <2>6. left' \in Nat /\ left' <= MAX_BOTBOTS
    BY <2>1, <2>5, Sizes DEF Smaller
  <2> QED
    BY <2>1, <2>2, <2>3, <2>6, Sizes DEF MainInv, CallOrder, Printed, Room
<1>2. CASE InitiateCycle
  BY <1>2 DEF InitiateCycle, CycleBegin, MainInv, CallOrder, Printed, Room, Live
<1>3. CASE DisplayEvents
  <2>1. /\ step = "cycle" /\ step' = "loop" /\ state = "idle" /\ state' = "idle"
        /\ UNCHANGED <<live_bots, held, option>>
    BY <1>3 DEF DisplayEvents, PrintEvents, vars
  <2>2. option.display_events => events' = <<>>
    BY <1>3 DEF DisplayEvents, PrintEvents, vars
  <2> QED
    BY <2>1, <2>2 DEF MainInv, CallOrder, Printed, Room, Live
<1> QED
  BY <1>1, <1>2, <1>3

\* fill_to_capacity makes one botbot of those that were left.
LEMMA FillKeeps ==
  ASSUME IInv, MainInv, FillNext \/ FillReturn, UNCHANGED mainVars
  PROVE  MainInv'
<1>1. state = "fill" /\ step = "hold" /\ UNCHANGED <<events, step, held, option>>
  BY DEF FillNext, FillReturn, MainInv, CallOrder, mainVars
<1>2. IsFiniteSet(Live) /\ left \in Nat
  BY BotbotsAssumption, FS_Subset DEF IInv, TypeOK
<1>3. Cardinality(Live) \in Nat /\ MAX_BOTBOTS \in Nat
  BY <1>2, FS_CardinalityType, Sizes
<1>4. CASE FillNext
  <2>1. PICK b \in Botbots \ (Live \cup Dead), cell \in EmptyCells :
          live_bots' = [x \in Live \cup {b} |->
                          IF x = b THEN cell ELSE live_bots[x]]
    BY <1>4 DEF FillNext
  <2>2. left' = left - 1 /\ state' = "fill"
    BY <1>4 DEF FillNext
  <2>3. Live' = Live \cup {b} /\ b \notin Live
    BY <2>1 DEF Live
  <2>4. Cardinality(Live') = Cardinality(Live) + 1
    BY <1>2, <2>3, FS_AddElement
  <2>5. Cardinality(Live) + left <= MAX_BOTBOTS /\ left > 0
    BY <1>1, <1>4 DEF MainInv, Room, FillNext
  <2>6. Room'
    BY <1>2, <1>3, <2>2, <2>4, <2>5 DEF Room
  <2> QED
    BY <1>1, <2>2, <2>6 DEF MainInv, CallOrder, Printed
<1>5. CASE FillReturn
  <2>1. state' = "idle" /\ Live' = Live
    BY <1>5 DEF FillReturn, Live
  <2> QED
    BY <1>1, <2>1 DEF MainInv, CallOrder, Printed, Room
<1> QED
  BY <1>4, <1>5

\* Nobody is born in a cycle.
LEMMA NobodyIsBorn == ASSUME IInv, MoveBot PROVE Live' \subseteq Live
<1>1. live_bots \in [Live -> Cells] /\ it # Nobody
  BY DEF IInv, TypeOK, MoveBot
<1>2. PICK target \in Wishes(it) :
        MoveOut(target) \/ MoveFree(target) \/ MoveNot(target) \/ Fight(target)
  BY DEF MoveBot
<1>3. CASE MoveOut(target) \/ MoveNot(target)
  BY <1>3 DEF MoveOut, MoveNot, Live
<1>4. CASE MoveFree(target)
  BY <1>1, <1>4 DEF MoveFree, Live
<1>5. CASE Fight(target)
  <2>1. PICK w, l : Settle(w, l, live_bots[it], target)
    BY <1>5 DEF Fight, MoveBattle
  <2> QED
    BY <1>1, <2>1 DEF Settle, Live
<1> QED
  BY <1>2, <1>3, <1>4, <1>5

LEMMA CycleKeeps ==
  ASSUME IInv, MainInv, Cycle, UNCHANGED mainVars PROVE MainInv'
<1>1. /\ state = "move" /\ step = "cycle" /\ state' \in {"move", "idle"}
      /\ UNCHANGED <<step, held, option>>
  BY DEF Cycle, MoveBot, CycleEnd, MoveOut, MoveFree, MoveNot, Fight, MoveBattle,
         MainInv, CallOrder, mainVars
<1>2. Live' \subseteq Live
  BY NobodyIsBorn DEF Cycle, CycleEnd, Live
<1>3. IsFiniteSet(Live)
  BY BotbotsAssumption, FS_Subset DEF IInv, TypeOK
<1>4. Cardinality(Live') <= Cardinality(Live) /\ IsFiniteSet(Live')
  BY <1>2, <1>3, FS_Subset
<1>5. /\ Cardinality(Live) \in Nat /\ Cardinality(Live') \in Nat
      /\ MAX_BOTBOTS \in Nat
  BY <1>3, <1>4, FS_CardinalityType, Sizes
<1>6. Cardinality(Live') <= MAX_BOTBOTS
  BY <1>4, <1>5 DEF MainInv, Room
<1> QED
  BY <1>1, <1>6 DEF MainInv, CallOrder, Printed, Room

LEMMA MainNextInv == IInv /\ MainInv /\ [MainNext]_allVars => MainInv'
<1> SUFFICES ASSUME IInv, MainInv, [MainNext]_allVars PROVE MainInv'
  OBVIOUS
<1>1. CASE InsideTheGrid
  BY <1>1, FillKeeps, CycleKeeps DEF InsideTheGrid
<1> QED
  BY <1>1, OwnStepsKeep, CallsKeep DEF MainNext

\* The invariant of the program: the Grid's, and the order of the calls.
THEOREM MainInvariance == MainSpec => [](IInv /\ MainInv)
<1>1. MainSpec => []IInv
  BY MainImplementsGrid, Invariance, PTL
<1>2. MainInit => MainInv
  BY MainInitInv
<1>3. IInv /\ MainInv /\ [MainNext]_allVars => MainInv'
  BY MainNextInv
<1> QED
  BY <1>1, <1>2, <1>3, PTL DEF MainSpec

-----------------------------------------------------------------------------
(* Who stands and who has fallen.                                          *)

\* Until fill_to_capacity is called there is nobody; while it makes botbots, those
\* still to be made are missing from its count.
Account ==
  /\ held => step \in {"loop", "cycle", "exit"}
  /\ step \in {"options", "fill", "hold"} => dead_bots = <<>>
  /\ step = "hold" \/ held =>
       /\ state = "fill" => Cardinality(Live) + left = MAX_BOTBOTS
       /\ state # "fill" => /\ Live # {}
                            /\ Cardinality(Live) + Len(dead_bots) = MAX_BOTBOTS

\* The screen is written once, when the game is over.
Written ==
  screen # <<>> => /\ step = "exit" /\ held
                   /\ Cardinality(Live) <= 1
                   /\ screen = <<Display>>

\* The empty grid has room for all of MAX_BOTBOTS.
LEMMA RoomForAll ==
  ASSUME IInv, Live = {}
  PROVE  Smaller(MAX_BOTBOTS, Cardinality(EmptyCells)) = MAX_BOTBOTS
<1>1. EmptyCells = Cells
  BY DEF IInv, CellsAgree, EmptyCells
<1>2. Rows \in Nat \ {0} /\ Cols \in Nat \ {0} /\ MAX_BOTBOTS \in Nat
  BY Sizes
<1>3. Cardinality(Cells) = Rows * Cols
  <2>1. /\ IsFiniteSet(0 .. Rows - 1) /\ Cardinality(0 .. Rows - 1) = Rows
        /\ IsFiniteSet(0 .. Cols - 1) /\ Cardinality(0 .. Cols - 1) = Cols
    BY <1>2, FS_Interval
  <2> QED
    BY <2>1, FS_Product DEF Cells
<1> DEFINE size == Rows * Cols
<1>4. size \in Nat
  BY <1>2
<1>5. ASSUME NEW n \in Nat, NEW d \in Nat \ {0} PROVE n \div d <= n
  OBVIOUS
<1>6. MAX_BOTBOTS <= size
  <2>1. MAX_BOTBOTS = size \div POPULATION_DENSITY
    BY DEF MAX_BOTBOTS
  <2> HIDE DEF size
  <2> QED
    BY <1>4, <1>5, <2>1, SizeAssumption
<1> QED
  BY <1>1, <1>2, <1>3, <1>6 DEF Smaller

\* A turn of the loop costs nobody's life, or the loser's; the winner stands.
LEMMA TurnCosts ==
  ASSUME IInv, MoveBot
  PROVE  \/ Live' = Live /\ dead_bots' = dead_bots
         \/ \E w, l \in Live :
              /\ w # l /\ Live' = Live \ {l}
              /\ dead_bots' = Append(dead_bots, [bot |-> l, cycle |-> cycles])
<1>1. live_bots \in [Live -> Cells] /\ it # Nobody /\ it \in Botbots /\ it \in Live
  BY TurnFacts DEF IInv, TypeOK, MoveBot
<1>2. PICK target \in Wishes(it) :
        MoveOut(target) \/ MoveFree(target) \/ MoveNot(target) \/ Fight(target)
  BY DEF MoveBot
<1>3. CASE MoveOut(target) \/ MoveNot(target)
  BY <1>3 DEF MoveOut, MoveNot, Live
<1>4. CASE MoveFree(target)
  BY <1>1, <1>4 DEF MoveFree, Live
<1>5. CASE Fight(target)
  <2>1. target \in Cells /\ bot[target] \notin {Nobody, it}
    BY <1>5 DEF Fight
  <2>2. bot[target] \in Live
    BY <2>1 DEF IInv, CellsAgree
  <2>3. PICK w, l \in Botbots : Outcome(w, l, target)
    BY <1>1, <1>5, <2>1, BattleFacts DEF IInv
  <2>4. w \in Live /\ l \in Live /\ w # l
    BY <1>1, <2>2, <2>3 DEF Outcome
  <2>5. Settle(w, l, live_bots[it], target)
    BY <2>3 DEF Outcome
  <2> QED
    BY <1>1, <2>4, <2>5 DEF Settle, Live
<1> QED
  BY <1>2, <1>3, <1>4, <1>5

LEMMA AccountInit == MainInit => Account /\ Written
<1> SUFFICES ASSUME MainInit PROVE Account /\ Written
  OBVIOUS
<1>1. /\ step = "options" /\ dead_bots = <<>> /\ ~held /\ screen = <<>>
  BY DEF MainInit, Init
<1> QED
  BY <1>1 DEF Account, Written

\* The steps of main() that call nothing.
LEMMA AccountOwn ==
  ASSUME Account, MainInv,
         \/ ParseNumber \/ ParseName \/ Construct \/ HoldEvents \/ Leave
         \/ Exited \/ VectorFull \/ UNCHANGED allVars
  PROVE  Account'
<1> USE DEF Account, vars, Live
<1>1. CASE ParseNumber \/ ParseName \/ Construct
  BY <1>1 DEF ParseNumber, ParseName, Construct
<1>2. CASE HoldEvents
  BY <1>2 DEF HoldEvents
<1>3. CASE Leave
  <2>1. held
    BY <1>3 DEF Leave, MainInv, CallOrder
  <2> QED
    BY <1>3, <2>1 DEF Leave
<1>4. CASE Exited \/ VectorFull \/ UNCHANGED allVars
  BY <1>4 DEF Exited, VectorFull, allVars, mainVars
<1> QED
  BY <1>1, <1>2, <1>3, <1>4

\* The calls.
LEMMA AccountCalls ==
  ASSUME IInv, Account, MainInv, FillToCapacity \/ InitiateCycle \/ DisplayEvents
  PROVE  Account'
<1>1. CASE FillToCapacity
  <2>1. /\ step = "fill" /\ step' = "hold" /\ state' = "fill"
        /\ UNCHANGED <<live_bots, dead_bots, held>>
        /\ left' = Smaller(MAX_BOTBOTS, Cardinality(EmptyCells))
    BY <1>1 DEF FillToCapacity, FillCall
  <2>2. Live = {} /\ Live' = {}
    BY <2>1 DEF MainInv, CallOrder, Live
  <2>3. left' = MAX_BOTBOTS /\ MAX_BOTBOTS \in Nat
    BY <2>1, <2>2, RoomForAll, Sizes
  <2>4. Cardinality(Live') = 0
    BY <2>2, FS_EmptySet
  <2> QED
    BY <2>1, <2>3, <2>4 DEF Account
<1>2. CASE InitiateCycle
  BY <1>2 DEF InitiateCycle, CycleBegin, Account, Live
<1>3. CASE DisplayEvents
  BY <1>3 DEF DisplayEvents, PrintEvents, vars, Account, Live
<1> QED
  BY <1>1, <1>2, <1>3

\* One more is made, or they are all there.
LEMMA AccountFill ==
  ASSUME IInv, Account, MainInv, FillNext \/ FillReturn, UNCHANGED mainVars
  PROVE  Account'
<1>1. /\ state = "fill" /\ step = "hold" /\ dead_bots = <<>>
      /\ UNCHANGED <<dead_bots, step, held>>
      /\ Cardinality(Live) + left = MAX_BOTBOTS
  BY DEF FillNext, FillReturn, MainInv, CallOrder, Account, mainVars
<1>2. IsFiniteSet(Live) /\ left \in Nat
  BY BotbotsAssumption, FS_Subset DEF IInv, TypeOK
<1>3. Cardinality(Live) \in Nat
  BY <1>2, FS_CardinalityType
<1>4. CASE FillNext
  <2>1. PICK b \in Botbots \ (Live \cup Dead), cell \in EmptyCells :
          live_bots' = [x \in Live \cup {b} |->
                          IF x = b THEN cell ELSE live_bots[x]]
    BY <1>4 DEF FillNext
  <2>2. left' = left - 1 /\ state' = "fill"
    BY <1>4 DEF FillNext
  <2>3. Live' = Live \cup {b} /\ b \notin Live
    BY <2>1 DEF Live
  <2>4. Cardinality(Live') = Cardinality(Live) + 1
    BY <1>2, <2>3, FS_AddElement
  <2> QED
    BY <1>1, <1>2, <1>3, <2>2, <2>4 DEF Account
<1>5. CASE FillReturn
  <2>1. state' = "idle" /\ Live' = Live /\ left = 0
    BY <1>5 DEF FillReturn, Live
  <2>2. Cardinality(Live) = MAX_BOTBOTS
    BY <1>1, <1>3, <2>1
  <2>3. Live # {}
    BY <2>2, FS_EmptySet, CapacityAssumption
  <2>4. Len(dead_bots) = 0
    BY <1>1
  <2> QED
    BY <1>1, <1>3, <2>1, <2>2, <2>3, <2>4 DEF Account
<1> QED
  BY <1>4, <1>5

\* Who is erased from the map is appended to the list.
LEMMA AccountCycle ==
  ASSUME IInv, Account, MainInv, Cycle, UNCHANGED mainVars PROVE Account'
<1>1. /\ state = "move" /\ step = "cycle" /\ held /\ state' \in {"move", "idle"}
      /\ UNCHANGED <<step, held>>
  BY DEF Cycle, MoveBot, CycleEnd, MoveOut, MoveFree, MoveNot, Fight, MoveBattle,
         MainInv, CallOrder, mainVars
<1>2. Live # {} /\ Cardinality(Live) + Len(dead_bots) = MAX_BOTBOTS
  BY <1>1 DEF Account
<1>3. IsFiniteSet(Live)
  BY BotbotsAssumption, FS_Subset DEF IInv, TypeOK
<1>4. Cardinality(Live) \in Nat
  BY <1>3, FS_CardinalityType
<1>5. CASE Live' = Live /\ dead_bots' = dead_bots
  BY <1>1, <1>2, <1>5 DEF Account
<1>6. CASE \E w, l \in Live :
             /\ w # l /\ Live' = Live \ {l}
             /\ dead_bots' = Append(dead_bots, [bot |-> l, cycle |-> cycles])
  <2>1. PICK w, l \in Live :
             /\ w # l /\ Live' = Live \ {l}
             /\ dead_bots' = Append(dead_bots, [bot |-> l, cycle |-> cycles])
    BY <1>6
  <2>2. Cardinality(Live') = Cardinality(Live) - 1 /\ Live' # {}
    BY <1>3, <2>1, FS_RemoveElement
  <2>3. Len(dead_bots') = Len(dead_bots) + 1 /\ Len(dead_bots) \in Nat
    <3>1. dead_bots \in Seq([bot : Botbots, cycle : 0 .. MaxCycles])
      BY DEF IInv, TypeOK
    <3> QED
      BY <2>1, <3>1
  <2> QED
    BY <1>1, <1>2, <1>4, <2>2, <2>3 DEF Account
<1> QED
  BY <1>5, <1>6, TurnCosts DEF Cycle, CycleEnd, Live

LEMMA WrittenKeeps ==
  ASSUME MainInv, Written, [MainNext]_allVars PROVE Written'
<1>1. CASE Leave
  BY <1>1 DEF Leave, MainInv, CallOrder, Written, vars, Live, Display, ToString,
              PopulationToString, StatsToString
<1>2. ASSUME screen' = screen, screen # <<>> PROVE Written'
  <2>1. step = "exit" /\ state \notin {"fill", "move"}
    BY <1>2 DEF Written, MainInv, CallOrder
  <2>2. UNCHANGED allVars
    BY <2>1 DEF MainNext, ParseNumber, ParseName, Construct, FillToCapacity,
                HoldEvents, InitiateCycle, DisplayEvents, Leave, InsideTheGrid,
                Cycle, FillNext, FillReturn, MoveBot, CycleEnd, Exited, VectorFull
  <2> QED
    BY <2>2 DEF Written, allVars, mainVars, vars, Live, Display, ToString,
                PopulationToString, StatsToString
<1>3. ASSUME screen' = screen, screen = <<>> PROVE Written'
  BY <1>3 DEF Written
<1>4. Leave \/ screen' = screen
  BY DEF MainNext, ParseNumber, ParseName, Construct, FillToCapacity, HoldEvents,
         InitiateCycle, DisplayEvents, InsideTheGrid, Exited, VectorFull, allVars,
         mainVars
<1> QED
  BY <1>1, <1>2, <1>3, <1>4

LEMMA AccountKept == MainSpec => [](Account /\ Written)
<1>1. MainInit => Account /\ Written
  BY AccountInit
<1>2. IInv /\ MainInv /\ Account /\ Written /\ [MainNext]_allVars
        => Account' /\ Written'
  <2> SUFFICES ASSUME IInv, MainInv, Account, Written, [MainNext]_allVars
               PROVE  Account' /\ Written'
    OBVIOUS
  <2>1. Written'
    BY WrittenKeeps
  <2>2. CASE InsideTheGrid
    BY <2>1, <2>2, AccountFill, AccountCycle DEF InsideTheGrid
  <2> QED
    BY <2>1, <2>2, AccountOwn, AccountCalls DEF MainNext
<1> QED
  BY <1>1, <1>2, MainInvariance, PTL DEF MainSpec

-----------------------------------------------------------------------------
(* The type invariant.                                                     *)

LEMMA MainInitType == MainInit => MainTypeOK
<1> SUFFICES ASSUME MainInit PROVE MainTypeOK
  OBVIOUS
<1>1. TypeOK
  BY InitIInv DEF MainInit, IInv
<1>2. argv \in Seq(Arguments)
  BY ArgumentsAssumption DEF MainInit
<1>3. i \in 1 .. Len(argv) + 1
  BY <1>2, LenProperties DEF MainInit
<1>4. option \in [grid_rows : Int, grid_cols : Int, rows_assigned : BOOLEAN,
                 fish_tank : BOOLEAN, display_events : BOOLEAN,
                  display_grid : BOOLEAN]
  BY DEF MainInit
<1>5. argv \in CommandLines /\ step = "options" /\ held \in BOOLEAN
  BY DEF MainInit
<1> QED
  BY <1>1, <1>3, <1>4, <1>5 DEF MainTypeOK

LEMMA MainStepType == MainTypeOK /\ TypeOK' /\ [MainNext]_allVars => MainTypeOK'
<1> SUFFICES ASSUME MainTypeOK, TypeOK', [MainNext]_allVars PROVE MainTypeOK'
  OBVIOUS
<1>1. argv \in Seq(Arguments) /\ Len(argv) \in Nat
  BY ArgumentsAssumption, LenProperties DEF MainTypeOK
<1>2. CASE ParseNumber
  <2>1. argv[i] \in Arguments
    BY <1>1, <1>2, ElementOfSeq DEF ParseNumber, MainTypeOK
  <2>2. argv[i].number \in Int
    BY <2>1 DEF Arguments
  <2>3. /\ option' = IF option.rows_assigned
                     THEN [option EXCEPT !.grid_cols = argv[i].number]
                     ELSE [option EXCEPT !.grid_rows = argv[i].number,
                                         !.rows_assigned = TRUE]
        /\ i' = i + 1 /\ i <= Len(argv) /\ UNCHANGED <<argv, step, held>>
    BY <1>2 DEF ParseNumber
  <2>4. option' \in [grid_rows : Int, grid_cols : Int, rows_assigned : BOOLEAN,
                     fish_tank : BOOLEAN, display_events : BOOLEAN,
                     display_grid : BOOLEAN]
    BY <2>2, <2>3 DEF MainTypeOK
  <2>5. i' \in 1 .. Len(argv') + 1
    BY <1>1, <2>3 DEF MainTypeOK
  <2> QED
    BY <2>3, <2>4, <2>5 DEF MainTypeOK
<1>3. CASE ParseName
  <2>1. /\ i' = i + 1 /\ i <= Len(argv) /\ UNCHANGED <<argv, held>>
        /\ step' = step \/ step' = "exit"
        /\ \/ UNCHANGED option
           \/ option' = [option EXCEPT !.fish_tank = TRUE]
           \/ option' = [option EXCEPT !.display_events = FALSE]
           \/ option' = [option EXCEPT !.display_grid = FALSE]
    BY <1>3 DEF ParseName
  <2>2. i' \in 1 .. Len(argv') + 1
    BY <1>1, <2>1 DEF MainTypeOK
  <2>3. option' \in [grid_rows : Int, grid_cols : Int, rows_assigned : BOOLEAN,
                     fish_tank : BOOLEAN, display_events : BOOLEAN,
                     display_grid : BOOLEAN]
    BY <2>1 DEF MainTypeOK
  <2> QED
    BY <2>1, <2>2, <2>3 DEF MainTypeOK
<1>4. ASSUME UNCHANGED <<argv, i, option>>,
             step' \in {"options", "fill", "hold", "loop", "cycle", "exit"},
             held' \in BOOLEAN
      PROVE  MainTypeOK'
  BY <1>4 DEF MainTypeOK
<1>5. CASE Construct \/ FillToCapacity \/ HoldEvents
  BY <1>4, <1>5 DEF Construct, FillToCapacity, HoldEvents, MainTypeOK
<1>6. CASE InitiateCycle \/ DisplayEvents \/ Leave
  BY <1>4, <1>6 DEF InitiateCycle, DisplayEvents, Leave, MainTypeOK
<1>7. CASE InsideTheGrid \/ Exited \/ VectorFull \/ UNCHANGED allVars
  BY <1>4, <1>7 DEF InsideTheGrid, Exited, VectorFull, allVars, mainVars,
                    MainTypeOK
<1> QED
  BY <1>2, <1>3, <1>5, <1>6, <1>7 DEF MainNext

-----------------------------------------------------------------------------
(* The parser.                                                             *)

\* What the parser has made of the arguments before i: the first of the numbers
\* is the rows, the last of several the columns, the names are options, and the
\* flags are those that they set.
Parsed ==
  LET read == {k \in 1 .. Len(argv) : k < i}
      numbers == {k \in read : IsNumber(argv[k])}
      Given(names) == \E k \in read : ~IsNumber(argv[k]) /\ argv[k].name \in names
  IN  /\ option.rows_assigned <=> numbers # {}
      /\ numbers = {} => option.grid_rows = 0
      /\ \A k \in numbers :
           (\A j \in numbers : k <= j) => option.grid_rows = argv[k].number
      /\ (\A j, k \in numbers : j = k) => option.grid_cols = 0
      /\ \A k \in numbers :
           (\A j \in numbers : j <= k) /\ (\E j \in numbers : j # k)
             => option.grid_cols = argv[k].number
      /\ option.fish_tank <=> Given(FishTankNames)
      /\ option.display_events <=> ~Given(NoEventNames)
      /\ option.display_grid <=> ~Given(NoGridNames)
      /\ \A k \in read :
           ~IsNumber(argv[k])
             => argv[k].name \in OptionNames

ParserInv == step = "options" => Parsed

LEMMA ParserInit == MainInit => ParserInv
<1> SUFFICES ASSUME MainInit PROVE Parsed
  BY DEF ParserInv
<1>1. {k \in 1 .. Len(argv) : k < i} = {}
  BY DEF MainInit
<1> QED
  BY <1>1 DEF MainInit, Parsed

LEMMA NumberKeeps == MainTypeOK /\ Parsed /\ ParseNumber => Parsed'
<1> SUFFICES ASSUME MainTypeOK, Parsed, ParseNumber PROVE Parsed'
  OBVIOUS
<1>1. /\ i \in 1 .. Len(argv) /\ i' = i + 1 /\ argv' = argv
      /\ IsNumber(argv[i])
      /\ option \in [grid_rows : Int, grid_cols : Int, rows_assigned : BOOLEAN,
                     fish_tank : BOOLEAN, display_events : BOOLEAN,
                     display_grid : BOOLEAN]
      /\ option' = IF option.rows_assigned
                   THEN [option EXCEPT !.grid_cols = argv[i].number]
                   ELSE [option EXCEPT !.grid_rows = argv[i].number,
                                       !.rows_assigned = TRUE]
  BY DEF ParseNumber, MainTypeOK
<1> DEFINE read == {k \in 1 .. Len(argv) : k < i}
           numbers == {k \in read : IsNumber(argv[k])}
<1>2. /\ read' = read \cup {i} /\ numbers' = numbers \cup {i}
      /\ \A k \in numbers : k \in Int /\ k < i
      /\ i \in Int
  BY <1>1 DEF IsNumber
<1>3. /\ option'.rows_assigned
      /\ option'.fish_tank = option.fish_tank
      /\ option'.display_events = option.display_events
      /\ option'.display_grid = option.display_grid
      /\ option.rows_assigned => /\ option'.grid_cols = argv[i].number
                                 /\ option'.grid_rows = option.grid_rows
      /\ ~option.rows_assigned => /\ option'.grid_rows = argv[i].number
                                  /\ option'.grid_cols = option.grid_cols
  BY <1>1
<1>4. /\ option.rows_assigned <=> numbers # {}
      /\ \A k \in numbers :
           (\A j \in numbers : k <= j) => option.grid_rows = argv[k].number
      /\ (\A j, k \in numbers : j = k) => option.grid_cols = 0
  BY DEF Parsed
<1> DEFINE Given(names) == \E k \in read : ~IsNumber(argv[k]) /\ argv[k].name \in names
<1>5. /\ option.fish_tank <=> Given(FishTankNames)
      /\ option.display_events <=> ~Given(NoEventNames)
      /\ option.display_grid <=> ~Given(NoGridNames)
      /\ \A k \in read :
           ~IsNumber(argv[k])
             => argv[k].name \in OptionNames
  BY DEF Parsed
<1>6. /\ option'.fish_tank <=> Given(FishTankNames)'
      /\ option'.display_events <=> ~Given(NoEventNames)'
      /\ option'.display_grid <=> ~Given(NoGridNames)'
      /\ \A k \in read' :
           ~IsNumber(argv'[k])
             => argv'[k].name \in OptionNames
  <2> HIDE DEF read
  <2> QED
    BY <1>1, <1>2, <1>3, <1>5
<1> HIDE DEF numbers, read
<1>7. CASE numbers = {}
  <2>1. numbers' = {i} /\ option'.grid_rows = argv'[i].number
        /\ option'.grid_cols = 0
    BY <1>1, <1>2, <1>3, <1>4, <1>7
  <2> QED
    BY <1>2, <1>3, <1>6, <2>1 DEF Parsed, numbers, read
<1>8. CASE numbers # {}
  <2>1. option'.grid_cols = argv'[i].number /\ option'.grid_rows = option.grid_rows
    BY <1>1, <1>3, <1>4, <1>8
  <2>2. \A k \in numbers' :
          (\A j \in numbers' : k <= j) => option'.grid_rows = argv'[k].number
    BY <1>1, <1>2, <1>4, <1>8, <2>1
  <2>3. ~(\A j, k \in numbers' : j = k)
    BY <1>2, <1>8
  <2>4. \A k \in numbers' :
          (\A j \in numbers' : j <= k) /\ (\E j \in numbers' : j # k)
             => option'.grid_cols = argv'[k].number
    BY <1>2, <2>1
  <2>5. numbers' # {}
    BY <1>2
  <2> QED
    BY <1>3, <1>6, <2>2, <2>3, <2>4, <2>5 DEF Parsed, numbers, read
<1> QED
  BY <1>7, <1>8

LEMMA NameKeeps ==
  MainTypeOK /\ Parsed /\ ParseName => step' = "exit" \/ Parsed'
<1> SUFFICES ASSUME MainTypeOK, Parsed, ParseName, step' # "exit" PROVE Parsed'
  OBVIOUS
<1> DEFINE read == {k \in 1 .. Len(argv) : k < i}
           numbers == {k \in read : IsNumber(argv[k])}
           Given(names) == \E k \in read : ~IsNumber(argv[k]) /\ argv[k].name \in names
           name == argv[i].name
<1>1. /\ i \in 1 .. Len(argv) /\ i' = i + 1 /\ argv' = argv /\ ~IsNumber(argv[i])
      /\ option \in [grid_rows : Int, grid_cols : Int, rows_assigned : BOOLEAN,
                     fish_tank : BOOLEAN, display_events : BOOLEAN,
                     display_grid : BOOLEAN]
  BY DEF ParseName, MainTypeOK
<1>2. \/ /\ name \in FishTankNames
         /\ option' = [option EXCEPT !.fish_tank = TRUE]
      \/ /\ name \in NoEventNames
         /\ option' = [option EXCEPT !.display_events = FALSE]
      \/ /\ name \in NoGridNames
         /\ option' = [option EXCEPT !.display_grid = FALSE]
      \/ /\ name \in NoSleepNames
         /\ option' = option
  BY DEF ParseName
<1>3. read' = read \cup {i} /\ numbers' = numbers
  BY <1>1 DEF IsNumber
<1>4. /\ option'.rows_assigned = option.rows_assigned
      /\ option'.grid_rows = option.grid_rows
      /\ option'.grid_cols = option.grid_cols
      /\ option'.fish_tank <=> option.fish_tank \/ name \in FishTankNames
      /\ option'.display_events <=> option.display_events /\ name \notin NoEventNames
      /\ option'.display_grid <=> option.display_grid /\ name \notin NoGridNames
      /\ name \in OptionNames
  BY <1>1, <1>2
     DEF FishTankNames, NoEventNames, NoGridNames, NoSleepNames, OptionNames
<1>5. /\ option.fish_tank <=> Given(FishTankNames)
      /\ option.display_events <=> ~Given(NoEventNames)
      /\ option.display_grid <=> ~Given(NoGridNames)
      /\ \A k \in read :
           ~IsNumber(argv[k])
             => argv[k].name \in OptionNames
  BY DEF Parsed
<1>6. /\ option.rows_assigned <=> numbers # {}
      /\ numbers = {} => option.grid_rows = 0
      /\ \A k \in numbers :
           (\A j \in numbers : k <= j) => option.grid_rows = argv[k].number
      /\ (\A j, k \in numbers : j = k) => option.grid_cols = 0
      /\ \A k \in numbers :
           (\A j \in numbers : j <= k) /\ (\E j \in numbers : j # k)
             => option.grid_cols = argv[k].number
  BY DEF Parsed
<1> HIDE DEF numbers, read
<1>7. /\ option'.fish_tank <=> Given(FishTankNames)'
      /\ option'.display_events <=> ~Given(NoEventNames)'
      /\ option'.display_grid <=> ~Given(NoGridNames)'
      /\ \A k \in read' :
           ~IsNumber(argv'[k])
             => argv'[k].name \in OptionNames
  BY <1>1, <1>3, <1>4, <1>5
<1>8. /\ option'.rows_assigned <=> numbers' # {}
      /\ numbers' = {} => option'.grid_rows = 0
      /\ \A k \in numbers' :
           (\A j \in numbers' : k <= j) => option'.grid_rows = argv'[k].number
      /\ (\A j, k \in numbers' : j = k) => option'.grid_cols = 0
      /\ \A k \in numbers' :
           (\A j \in numbers' : j <= k) /\ (\E j \in numbers' : j # k)
             => option'.grid_cols = argv'[k].number
  BY <1>1, <1>3, <1>4, <1>6
<1> QED
  BY <1>7, <1>8 DEF Parsed, numbers, read

\* Every non-empty set of positions in the command line has a last element.
LEMMA LastExists ==
  ASSUME NEW n \in Nat, NEW S, S \subseteq 1 .. n, S # {}
  PROVE  Max(S) \in S /\ \A y \in S : y <= Max(S)
<1> DEFINE rest == {n - k : k \in S}
<1>1. PICK r \in rest : \A q \in rest : r <= q
  <2>1. rest # {}
    OBVIOUS
  <2>2. ASSUME NEW k \in S PROVE n - k \in Nat
    BY <2>2
  <2>3. rest \subseteq Nat
    BY <2>2
  <2> HIDE DEF rest
  <2> QED
    BY <2>1, <2>3, Least
<1>2. PICK x \in S : r = n - x
  OBVIOUS
<1>3. \A y \in S : y <= x
  <2> SUFFICES ASSUME NEW y \in S PROVE y <= x
    OBVIOUS
  <2>1. r <= n - y
    BY <1>1
  <2> QED
    BY <1>2, <2>1
<1> QED
  BY <1>3 DEF Max

\* When the last argument has been read, the options are what was asked for.
LEMMA ParsedIsAsked ==
  ASSUME MainTypeOK, Parsed, i > Len(argv)
  PROVE  /\ Names(argv) \subseteq OptionNames
         /\ option.grid_rows = RowsAsked(argv) /\ option.grid_cols = ColsAsked(argv)
         /\ option.fish_tank = FishTankAsked(argv)
         /\ option.display_events = EventsAsked(argv)
         /\ option.display_grid = GridAsked(argv)
<1> DEFINE read == {k \in 1 .. Len(argv) : k < i}
           numbers == NumbersAt(argv)
           Given(names) == \E k \in read : ~IsNumber(argv[k]) /\ argv[k].name \in names
<1>1. Len(argv) \in Nat /\ i = Len(argv) + 1
  <2>1. argv \in Seq(Arguments)
    BY ArgumentsAssumption DEF MainTypeOK
  <2>2. Len(argv) \in Nat
    BY <2>1, LenProperties
  <2> QED
    BY <2>2 DEF MainTypeOK
<1>2. read = 1 .. Len(argv)
  BY <1>1
<1>3. {k \in read : IsNumber(argv[k])} = numbers
  BY <1>2 DEF NumbersAt
<1>4. /\ numbers = {} => option.grid_rows = 0
      /\ \A k \in numbers :
           (\A j \in numbers : k <= j) => option.grid_rows = argv[k].number
      /\ (\A j, k \in numbers : j = k) => option.grid_cols = 0
      /\ \A k \in numbers :
           (\A j \in numbers : j <= k) /\ (\E j \in numbers : j # k)
             => option.grid_cols = argv[k].number
  BY <1>3 DEF Parsed
<1>5. /\ option.fish_tank <=> Given(FishTankNames)
      /\ option.display_events <=> ~Given(NoEventNames)
      /\ option.display_grid <=> ~Given(NoGridNames)
      /\ \A k \in read :
           ~IsNumber(argv[k])
             => argv[k].name \in OptionNames
  BY DEF Parsed
<1>6. /\ FishTankAsked(argv) <=> Given(FishTankNames)
      /\ EventsAsked(argv) <=> ~Given(NoEventNames)
      /\ GridAsked(argv) <=> ~Given(NoGridNames)
  BY <1>2 DEF FishTankAsked, EventsAsked, GridAsked, Names
<1>7. Names(argv) \subseteq OptionNames
  BY <1>2, <1>5 DEF Names
<1>8. numbers \subseteq 1 .. Len(argv)
  BY DEF NumbersAt
<1>9. /\ option.fish_tank \in BOOLEAN /\ option.display_events \in BOOLEAN
      /\ option.display_grid \in BOOLEAN
  BY DEF MainTypeOK
<1>10. CASE numbers = {}
  <2>1. OthersAt(argv) = {}
    BY <1>10 DEF OthersAt
  <2>2. option.grid_rows = 0 /\ option.grid_cols = 0
    BY <1>4, <1>10
  <2> QED
    BY <1>5, <1>6, <1>7, <1>9, <1>10, <2>1, <2>2
       DEF RowsAsked, ColsAsked, FishTankAsked, EventsAsked, GridAsked
<1>11. CASE numbers # {}
  <2> HIDE DEF numbers
  <2>1. PICK first \in numbers : \A j \in numbers : first <= j
    <3>1. numbers \subseteq Nat
      BY <1>1, <1>8
    <3> QED
      BY <1>11, <3>1, Least
  <2>2. Min(numbers) = first
    <3>1. Min(numbers) \in numbers /\ \A j \in numbers : Min(numbers) <= j
      BY <2>1 DEF Min
    <3>2. numbers \subseteq Int
      BY <1>1, <1>8
    <3>3. Min(numbers) <= first /\ first <= Min(numbers)
      BY <2>1, <3>1
    <3>4. Min(numbers) \in Int /\ first \in Int
      BY <2>1, <3>1, <3>2
    <3> QED
      BY <3>3, <3>4
  <2>3. option.grid_rows = argv[first].number
    BY <1>4, <2>1
  <2>4. option.grid_rows = RowsAsked(argv)
    BY <1>11, <2>2, <2>3 DEF RowsAsked, numbers
  <2>5. OthersAt(argv) = numbers \ {first}
    BY <2>2 DEF OthersAt, numbers
  <2>6. CASE OthersAt(argv) = {}
    <3>1. \A j, k \in numbers : j = k
      BY <2>5, <2>6
    <3> QED
      BY <1>4, <1>5, <1>6, <1>7, <1>9, <2>4, <2>6, <3>1
         DEF ColsAsked, FishTankAsked, EventsAsked, GridAsked
  <2>7. CASE OthersAt(argv) # {}
    <3> DEFINE last == Max(OthersAt(argv))
    <3>1. last \in OthersAt(argv) /\ \A y \in OthersAt(argv) : y <= last
      BY <1>1, <1>8, <2>5, <2>7, LastExists
    <3>2. last \in numbers /\ last # first /\ \A j \in numbers : j <= last
      BY <1>1, <1>8, <2>1, <2>5, <3>1
    <3>3. option.grid_cols = argv[last].number
      BY <1>4, <2>1, <3>2
    <3> QED
      BY <1>5, <1>6, <1>7, <1>9, <2>4, <2>7, <3>3
         DEF ColsAsked, FishTankAsked, EventsAsked, GridAsked
  <2> QED
    BY <2>6, <2>7
<1> QED
  BY <1>10, <1>11

LEMMA ParserStep ==
  MainTypeOK /\ ParserInv /\ OptionsHonoured /\ [MainNext]_allVars
    => ParserInv' /\ OptionsHonoured'
<1> SUFFICES ASSUME MainTypeOK, ParserInv, OptionsHonoured, [MainNext]_allVars
             PROVE  ParserInv' /\ OptionsHonoured'
  OBVIOUS
<1>1. CASE ParseNumber
  <2>1. step = "options" /\ step' = "options"
    BY <1>1 DEF ParseNumber
  <2> QED
    BY <1>1, <2>1, NumberKeeps DEF ParserInv, OptionsHonoured
<1>2. CASE ParseName
  <2>1. step = "options" /\ step' \in {"options", "exit"}
    BY <1>2 DEF ParseName
  <2> QED
    BY <1>2, <2>1, NameKeeps DEF ParserInv, OptionsHonoured
<1>3. CASE Construct
  <2>1. /\ step = "options" /\ i > Len(argv) /\ step' = "fill"
        /\ UNCHANGED <<option, argv>>
    BY <1>3 DEF Construct
  <2>2. argv \in CommandLines
    BY DEF MainTypeOK
  <2>3. Parsed
    BY <2>1 DEF ParserInv
  <2>4. /\ Names(argv) \subseteq OptionNames
        /\ option.grid_rows = RowsAsked(argv) /\ option.grid_cols = ColsAsked(argv)
        /\ option.fish_tank = FishTankAsked(argv)
        /\ option.display_events = EventsAsked(argv)
        /\ option.display_grid = GridAsked(argv)
    BY <2>1, <2>3, ParsedIsAsked
  <2>5. /\ RowsAsked(argv) = InRows
        /\ ColsAsked(argv) = InCols
        /\ FishTankAsked(argv) = FishTank
    BY <2>2, <2>4, CommandLinesAssumption
  <2>6. OptionsHonoured'
    <3>1. /\ EventsAsked(argv)' = EventsAsked(argv)
          /\ GridAsked(argv)' = GridAsked(argv)
      BY <2>1 DEF EventsAsked, GridAsked, Names
    <3> QED
      BY <2>1, <2>4, <2>5, <3>1 DEF OptionsHonoured
  <2> QED
    BY <2>1, <2>6 DEF ParserInv
<1>4. ASSUME UNCHANGED <<argv, i, option>>,
             step' = step \/ (step \notin {"options", "exit"} /\ step' # "options")
      PROVE  ParserInv' /\ OptionsHonoured'
  <2>1. step \in {"options", "fill", "hold", "loop", "cycle", "exit"}
    BY DEF MainTypeOK
  <2>2. Parsed' = Parsed
    BY <1>4 DEF Parsed
  <2>3. ParserInv'
    BY <1>4, <2>2 DEF ParserInv
  <2>4. OptionsHonoured'
    BY <1>4, <2>1 DEF OptionsHonoured
  <2> QED
    BY <2>3, <2>4
<1>5. CASE FillToCapacity \/ HoldEvents
  BY <1>4, <1>5 DEF FillToCapacity, HoldEvents
<1>6. CASE InitiateCycle \/ DisplayEvents \/ Leave
  BY <1>4, <1>6 DEF InitiateCycle, DisplayEvents, Leave
<1>7. CASE InsideTheGrid \/ Exited \/ VectorFull \/ UNCHANGED allVars
  <2>1. UNCHANGED mainVars
    BY <1>7, Zenon DEF InsideTheGrid, Exited, VectorFull, allVars
  <2>2. UNCHANGED <<argv, i, option>> /\ step' = step
    BY <2>1 DEF mainVars
  <2> QED
    BY <1>4, <2>2
<1> QED
  BY <1>1, <1>2, <1>3, <1>5, <1>6, <1>7 DEF MainNext

-----------------------------------------------------------------------------
(* The theorems.                                                           *)

\* The type invariant of the program: the parser never looks past the last
\* argument.
THEOREM MainTypeCorrect == MainSpec => []MainTypeOK
<1>1. MainSpec => []TypeOK
  BY MainImplementsGrid, TypeCorrect, PTL
<1>2. MainInit => MainTypeOK
  BY MainInitType
<1>3. MainTypeOK /\ TypeOK' /\ [MainNext]_allVars => MainTypeOK'
  BY MainStepType
<1> QED
  BY <1>1, <1>2, <1>3, PTL DEF MainSpec

\* Of the command lines considered, whose numbers are the dimensions of the Grid,
\* whatever their length and the order of their arguments: the Grid is built as
\* they ask, and the events are displayed unless they say otherwise.
THEOREM ParserCorrect == MainSpec => []OptionsHonoured
<1>1. MainInit => ParserInv /\ OptionsHonoured
  BY ParserInit DEF MainInit, OptionsHonoured
<1>2. MainTypeOK /\ ParserInv /\ OptionsHonoured /\ [MainNext]_allVars
        => ParserInv' /\ OptionsHonoured'
  BY ParserStep
<1> QED
  BY <1>1, <1>2, MainTypeCorrect, PTL DEF MainSpec

\* No cycle begins before the Grid has been given its vector of events: no
\* battle writes through the uninitialised pointer.
THEOREM PointerSet == MainSpec => []EventsHeld
<1>1. MainInv => EventsHeld
  BY DEF MainInv, CallOrder, EventsHeld
<1> QED
  BY <1>1, MainInvariance, PTL

\* With the display on, the vector is empty whenever a cycle is about to begin.
THEOREM NothingStale == MainSpec => []EventsAreFresh
<1>1. MainInv => EventsAreFresh
  BY DEF MainInv, CallOrder, Printed, EventsHeld, EventsAreFresh
<1> QED
  BY <1>1, MainInvariance, PTL

\* There are never more botbots than MAX_BOTBOTS, for every size of the grid.
THEOREM CapacityKept == MainSpec => []NeverOvercrowded
<1>1. MainInv => NeverOvercrowded
  BY DEF MainInv, Room, NeverOvercrowded
<1> QED
  BY <1>1, MainInvariance, PTL

\* Nobody gets lost: who has been erased from live_bots is in dead_bots, once and
\* with nothing left, for every size of the grid and however the battles end.
THEOREM AllAccounted == MainSpec => []EverybodyAccounted
<1>1. IInv /\ MainInv /\ Account => EverybodyAccounted
  BY DEF IInv, MainInv, CallOrder, Account, EverybodyAccounted
<1> QED
  BY <1>1, MainInvariance, AccountKept, PTL

\* The game never ends with "ALL BOTBOTS DIED": when main() leaves its loop one
\* botbot stands, and the screen says so.
THEOREM OneWinner == MainSpec => []WinnerShown
<1>1. ASSUME IInv, Account, Written, MainInv PROVE WinnerShown
  <2> SUFFICES ASSUME screen # <<>> PROVE WinnerShown
    BY DEF WinnerShown
  <2>1. /\ step = "exit" /\ held /\ Cardinality(Live) <= 1
        /\ screen[1] = Display /\ state # "fill"
    BY <1>1 DEF Written, MainInv, CallOrder
  <2>2. Live # {} /\ Cardinality(Live) + Len(dead_bots) = MAX_BOTBOTS
    BY <1>1, <2>1 DEF Account
  <2>3. IsFiniteSet(Live) /\ Live \subseteq Botbots
    BY <1>1, BotbotsAssumption, FS_Subset DEF IInv, TypeOK
  <2>4. Cardinality(Live) = 1
    BY <2>1, <2>2, <2>3, FS_CardinalityType, FS_EmptySet
  <2>5. PICK b \in Botbots : Live = {b}
    BY <2>3, <2>4, FS_Singleton
  <2>6. Len(dead_bots) = MAX_BOTBOTS - 1
    <3>1. Len(dead_bots) \in Nat /\ MAX_BOTBOTS \in Nat
      BY <1>1, Sizes DEF IInv, TypeOK
    <3> QED
      BY <2>2, <2>4, <3>1
  <2>7. \A c \in Cells :
          bot[c] = IF Coordinates(c) = Coordinates(live_bots[b]) THEN b ELSE Nobody
    <3>1. bot[live_bots[b]] = b /\ live_bots[b] \in Cells
      BY <1>1, <2>5 DEF IInv, CellsAgree, TypeOK
    <3>2. \A c \in Cells : bot[c] # Nobody => c = live_bots[b]
      BY <1>1, <2>5 DEF IInv, CellsAgree
    <3>3. \A c, d \in Cells : Coordinates(c) = Coordinates(d) => c = d
      <4> SUFFICES ASSUME NEW c \in Cells, NEW d \in Cells,
                          Coordinates(c) = Coordinates(d)
                   PROVE  c = d
        OBVIOUS
      <4>1. c \in Int \X Int /\ d \in Int \X Int
        BY Sizes
      <4>2. c[1] + 1 = d[1] + 1 /\ c[2] + 1 = d[2] + 1
        BY DEF Coordinates
      <4> QED
        BY <4>1, <4>2
    <3>4. b # Nobody
      BY Sizes
    <3> HIDE DEF Coordinates
    <3> QED
      BY <3>1, <3>2, <3>3, <3>4
  <2>8. \A k \in 1 .. Len(dead_bots) : dead_bots[k].bot # b
    BY <1>1, <2>5 DEF IInv, DeadAreSpent, Dead
  <2>9. CASE option.display_grid
    <3> DEFINE shown == screen[1]
               population == shown.population
    <3>1. screen[1] = [allDied |-> FALSE, drawn |-> bot, cycles |-> cycles,
                       population |-> PopulationToString]
      BY <2>1, <2>2, <2>9 DEF Display, ToString
    <3>2. /\ population.living = [x \in {b} |-> Coordinates(live_bots[x])]
          /\ population.winner = {b}
          /\ population.fallen = dead_bots
          /\ ~shown.allDied /\ shown.drawn = bot
      BY <2>4, <2>5, <3>1 DEF PopulationToString
    <3>3. population.living[b] = Coordinates(live_bots[b])
      BY <3>2
    <3> HIDE DEF shown, population
    <3> QED
      BY <2>6, <2>7, <2>8, <2>9, <3>2, <3>3 DEF WinnerShown, shown, population
  <2>10. CASE ~option.display_grid
    BY <2>1, <2>4, <2>6, <2>10 DEF WinnerShown, Display, StatsToString
  <2> QED
    BY <2>9, <2>10
<1> QED
  BY <1>1, MainInvariance, AccountKept, PTL

\* While the program runs the botbots hold as many nuts and bolts as they were
\* built with, whatever the grid and however long it runs.
THEOREM ConservationInMain == MainSpec => WealthConserved
BY MainImplementsGrid, Conservation, PTL

\* And in the program the events account for every change of fortune.
THEOREM BalanceInMain == MainSpec => EventsBalance
BY MainImplementsGrid, Balance, PTL
=============================================================================
