-------------------------------- MODULE Grid --------------------------------
(***************************************************************************)
(* The Grid (grid.h, grid.cpp) and its botbots (botbot.h, botbot.cpp).     *)
(*                                                                         *)
(* Who stands where is recorded three times: each GridCell points to its   *)
(* occupant, the map live_bots leads from a botbot to its cell, and each   *)
(* botbot keeps its own coordinates.  fill_to_capacity creates botbots;    *)
(* move_bots iterates over live_bots while it updates and erases entries   *)
(* of that same map.  One thread calls everything, so one action is one    *)
(* turn of a loop.  The client (main.cpp) calls initiate_cycle, prints the *)
(* events of the battles and deletes them.                                 *)
(*                                                                         *)
(* A botbot is the address of its object: live_bots is ordered by it, and  *)
(* it tells botbots apart in events, where the code has their names.       *)
(***************************************************************************)
EXTENDS Integers, Sequences, FiniteSets, FiniteSetsExt

CONSTANTS
  Botbots,              \* the addresses that new botbot() may return
  InRows, InCols,       \* the arguments of the constructor
  FishTank,             \* fish_tank_mode
  DEFAULT_GRID_DIM,     \* 5 in grid.h
  POPULATION_DENSITY,   \* 5 in grid.h
  NutsLimit,            \* the 100 of rand() % 100, for d_nuts ...
  BoltsLimit,           \* ... and for d_bolts
  MAX_MULTIPLIER,       \* 4 in botbot.cpp
  MIN_NUTS_TO_LOSE,     \* 5 in botbot.cpp
  SURRENDER_MOD,        \* 3 in botbot.cpp
  MaxCycles,            \* cycles_passed is counted up to here
  MaxEvents             \* bound: a cycle that might exceed it is not begun

ASSUME BotbotsAssumption == Botbots \subseteq Nat \ {0} /\ IsFiniteSet(Botbots)
ASSUME SizeAssumption ==
  /\ InRows \in Nat /\ InCols \in Nat /\ FishTank \in BOOLEAN
  /\ DEFAULT_GRID_DIM \in Nat \ {0} /\ POPULATION_DENSITY \in Nat \ {0}
ASSUME BattleAssumption ==
  /\ NutsLimit \in Nat \ {0} /\ BoltsLimit \in Nat \ {0}
  /\ MAX_MULTIPLIER \in Nat \ {0} /\ SURRENDER_MOD \in Nat \ {0}
ASSUME BoundAssumption == MaxCycles \in Nat /\ MaxEvents \in Nat

\* rand() % (n / 2) must not divide by zero for any n from here on.
ASSUME MinNutsAssumption == MIN_NUTS_TO_LOSE \in Nat /\ MIN_NUTS_TO_LOSE >= 2

VARIABLES
  bot,         \* GridCell::bot of each cell of vgrid
  live_bots,   \* the map from botbots to their cells
  dead_bots,   \* the botbots that died, and when
  current,     \* current_row and current_col of each botbot
  nuts, bolts, \* d_nuts and d_bolts of each botbot
  events,      \* the vector hold_events was given
  cycles,      \* cycles_passed
  state,       \* which function the thread is in
  left,        \* fill_to_capacity: how many botbots are still to be made
  it           \* move_bots: the iterator at the head of the loop

vars == <<bot, live_bots, dead_bots, current, nuts, bolts, events, cycles,
          state, left, it>>

-----------------------------------------------------------------------------
Clamp(dim) == IF dim < DEFAULT_GRID_DIM THEN DEFAULT_GRID_DIM ELSE dim

Rows == Clamp(InRows)
Cols == Clamp(InCols)
MAX_BOTBOTS == (Rows * Cols) \div POPULATION_DENSITY

Cells == (0 .. Rows - 1) \X (0 .. Cols - 1)

Nobody == 0  \* NULL, and live_bots.end()

Live == DOMAIN live_bots
Dead == {dead_bots[i].bot : i \in 1 .. Len(dead_bots)}

EmptyCells == {c \in Cells : bot[c] = Nobody}

\* The entry of a map with these keys that follows b's.
Successor(keys, b) ==
  LET later == {x \in keys : x > b} IN IF later = {} THEN Nobody ELSE Min(later)

Smaller(m, n) == IF m < n THEN m ELSE n
Larger(m, n) == IF m > n THEN m ELSE n

-----------------------------------------------------------------------------
Init ==
  /\ bot = [c \in Cells |-> Nobody]
  /\ live_bots = [b \in {} |-> <<0, 0>>]
  /\ dead_bots = <<>>
  /\ current = [b \in Botbots |-> <<0, 0>>]
  /\ nuts = [b \in Botbots |-> 0]
  /\ bolts = [b \in Botbots |-> 0]
  /\ events = <<>>
  /\ cycles = 0
  /\ state = "idle"
  /\ left = 0
  /\ it = Nobody

(* fill_to_capacity *)

\* The model has only so many addresses for new botbots.
FillCall ==
  /\ state = "idle"
  /\ Cardinality(Live) < MAX_BOTBOTS
  /\ left' = Smaller(MAX_BOTBOTS, Cardinality(EmptyCells))
  /\ left' <= Cardinality(Botbots \ (Live \cup Dead))
  /\ state' = "fill"
  /\ UNCHANGED <<bot, live_bots, dead_bots, current, nuts, bolts, events, cycles,
                 it>>

\* One turn of the loop.  random_shuffle makes it any cell that was empty when
\* fill_to_capacity was called and has not had its turn.
FillNext ==
  /\ state = "fill"
  /\ left > 0
  /\ left' = left - 1
  /\ \E b \in Botbots \ (Live \cup Dead), cell \in EmptyCells,
        n \in 0 .. NutsLimit - 1, m \in 0 .. BoltsLimit - 1 :
       /\ nuts' = [nuts EXCEPT ![b] = n]
       /\ bolts' = [bolts EXCEPT ![b] = m]
       /\ bot' = [bot EXCEPT ![cell] = b]
       /\ current' = [current EXCEPT ![b] = cell]
       /\ live_bots' = [x \in Live \cup {b} |->
                          IF x = b THEN cell ELSE live_bots[x]]
  /\ UNCHANGED <<dead_bots, events, cycles, state, it>>

FillReturn ==
  /\ state = "fill"
  /\ left = 0
  /\ state' = "idle"
  /\ UNCHANGED <<bot, live_bots, dead_bots, current, nuts, bolts, events, cycles,
                 left, it>>

-----------------------------------------------------------------------------
(* initiate_cycle and move_bots.                                           *)

\* if (live_bots.size() > 1) move_bots()
CycleBegin ==
  /\ state = "idle"
  /\ Cardinality(Live) > 1
  /\ Len(events) + Cardinality(Live) <= MaxEvents
  /\ it' = Successor(Live, Nobody)
  /\ state' = "move"
  /\ UNCHANGED <<bot, live_bots, dead_bots, current, nuts, bolts, events, cycles,
                 left>>

\* it == live_bots.end(); ++cycles_passed
CycleEnd ==
  /\ state = "move"
  /\ it = Nobody
  /\ cycles' = Smaller(cycles + 1, MaxCycles)
  /\ state' = "idle"
  /\ UNCHANGED <<bot, live_bots, dead_bots, current, nuts, bolts, events, left,
                 it>>

\* Where decide_movement may send a botbot, inside the grid or not.
Wishes(b) == {<<current[b][1] + i, current[b][2] + j>> : i, j \in -1 .. 1}

\* Mutant: a botbot that leaves the grid is not put back.
MoveOutFree(target) ==
  /\ target \notin Cells
  /\ current' = [current EXCEPT ![it] = target]
  /\ it' = Successor(Live, it)
  /\ UNCHANGED <<bot, live_bots, dead_bots, nuts, bolts, events, cycles, state,
                 left>>

\* The botbot tries to leave the grid and is put back on its cell.
MoveOut(target) ==
  /\ target \notin Cells
  /\ current' = [current EXCEPT ![it] = live_bots[it]]
  /\ it' = Successor(Live, it)
  /\ UNCHANGED <<bot, live_bots, dead_bots, nuts, bolts, events, cycles, state,
                 left>>

\* Mutant: the cell the botbot leaves is not freed.
MoveFreeKeep(target) ==
  /\ target \in Cells
  /\ bot[target] = Nobody
  /\ bot' = [bot EXCEPT ![target] = it]
  /\ live_bots' = [live_bots EXCEPT ![it] = target]
  /\ current' = [current EXCEPT ![it] = target]
  /\ it' = Successor(Live, it)
  /\ UNCHANGED <<dead_bots, nuts, bolts, events, cycles, state, left>>

\* Mutant: the iterator is not advanced by a botbot that moves.
MoveFreeStay(target) ==
  /\ target \in Cells
  /\ bot[target] = Nobody
  /\ bot' = [bot EXCEPT ![target] = it, ![live_bots[it]] = Nobody]
  /\ live_bots' = [live_bots EXCEPT ![it] = target]
  /\ current' = [current EXCEPT ![it] = target]
  /\ UNCHANGED <<dead_bots, nuts, bolts, events, cycles, state, left, it>>

\* The cell is free: the botbot moves to it.
MoveFree(target) ==
  /\ target \in Cells
  /\ bot[target] = Nobody
  /\ bot' = [bot EXCEPT ![target] = it, ![live_bots[it]] = Nobody]
  /\ live_bots' = [live_bots EXCEPT ![it] = target]
  /\ current' = [current EXCEPT ![it] = target]
  /\ it' = Successor(Live, it)
  /\ UNCHANGED <<dead_bots, nuts, bolts, events, cycles, state, left>>

\* The cell is the botbot's own, or it is taken and this is a fish tank: nothing
\* is done, in particular to the coordinates decide_movement has changed.
MoveNot(target) ==
  /\ target \in Cells
  /\ bot[target] = it \/ (bot[target] # Nobody /\ FishTank)
  /\ current' = [current EXCEPT ![it] = target]
  /\ it' = Successor(Live, it)
  /\ UNCHANGED <<bot, live_bots, dead_bots, nuts, bolts, events, cycles, state,
                 left>>

-----------------------------------------------------------------------------
(* battleBots and the end of move_bots.                                    *)

\* What the dice may make of a botbot's fortune.
Scores(b) == {nuts[b] * i + bolts[b] * j : i, j \in 0 .. MAX_MULTIPLIER - 1}

\* Mutant: a loser with little loses the minimum.
LossesFixed(n) ==
  IF n < MIN_NUTS_TO_LOSE THEN {MIN_NUTS_TO_LOSE} ELSE 0 .. (n \div 2) - 1

\* How much of n the loser may lose: rand() % (n / 2), or all of it.
Losses(n) == IF n < MIN_NUTS_TO_LOSE THEN {n} ELSE 0 .. (n \div 2) - 1

\* Mutant: both purses are read before either is written.
TransferStale(purse, loser, winner, amount) ==
  LET lost == purse[loser] - amount
      won == purse[winner] + amount
  IN  [[purse EXCEPT ![loser] = lost] EXCEPT ![winner] = won]

\* loser -= amount; winner += amount: they are the same botbot after a tie.
Transfer(purse, loser, winner, amount) ==
  LET paid == [purse EXCEPT ![loser] = @ - amount]
  IN  [paid EXCEPT ![winner] = @ + amount]

Winner(botA, botB, scoreA, scoreB) == IF scoreA < scoreB THEN botB ELSE botA
Loser(botA, botB, scoreA, scoreB) == IF scoreA > scoreB THEN botB ELSE botA

\* Mutant: the names in the event are swapped.
BattleBotsSwapped(botA, botB, scoreA, scoreB, surrender) ==
  LET winner == Winner(botA, botB, scoreA, scoreB)
      loser == Loser(botA, botB, scoreA, scoreB)
  IN  \E n \in Losses(nuts[loser]), m \in Losses(bolts[loser]) :
        /\ nuts' = Transfer(nuts, loser, winner, n)
        /\ bolts' = Transfer(bolts, loser, winner, m)
        /\ events' = Append(events, [nuts |-> n, bolts |-> m,
                                     winner |-> loser, loser |-> winner])

\* battleBots(botA, botB, events).  Both scores that are compared to allow an
\* escape are the larger of the two.
BattleBots(botA, botB, scoreA, scoreB, surrender) ==
  LET winner == Winner(botA, botB, scoreA, scoreB)
      loser == Loser(botA, botB, scoreA, scoreB)
      winnerScore == Larger(scoreA, scoreB)
      loserScore == Larger(scoreB, scoreA)
  IN  IF loserScore < winnerScore \div 2 /\ surrender = 0
      THEN UNCHANGED <<nuts, bolts, events>>
      ELSE \E n \in Losses(nuts[loser]), m \in Losses(bolts[loser]) :
             /\ nuts' = Transfer(nuts, loser, winner, n)
             /\ bolts' = Transfer(bolts, loser, winner, m)
             /\ events' = Append(events, [nuts |-> n, bolts |-> m,
                                          winner |-> winner, loser |-> loser])

\* Mutant: a loser that survives is not told that it is back on old_cell.
SettleUntold(winner, loser, old_cell, new_cell) ==
  \/ /\ nuts'[loser] = 0 /\ bolts'[loser] = 0
     /\ bot' = [bot EXCEPT ![old_cell] = Nobody, ![new_cell] = winner]
     /\ live_bots' = [b \in Live \ {loser} |->
                        IF b = winner THEN new_cell ELSE live_bots[b]]
     /\ dead_bots' = Append(dead_bots, [bot |-> loser, cycle |-> cycles])
     /\ current' = [current EXCEPT ![it] = new_cell]
  \/ /\ nuts'[loser] # 0 \/ bolts'[loser] # 0
     /\ bot' = [bot EXCEPT ![old_cell] = loser, ![new_cell] = winner]
     /\ live_bots' = [live_bots EXCEPT ![winner] = new_cell, ![loser] = old_cell]
     /\ current' = [current EXCEPT ![it] = new_cell]
     /\ UNCHANGED dead_bots

\* Mutant: a loser that dies is not listed among the fallen.
SettleUnlisted(winner, loser, old_cell, new_cell) ==
  \/ /\ nuts'[loser] = 0 /\ bolts'[loser] = 0
     /\ bot' = [bot EXCEPT ![old_cell] = Nobody, ![new_cell] = winner]
     /\ live_bots' = [b \in Live \ {loser} |->
                        IF b = winner THEN new_cell ELSE live_bots[b]]
     /\ current' = [current EXCEPT ![it] = new_cell]
     /\ UNCHANGED dead_bots
  \/ /\ nuts'[loser] # 0 \/ bolts'[loser] # 0
     /\ bot' = [bot EXCEPT ![old_cell] = loser, ![new_cell] = winner]
     /\ live_bots' = [live_bots EXCEPT ![winner] = new_cell, ![loser] = old_cell]
     /\ current' = [current EXCEPT ![it] = new_cell, ![loser] = old_cell]
     /\ UNCHANGED dead_bots

\* What move_bots makes of the battle for new_cell.
Settle(winner, loser, old_cell, new_cell) ==
  \/ /\ nuts'[loser] = 0 /\ bolts'[loser] = 0
     /\ bot' = [bot EXCEPT ![old_cell] = Nobody, ![new_cell] = winner]
     /\ live_bots' = [b \in Live \ {loser} |->
                        IF b = winner THEN new_cell ELSE live_bots[b]]
     /\ dead_bots' = Append(dead_bots, [bot |-> loser, cycle |-> cycles])
     /\ current' = [current EXCEPT ![it] = new_cell]
  \/ /\ nuts'[loser] # 0 \/ bolts'[loser] # 0
     /\ bot' = [bot EXCEPT ![old_cell] = loser, ![new_cell] = winner]
     /\ live_bots' = [live_bots EXCEPT ![winner] = new_cell, ![loser] = old_cell]
     /\ current' = [current EXCEPT ![it] = new_cell, ![loser] = old_cell]
     /\ UNCHANGED dead_bots

\* Mutant: the iterator is not advanced past an entry that is erased.
MoveBattleStay(target, scoreA, scoreB, surrender) ==
  LET occupying == bot[target]
      winner == Winner(occupying, it, scoreA, scoreB)
      loser == IF it = winner THEN occupying ELSE it
  IN  /\ BattleBots(occupying, it, scoreA, scoreB, surrender)
      /\ Settle(winner, loser, live_bots[it], target)
      /\ it' = Successor(Live, it)
      /\ UNCHANGED <<cycles, state, left>>

\* Battle for a cell that another botbot has taken.  The iterator is past the
\* botbot already; if it is at an entry to be erased, it is advanced once more.
MoveBattle(target, scoreA, scoreB, surrender) ==
  LET occupying == bot[target]
      winner == Winner(occupying, it, scoreA, scoreB)
      loser == IF it = winner THEN occupying ELSE it
      next == Successor(Live, it)
  IN  /\ BattleBots(occupying, it, scoreA, scoreB, surrender)
      /\ Settle(winner, loser, live_bots[it], target)
      /\ it' = IF loser = next /\ loser \notin DOMAIN live_bots'
               THEN Successor(Live, next) ELSE next
      /\ UNCHANGED <<cycles, state, left>>

Fight(target) ==
  /\ target \in Cells
  /\ bot[target] \notin {Nobody, it}
  /\ ~FishTank
  /\ \E scoreA \in Scores(bot[target]), scoreB \in Scores(it),
        surrender \in 0 .. SURRENDER_MOD - 1 :
       MoveBattle(target, scoreA, scoreB, surrender)

\* One turn of the loop of move_bots.
MoveBot ==
  /\ state = "move"
  /\ it # Nobody
  /\ \E target \in Wishes(it) :
       \/ MoveOut(target)
       \/ MoveFree(target)
       \/ MoveNot(target)
       \/ Fight(target)

\* printEvents: every event is printed and deleted, and the vector cleared.
PrintEvents ==
  /\ state = "idle"
  /\ events # <<>>
  /\ events' = <<>>
  /\ UNCHANGED <<bot, live_bots, dead_bots, current, nuts, bolts, cycles, state,
                 left, it>>

-----------------------------------------------------------------------------
(* What a Grid says of itself.  Names, layout and times are left out.      *)

\* People count from one.
Coordinates(cell) == <<cell[1] + 1, cell[2] + 1>>

\* The living with their coordinates, the fallen with the cycles they died in,
\* and the winner once there is one.
PopulationToString ==
  [living |-> [b \in Live |-> Coordinates(live_bots[b])],
   fallen |-> dead_bots,
   winner |-> IF Cardinality(Live) = 1 THEN Live ELSE {}]

\* The cells with their occupants and the population below, unless nobody lives.
ToString ==
  IF Live = {} THEN [allDied |-> TRUE]
  ELSE [allDied |-> FALSE, drawn |-> bot, cycles |-> cycles,
        population |-> PopulationToString]

StatsToString ==
  [cycles |-> cycles, living |-> Cardinality(Live), dead |-> Len(dead_bots)]

-----------------------------------------------------------------------------
\* The client calls nothing more: main() leaves its loop.
Rest ==
  /\ state = "idle"
  /\ UNCHANGED vars

Cycle == MoveBot \/ CycleEnd

Next ==
  \/ FillCall \/ FillNext \/ FillReturn
  \/ CycleBegin \/ Cycle
  \/ PrintEvents
  \/ Rest

Spec == Init /\ [][Next]_vars

\* A call of initiate_cycle goes on until it returns.
FairSpec == Spec /\ WF_vars(Cycle)

-----------------------------------------------------------------------------
(* Correctness.                                                            *)

\* The type invariant.
TypeOK ==
  /\ bot \in [Cells -> Botbots \cup {Nobody}]
  /\ Live \subseteq Botbots
  /\ live_bots \in [Live -> Cells]
  /\ dead_bots \in Seq([bot : Botbots, cycle : 0 .. MaxCycles])
  /\ current \in [Botbots -> Int \X Int]
  /\ nuts \in [Botbots -> Nat]
  /\ bolts \in [Botbots -> Nat]
  /\ events \in Seq([nuts : Nat, bolts : Nat, winner : Botbots, loser : Botbots])
  /\ cycles \in 0 .. MaxCycles
  /\ state \in {"idle", "fill", "move"}
  /\ left \in Nat
  /\ it \in Botbots \cup {Nobody}

\* The cells and the map tell the same story: a botbot occupies the cell that
\* live_bots has for it and no other, and whoever occupies a cell is alive.
CellsAgree ==
  /\ \A b \in Live : bot[live_bots[b]] = b
  /\ \A c \in Cells : bot[c] # Nobody => bot[c] \in Live /\ live_bots[bot[c]] = c

\* "Lets the botbot know exactly where he is": a botbot's own coordinates are
\* those of its cell.
PositionsAgree == \A b \in Live : current[b] = live_bots[b]

\* Whatever a botbot believes, it is a place in the grid: vgrid is never indexed
\* with coordinates outside of it.
PositionsInside == \A b \in Live : current[b] \in Cells

\* The iterator of move_bots is never left at an entry that was erased.
IteratorValid == it # Nobody => state = "move" /\ it \in Live

\* A botbot dies once and for all, and takes nothing with it.
DeadAreSpent ==
  /\ \A i, j \in 1 .. Len(dead_bots) : dead_bots[i].bot = dead_bots[j].bot => i = j
  /\ \A b \in Dead : b \notin Live /\ nuts[b] = 0 /\ bolts[b] = 0

\* The inductive invariant behind the safety properties: the three records of a
\* position support one another, and they keep the iterator valid.
IInv ==
  /\ TypeOK
  /\ CellsAgree
  /\ PositionsInside
  /\ ~FishTank => PositionsAgree
  /\ IteratorValid
  /\ DeadAreSpent

Total(purse) == FoldFunction(+, 0, purse)

\* Outside of fill_to_capacity, which builds new ones, the botbots hold the same
\* number of nuts, and of bolts, after every step: battles only move them.
WealthConserved ==
  [][state # "fill" => /\ Total(nuts') = Total(nuts)
                       /\ Total(bolts') = Total(bolts)]_vars

\* The events account for every change of fortune: what a turn of the loop does
\* to the purses is what the one event it appended says, or nothing.
EventsBalance ==
  [][state = "move" =>
       IF Len(events') > Len(events)
       THEN LET e == events'[Len(events')]
                Share(b, amount) == IF b = e.winner /\ b # e.loser THEN amount
                                    ELSE IF b = e.loser /\ b # e.winner
                                         THEN -amount ELSE 0
            IN  \A b \in Botbots : /\ nuts'[b] = nuts[b] + Share(b, e.nuts)
                                   /\ bolts'[b] = bolts[b] + Share(b, e.bolts)
       ELSE UNCHANGED <<nuts, bolts>>]_vars

\* move_bots returns: it reaches the end of the map it is changing.
CycleReturns == state = "move" ~> state = "idle"

\* The Grid implements the game as a spectator sees it.
View == INSTANCE Arena WITH place <- live_bots, fallen <- Dead

ArenaSpec == View!Spec
=============================================================================
