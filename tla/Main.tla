-------------------------------- MODULE Main --------------------------------
(***************************************************************************)
(* The program (main.cpp): it reads its command line, builds a Grid, fills *)
(* it once, hands it a vector for the events, and then runs one cycle      *)
(* after the other until at most one botbot is left, printing and deleting *)
(* the events of each cycle unless it was told not to.  The screen it      *)
(* leaves behind shows the winner.                                         *)
(*                                                                         *)
(* Grid is the specification of what it calls.  An argument is abstracted  *)
(* to what the code asks about it: number is what atoi() makes of it, name *)
(* what is left of it without its dashes.  Of what is displayed the layout *)
(* and the times are left out.  InRows, InCols and FishTank of the Grid    *)
(* are what the command lines of an instance ask for.                      *)
(***************************************************************************)
EXTENDS Grid

CONSTANT CommandLines  \* the sequences argv[1], argv[2], ... considered

Arguments == [number : Int, name : STRING]

ASSUME ArgumentsAssumption == CommandLines \subseteq Seq(Arguments)

\* Five botbots in the smallest grid there is: the loop of main() is entered.
ASSUME CapacityAssumption == MAX_BOTBOTS > 1

VARIABLES
  argv,    \* the command line
  i,       \* the loop index of the parser
  option,  \* grid_rows, grid_cols, rows_assigned, fish_tank, display_events
           \* and display_grid
  step,    \* where main() is
  held,    \* whether the Grid has been given its vector of events
  screen   \* what has been written since the screen was last erased

mainVars == <<argv, i, option, step, held, screen>>
allVars == <<vars, mainVars>>

-----------------------------------------------------------------------------
FishTankNames == {"fishtank", "f"}
NoEventNames == {"noevent", "ne"}
NoGridNames == {"nogrid", "ng"}
NoSleepNames == {"nosleep", "ff"}  \* only the time it takes depends on them
OptionNames == FishTankNames \cup NoEventNames \cup NoGridNames \cup NoSleepNames

IsNumber(arg) == arg.number # 0

\* What a command line asks for: the first number is the rows, the last of the
\* others the columns, and each option counts wherever it stands.
NumbersAt(line) == {k \in 1 .. Len(line) : IsNumber(line[k])}
OthersAt(line) == NumbersAt(line) \ {Min(NumbersAt(line))}
Names(line) == {line[k].name : k \in {j \in 1 .. Len(line) : ~IsNumber(line[j])}}
RowsAsked(line) ==
  IF NumbersAt(line) = {} THEN 0 ELSE line[Min(NumbersAt(line))].number
ColsAsked(line) ==
  IF OthersAt(line) = {} THEN 0 ELSE line[Max(OthersAt(line))].number
FishTankAsked(line) == Names(line) \cap FishTankNames # {}
EventsAsked(line) == Names(line) \cap NoEventNames = {}
GridAsked(line) == Names(line) \cap NoGridNames = {}

ASSUME CommandLinesAssumption ==
  \A line \in CommandLines :
    \/ ~(Names(line) \subseteq OptionNames)
    \/ /\ RowsAsked(line) = InRows
       /\ ColsAsked(line) = InCols
       /\ FishTankAsked(line) = FishTank

-----------------------------------------------------------------------------
MainInit ==
  /\ Init
  /\ argv \in CommandLines
  /\ i = 1
  /\ option = [grid_rows |-> 0, grid_cols |-> 0, rows_assigned |-> FALSE,
               fish_tank |-> FALSE, display_events |-> TRUE,
               display_grid |-> TRUE]
  /\ step = "options"
  /\ held = FALSE
  /\ screen = <<>>

\* Mutant: rows_assigned is not remembered.
ParseNumberAgain ==
  /\ step = "options" /\ i <= Len(argv)
  /\ IsNumber(argv[i])
  /\ option' = IF option.rows_assigned
               THEN [option EXCEPT !.grid_cols = argv[i].number]
               ELSE [option EXCEPT !.grid_rows = argv[i].number]
  /\ i' = i + 1
  /\ UNCHANGED <<vars, argv, step, held, screen>>

\* atoi(argv[i]) # 0: the first number is the rows, any later one the columns.
ParseNumber ==
  /\ step = "options" /\ i <= Len(argv)
  /\ IsNumber(argv[i])
  /\ option' = IF option.rows_assigned
               THEN [option EXCEPT !.grid_cols = argv[i].number]
               ELSE [option EXCEPT !.grid_rows = argv[i].number,
                                   !.rows_assigned = TRUE]
  /\ i' = i + 1
  /\ UNCHANGED <<vars, argv, step, held, screen>>

\* An option sets its flag; what is none of them ends the program.
ParseName ==
  /\ step = "options" /\ i <= Len(argv)
  /\ ~IsNumber(argv[i])
  /\ \/ /\ argv[i].name \in FishTankNames
        /\ option' = [option EXCEPT !.fish_tank = TRUE]
        /\ UNCHANGED step
     \/ /\ argv[i].name \in NoEventNames
        /\ option' = [option EXCEPT !.display_events = FALSE]
        /\ UNCHANGED step
     \/ /\ argv[i].name \in NoGridNames
        /\ option' = [option EXCEPT !.display_grid = FALSE]
        /\ UNCHANGED step
     \/ /\ argv[i].name \in NoSleepNames
        /\ UNCHANGED <<option, step>>
     \/ /\ argv[i].name \notin OptionNames
        /\ step' = "exit"
        /\ UNCHANGED option
  /\ i' = i + 1
  /\ UNCHANGED <<vars, argv, held, screen>>

\* the_grid::Grid g(grid_rows, grid_cols, fish_tank)
Construct ==
  /\ step = "options" /\ i > Len(argv)
  /\ step' = "fill"
  /\ UNCHANGED <<vars, argv, i, option, held, screen>>

\* g.fill_to_capacity() is called
FillToCapacity ==
  /\ step = "fill"
  /\ FillCall
  /\ step' = "hold"
  /\ UNCHANGED <<argv, i, option, held, screen>>

\* g.hold_events(&events), once fill_to_capacity has returned
HoldEvents ==
  /\ step = "hold"
  /\ state = "idle"
  /\ held' = TRUE
  /\ step' = "loop"
  /\ UNCHANGED <<vars, argv, i, option, screen>>

\* while (g.botbot_count() > 1): g.initiate_cycle() is called
InitiateCycle ==
  /\ step = "loop"
  /\ CycleBegin
  /\ step' = "cycle"
  /\ UNCHANGED <<argv, i, option, held, screen>>

\* What g.to_string(), or g.stats_to_string(), makes of the grid.
Display == IF option.display_grid THEN ToString ELSE StatsToString

\* Mutant: the loop ends with two botbots left.
LeaveEarly ==
  /\ step = "loop"
  /\ state = "idle"
  /\ Cardinality(Live) <= 2
  /\ screen' = <<Display>>
  /\ step' = "exit"
  /\ UNCHANGED <<vars, argv, i, option, held>>

\* The loop ends: one botbot is left, or none.  What there is to be seen of the
\* grid stays on the screen until a key is pressed.
Leave ==
  /\ step = "loop"
  /\ state = "idle"
  /\ Cardinality(Live) <= 1
  /\ screen' = <<Display>>
  /\ step' = "exit"
  /\ UNCHANGED <<vars, argv, i, option, held>>

\* Mutant: the events are deleted, but the vector is not cleared.
DisplayEventsKept ==
  /\ step = "cycle"
  /\ state = "idle"
  /\ step' = "loop"
  /\ UNCHANGED <<vars, argv, i, option, held, screen>>

\* Mutant: the grid is filled up again as soon as somebody has died.
DisplayEventsRefill ==
  /\ step = "cycle"
  /\ state = "idle"
  /\ IF option.display_events /\ events # <<>> THEN PrintEvents
     ELSE UNCHANGED vars
  /\ step' = IF Cardinality(Live) < MAX_BOTBOTS THEN "fill" ELSE "loop"
  /\ UNCHANGED <<argv, i, option, held, screen>>

\* initiate_cycle has returned: the grid is displayed and cleared from the screen,
\* and if (display_events) printEvents(events), which erases what it has written.
\* Without it nobody deletes the events of the cycle.
DisplayEvents ==
  /\ step = "cycle"
  /\ state = "idle"
  /\ IF option.display_events /\ events # <<>> THEN PrintEvents
     ELSE UNCHANGED vars
  /\ step' = "loop"
  /\ UNCHANGED <<argv, i, option, held, screen>>

\* What is inside fill_to_capacity and initiate_cycle.
InsideTheGrid == (FillNext \/ FillReturn \/ Cycle) /\ UNCHANGED mainVars

Exited == step = "exit" /\ UNCHANGED allVars

\* Bound: nobody prints, and the vector has no room for another cycle.
VectorFull ==
  /\ step = "loop"
  /\ Len(events) + Cardinality(Live) > MaxEvents
  /\ UNCHANGED allVars

MainNext ==
  \/ ParseNumber \/ ParseName \/ Construct
  \/ FillToCapacity \/ HoldEvents
  \/ InitiateCycle \/ DisplayEvents \/ Leave
  \/ InsideTheGrid
  \/ Exited \/ VectorFull

MainSpec == MainInit /\ [][MainNext]_allVars

-----------------------------------------------------------------------------
(* Correctness.                                                            *)

\* The type invariant.
MainTypeOK ==
  /\ TypeOK
  /\ argv \in CommandLines
  /\ i \in 1 .. Len(argv) + 1
  /\ option \in [grid_rows : Int, grid_cols : Int, rows_assigned : BOOLEAN,
                 fish_tank : BOOLEAN, display_events : BOOLEAN,
                 display_grid : BOOLEAN]
  /\ step \in {"options", "fill", "hold", "loop", "cycle", "exit"}
  /\ held \in BOOLEAN

\* Whatever the order of the arguments, the Grid is built as the command line
\* asks, and the events and the grid are displayed unless it says otherwise.
OptionsHonoured ==
  step \in {"fill", "hold", "loop", "cycle"} =>
    /\ option.grid_rows = InRows /\ option.grid_cols = InCols
    /\ option.fish_tank = FishTank
    /\ option.display_events = EventsAsked(argv)
    /\ option.display_grid = GridAsked(argv)

\* A battle writes its event through a pointer that is uninitialised until
\* hold_events is called: no cycle begins before.
EventsHeld == state = "move" => held

\* No event is written before there is a vector for it, and with display on, each is
\* printed and deleted in the cycle of its battle, and exactly once: the vector is
\* empty whenever a cycle is about to begin, so it never holds more than the
\* battles of one cycle.
EventsAreFresh ==
  /\ EventsHeld
  /\ step = "loop" /\ option.display_events => events = <<>>

\* fill_to_capacity adds MAX_BOTBOTS botbots, not the number that is missing.
\* main() calls it on an empty grid only, so there are never too many.
NeverOvercrowded == Cardinality(Live) <= MAX_BOTBOTS

\* Nobody gets lost: once the grid is filled, whoever entered it is in the map of
\* the living or once in the list of the fallen, where nobody owns anything, in the
\* middle of a cycle too, when move_bots erases the one entry and appends the other.
EverybodyAccounted ==
  /\ DeadAreSpent
  /\ held => Cardinality(Live) + Len(dead_bots) = MAX_BOTBOTS

\* The game ends with one winner and never with "ALL BOTBOTS DIED": the screen
\* main() leaves behind names it, draws it and nobody else, on the cell whose
\* coordinates are listed for it, and lists all others once among the fallen.
WinnerShown ==
  screen # <<>> =>
    LET shown == screen[1]
        population == shown.population
    IN  IF option.display_grid
        THEN /\ ~shown.allDied
             /\ \E b \in Botbots :
                  /\ population.winner = {b} /\ DOMAIN population.living = {b}
                  /\ \A c \in Cells :
                       shown.drawn[c] =
                         IF Coordinates(c) = population.living[b] THEN b ELSE Nobody
                  /\ \A k \in 1 .. Len(population.fallen) :
                       population.fallen[k].bot # b
                  /\ Len(population.fallen) = MAX_BOTBOTS - 1
        ELSE shown.living = 1 /\ shown.dead = MAX_BOTBOTS - 1
=============================================================================
