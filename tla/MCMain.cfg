\* Two botbots on a 2 x 2 grid, with enough nuts and bolts for a loser to lose
\* all, a part or nothing of either; four addresses, so that the grid could be
\* filled a second time.
SPECIFICATION MainSpec
CONSTANTS
  Botbots <- Four
  CommandLines <- Lines
  InRows = 1
  InCols = 2
  FishTank = FALSE
  DEFAULT_GRID_DIM = 2
  POPULATION_DENSITY = 2
  NutsLimit = 4
  BoltsLimit = 2
  MAX_MULTIPLIER = 2
  MIN_NUTS_TO_LOSE = 2
  SURRENDER_MOD = 2
  MaxCycles = 1
  MaxEvents = 3
INVARIANTS OptionsHonoured EventsAreFresh NeverOvercrowded EverybodyAccounted
           WinnerShown
PROPERTIES WealthConserved EventsBalance
