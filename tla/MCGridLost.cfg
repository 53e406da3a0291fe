SPECIFICATION Spec
CONSTANTS
  Botbots <- Three
  InRows = 0
  InCols = 3
  FishTank = TRUE
  DEFAULT_GRID_DIM = 2
  POPULATION_DENSITY = 2
  NutsLimit = 2
  BoltsLimit = 1
  MAX_MULTIPLIER = 2
  MIN_NUTS_TO_LOSE = 2
  SURRENDER_MOD = 2
  MaxCycles = 1
  MaxEvents = 3
INVARIANT PositionsAgree
