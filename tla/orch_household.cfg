SPECIFICATION Spec
CONSTANTS
  Worlds = {a, b, c}
  MaxStarts = 2
  MaxLaunches = 3
  MaxPlayers = 0
  Span = 2
  Home <- LastPort
  MaxActive = 2
  StopsUnspawned = FALSE
  SlowPreparation = FALSE
  SpawnErrors = TRUE
  LateOutput = TRUE
INVARIANTS OneProcessPerWorld ExitAccountsForAll PortAlwaysFree
SYMMETRY WorldSymmetry
CHECK_DEADLOCK FALSE
