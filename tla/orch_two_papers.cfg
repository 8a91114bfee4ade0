SPECIFICATION Spec
CONSTANTS
  Worlds = {a}
  MaxStarts = 2
  MaxLaunches = 2
  MaxPlayers = 0
  Span = 1
  Home <- LastPort
  MaxActive = 1
  StopsUnspawned = FALSE
  SlowPreparation = TRUE
  SpawnErrors = FALSE
  LateOutput = FALSE
INVARIANT OneProcessPerWorld
CHECK_DEADLOCK FALSE
