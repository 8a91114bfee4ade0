SPECIFICATION FairSpec
CONSTANTS
  Worlds = {a}
  MaxStarts = 2
  MaxLaunches = 2
  MaxPlayers = 1
  Span = 1
  Home <- LastPort
  MaxActive = 1
  StopsUnspawned = TRUE
  SlowPreparation = TRUE
  SpawnErrors = FALSE
  LateOutput = FALSE
INVARIANT ReadyHasProcess
PROPERTIES LaunchSettles StopCompletes IdleWorldStops
CHECK_DEADLOCK FALSE
