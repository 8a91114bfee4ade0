SPECIFICATION SocketFairSpec
CONSTANTS
  MaxWrites = 3
  MaxReads = 2
  AutoDestroy = TRUE
INVARIANTS SocketTypeOK CallbacksAreTrue
PROPERTIES WriteSettles EndReleases
CHECK_DEADLOCK FALSE
