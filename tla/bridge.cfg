SPECIFICATION FairSpec
CONSTANTS
  MaxClients = 3
  MaxLaunches = 2
  MaxPages = 2
INVARIANTS TypeOK LaunchIsUsedOnce
PROPERTIES ClosedTunnelNoticed LeaseIsUsed
CHECK_DEADLOCK FALSE
