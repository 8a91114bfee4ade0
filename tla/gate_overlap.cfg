SPECIFICATION FairSpec
CONSTANTS
  Players = {hudson}
  MaxConnections = 2
  MaxTokens = 3
  MaxTime = 2
  TTL = 1
  Overlap = TRUE
  LateAnswers = TRUE
INVARIANT OneLease
PROPERTIES LaunchRevokes HeldLeaseLasts AuthorizationLasts LockedSettles LeaseRequestEnds
CHECK_DEADLOCK FALSE
