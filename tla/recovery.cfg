SPECIFICATION FairSpec
CONSTANTS
  MaxSaves = 3
  MaxScripts = 4
  UpIsAtomic = TRUE
  TrapWorks = TRUE
  LateInterrupt = FALSE
INVARIANTS RecoveriesAreReal RunsOnWholeWorld
PROPERTIES RestoreIsAtomic ServicesReturn
CHECK_DEADLOCK FALSE
