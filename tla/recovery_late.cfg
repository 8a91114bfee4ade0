SPECIFICATION FairSpec
CONSTANTS
  MaxSaves = 3
  MaxScripts = 2
  UpIsAtomic = TRUE
  TrapWorks = TRUE
  LateInterrupt = TRUE
PROPERTY RestoreIsAtomic
CHECK_DEADLOCK FALSE
