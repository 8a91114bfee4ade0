SPECIFICATION FairSpec
CONSTANTS
  Players = {hudson}
  MaxGeneration = 3
  MaxStamp = 2
  MaxRuns = 2
  ClockSteps <- DistinctMillis
  Lossy = TRUE
  Overlap = TRUE
  PromptRelaunch = FALSE
INVARIANT CountExplained
PROPERTY DepartureNoticed
CHECK_DEADLOCK FALSE
