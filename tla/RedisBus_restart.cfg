SPECIFICATION FairSpec
CONSTANTS
  Events = {e1}
  Handlers = {h1}
  MaxConcurrent = 1
  BatchSize = 1
  MaxLoops = 2
  MaxLives = 2
  MaxFaults = 0
  CanCrash = TRUE
  CanStop = FALSE
  CanUnsubscribe = FALSE
CHECK_DEADLOCK FALSE
PROPERTY AtLeastOnce
