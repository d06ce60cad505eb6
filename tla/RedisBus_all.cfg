SPECIFICATION FairSpec
CONSTANTS
  Events = {e1, e2}
  Handlers = {h1, h2}
  MaxConcurrent = 1
  BatchSize = 2
  MaxLoops = 2
  MaxLives = 2
  MaxFaults = 1
  CanCrash = TRUE
  CanStop = TRUE
  CanUnsubscribe = TRUE
CHECK_DEADLOCK FALSE
INVARIANTS AckedMeansHandled CallsInv LoopsInv
PROPERTIES ImplementsBus EntriesSettle
