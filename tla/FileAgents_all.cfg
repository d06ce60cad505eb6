SPECIFICATION FairSpec
CONSTANTS
  Requests = {"r1", "r2"}
  Empty = {}
  Given <- MCGiven
  Files = {"f", "g"}
  Plans <- MCPlans
  MaxRetries = 1
  Workers = 2
CHECK_DEADLOCK FALSE
INVARIANTS JobsInv StragglersTimedOut
PROPERTIES AbandonedNeverStarts SubtasksEnd
