SPECIFICATION FairSpec
CONSTANTS
  Types = {"message", "reply"}
  Events = {"m1", "m2", "r1"}
  TypeOf <- MCTypeOf
  FollowUp <- MCFollowUp
  NoEvent = "none"
  Handlers = {"h1", "h2"}
  Interests <- MCInterests
  MaxConcurrent = 2
CHECK_DEADLOCK FALSE
INVARIANTS TasksInv StartsInOrder
PROPERTIES ImplementsBus EveryTaskEnds
