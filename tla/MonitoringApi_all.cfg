SPECIFICATION Spec
CONSTANTS
  e1 = e1
  l1 = l1
  p1 = p1
  p2 = p2
  f1 = f1
  g1 = g1
  Events = {e1}
  Logs = {l1}
  Patches = {p1, p2}
  Target <- MCTarget
  Sets <- MCSets
  Fields = {"status", "result"}
  Feeds = {f1}
  Gauges = {g1}
  Workloads <- MCWorkloads
  MaxLives = 2
  MaxMoves = 1
CHECK_DEADLOCK FALSE
INVARIANTS MonitorInv AnnouncementsExplained PatchesSurvive
PROPERTIES Progress
