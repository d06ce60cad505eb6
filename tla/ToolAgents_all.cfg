SPECIFICATION ToolSpec
CONSTANTS
  ToolRequests = {r1, r2}
  PlansOf <- MCPlansOf
  ToolRetries <- MCMaxRetries
SYMMETRY Symmetry
CHECK_DEADLOCK FALSE
INVARIANTS ToolsInv EffectsOnce
PROPERTIES IdsFresh
