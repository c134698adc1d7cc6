CONSTANTS
  j1 = j1  j2 = j2  j3 = j3  b = b
  Jobs = {j1, j2, j3}
  Phases <- MCPhases
  BatchOf <- MCBatchOf
  NoBatch = NoBatch
  Priority <- MCPriority
  BatchLimit = 2
  Limit = 2
  MaxTurns = 2
  MaxClears = 1
  MaxRestarts = 1
SPECIFICATION Spec
CHECK_DEADLOCK FALSE
INVARIANTS PhaseOnce MergedIsHandled
PROPERTIES NothingAfterClear JobSettles
