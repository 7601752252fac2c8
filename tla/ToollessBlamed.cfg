SPECIFICATION Spec
CONSTANTS
  Targets <- ToollessTargets
  MaxPages = 3
  MaxDefects = 0
  MaxLosses = 0
CHECK_DEADLOCK FALSE
INVARIANTS
  ToollessIsNotBlamed
