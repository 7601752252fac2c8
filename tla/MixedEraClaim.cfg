SPECIFICATION Spec
CONSTANTS
  Ids = {i1}
  Names = {"a"}
  LockNames = {"a"}
  Cursors = {c1}
  Eras = {"A", "B"}
  LockEra = "A"
  LockFlow = "stateless"
  Warn = TRUE
  EnumIds = {1, 2, 3}
  MaxPending = 2
  MaxTrackedCursors = 1
  MaxPages = 2
  MaxTools = 1
  Requested = {"tools/list"}
  None = None
PROPERTIES
  CleanClaimUnderLockedEra
