SPECIFICATION Spec
CONSTANTS
  Ids = {i1}
  Names = {"a"}
  LockNames = {"a"}
  Cursors = {c1}
  Eras = {"A"}
  LockEra = "A"
  LockFlow = "classic"
  Warn = FALSE
  EnumIds = {1, 2, 3}
  MaxPending = 2
  MaxTrackedCursors = 1
  MaxPages = 2
  MaxTools = 1
  Requested = {"initialize", "tools/list", "tools/call"}
  None = None
PROPERTIES
  SentCallsAreCallable
