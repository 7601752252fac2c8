SPECIFICATION Spec
CONSTANTS
  Ids = {i1, i2}
  Names = {"a"}
  LockNames = {"a"}
  Cursors = {c1}
  Eras = {"A", "B"}
  LockEra = "A"
  LockFlow = "stateless"
  Warn = FALSE
  EnumIds = {1, 2, 3}
  MaxPending = 2
  MaxTrackedCursors = 1
  MaxPages = 2
  MaxTools = 1
  Requested = {"server/discover", "tools/list", "other"}
  None = None
SYMMETRY Symmetry
CONSTRAINT SendsSucceed
INVARIANTS
  LinearEnumerations
  NoPoisonedContinuation
