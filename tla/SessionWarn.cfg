SPECIFICATION Spec
CONSTANTS
  Ids = {i1, i2}
  Names = {"a", "x"}
  LockNames = {"a"}
  Cursors = {c1, c2}
  Eras = {"A", "B"}
  LockEra = "A"
  LockFlow = "stateless"
  Warn = TRUE
  EnumIds = {1, 2, 3}
  MaxPending = 1
  MaxTrackedCursors = 1
  MaxPages = 2
  MaxTools = 2
  Requested = {"initialize", "tools/list", "tools/call"}
  None = None
SYMMETRY Symmetry
CONSTRAINT SendsSucceed
INVARIANTS
  WrittenSurfaceIsVetted
  RollupNeverDisagrees
  DriftIsReported
  TablesBounded
