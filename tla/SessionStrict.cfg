SPECIFICATION Spec
CONSTANTS
  Ids = {i1, i2}
  Names = {"a", "x"}
  LockNames = {"a"}
  Cursors = {c1}
  Eras = {"A", "B"}
  LockEra = "A"
  LockFlow = "classic"
  Warn = FALSE
  EnumIds = {1, 2, 3}
  MaxPending = 2
  MaxTrackedCursors = 1
  MaxPages = 2
  MaxTools = 2
  Requested = {"initialize", "tools/list", "tools/call"}
  None = None
SYMMETRY Symmetry
CONSTRAINT SendsSucceed
INVARIANTS
  TypeOK
  CallableIsCurrent
  StrictEra
PROPERTIES
  ImplementsToolGate
