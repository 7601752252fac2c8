SPECIFICATION Spec
CONSTANTS
  Targets <- MCTargets
  MaxPages = 3
  MaxDefects = 2
  MaxLosses = 2
CHECK_DEADLOCK FALSE
INVARIANTS
  FlaggedExactly
  NothingFabricated
  ViolationsCount
  WalkPassIsWhole
  DeadIsUngraded
