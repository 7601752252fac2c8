SPECIFICATION FairSpec
CONSTANTS
  MaxPages = 3
  Capacity = 1
CHECK_DEADLOCK FALSE
INVARIANTS
  SurfaceIsWhole
  InadmissibleSurvives
  SessionsAreReleased
PROPERTIES
  ImplementsPromise
  FetchEnds
  ReadersLeave
