SPECIFICATION FairSpec
CONSTANTS
  Capacity = 1
  FindCapacity = 1
  MaxFrames = 3
  MaxLines = 2
CHECK_DEADLOCK FALSE
INVARIANTS
  TypeOK
  TransportHasCause
PROPERTIES
  DeathIsReported
  SessionEnds
  RelayGoesOn
