SPECIFICATION FairSpec
CONSTANTS
  None = None
  Calls = {hs, n1}
  Notices = {n1}
  Handshake = hs
  Stateless = {}
  Capacity = 1
  MaxEvents = 2
CHECK_DEADLOCK FALSE
INVARIANTS
  TypeOK
  NoGoroutineOutlivesClose
  HandshakeTakesEffect
  NotLeftWaiting
PROPERTIES
  FailureIsUpstreams
  CloseReturns
  NotificationsResume
