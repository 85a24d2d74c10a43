SPECIFICATION Spec
CONSTANTS
  Timeout = 2
  Lifetime = 3
  NoToken = NoToken
INVARIANTS
  TypeOK
  AllOrNothing
  NoExpiredToken
PROPERTY
  TimedRequestsEnd
CHECK_DEADLOCK FALSE
