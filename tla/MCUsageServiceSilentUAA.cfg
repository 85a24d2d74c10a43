SPECIFICATION Spec
CONSTANTS
  Timeout = 2
  Lifetime = 3
  NoToken = NoToken
PROPERTY
  RequestsEnd
CHECK_DEADLOCK FALSE
