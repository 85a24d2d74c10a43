CONSTANTS
  MaxSize = 3
  Statuses = {201, 401, 500}
  Footer = Footer
  End = End
  None = None
SPECIFICATION Spec
INVARIANTS
  TypeOK
  CompleteIsWhole
PROPERTIES
  CopierStops
  CopierRunsOut
  DeliversOrFails
CHECK_DEADLOCK FALSE
