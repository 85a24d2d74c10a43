CONSTANTS
  r1 = r1
  r2 = r2
  r3 = r3
  Runs <- MCRuns
  LastSecond = 1
  Entries = 2
  None = None
  Hole = Hole
SPECIFICATION Spec
SYMMETRY Symmetry
INVARIANTS
  TypeOK
  AnnouncedIsWhole
  FailedRunsLeaveNothing
CHECK_DEADLOCK FALSE
