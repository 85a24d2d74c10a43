CONSTANTS
  r1 = r1
  r2 = r2
  Runs <- MCRuns
  LastSecond = 1
  Entries = 2
  None = None
  Hole = Hole
SPECIFICATION SpecAll
SYMMETRY Symmetry
INVARIANTS
  SendTypeOK
  AnnouncedIsDelivered
  SentIsBeginning
CHECK_DEADLOCK FALSE
