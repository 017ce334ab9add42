CONSTANTS
  Items = 1
  Pieces = 2
  MaxJobs = 2
  Latest = 2
  MaxLaunches = 2
SPECIFICATION DesktopSpec
INVARIANTS KeptIsRight NoStrayAgent
PROPERTY ComesThrough
CHECK_DEADLOCK FALSE
