CONSTANTS
  JobIds = {j1, j2}
  Priorities = {0}
  Stamps = {1}
  Artifacts = {a1}
  Resets = {FALSE}
  RefIds = {r1}
  PoolIds = {p1}
  MaxSubmits = 2
  ReuseIds = "terminal"
  Directions = {}
  EscapingErrors = TRUE
  MayClose = TRUE
  Summaries = FALSE
  None = None
SPECIFICATION FairSpec
CHECK_DEADLOCK FALSE
 
PROPERTIES JobsEndOrWedge CloseEnds ImplementsSerialJobs
