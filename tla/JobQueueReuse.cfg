CONSTANTS
  JobIds = {j1, j2}
  Priorities = {0}
  Stamps = {1}
  Artifacts = {a1, a2}
  Resets = {TRUE, FALSE}
  RefIds = {}
  PoolIds = {p1, p2}
  MaxSubmits = 2
  ReuseIds = "any"
  Directions = {"up", "down"}
  EscapingErrors = TRUE
  MayClose = TRUE
  Summaries = TRUE
  None = None
SPECIFICATION Spec
SYMMETRY Symmetry
CHECK_DEADLOCK FALSE
INVARIANTS SingleActive PoolSafe SummaryFresh
PROPERTY CancelHonoured
