CONSTANTS
  PoolIds = {p1}
  TaskIds = {t1, t2, t3}
  Threads = {h1, h2}
  Capacity = 2
  MaxRecords = 2
  MaxBackends = 3
  MayCrash = TRUE
  None = None
SPECIFICATION Spec
SYMMETRY Symmetry
CHECK_DEADLOCK FALSE
INVARIANTS OccupancyExact AnswersExact
