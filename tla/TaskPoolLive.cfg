SPECIFICATION LiveSpec
CONSTANTS
  Nodes = {n1, n2}
  N = 2
  Window = 1
  MaxRetries = 1
  MaxTries = 4
  MaxFlaps = 0
  Raises = {TRUE}
  Splits = FALSE
  PoolIds = {p1}
  TaskIds = {t1, t2}
  Threads = {h1, h2}
  Capacity = 1
  MaxRecords = 1
  None = None
CHECK_DEADLOCK FALSE
PROPERTIES CallEnds TasksAnswered
