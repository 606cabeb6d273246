SPECIFICATION ClientSpec
CONSTANTS
  Nodes = {n1, n2}
  N = 2
  Window = 2
  MaxRetries = 1
  MaxTries = 3
  MaxFlaps = 1
  Raises = {FALSE}
  Splits = FALSE
  t1 = t1
  t2 = t2
  t3 = t3
  Wanted = {0, 2}
  MaxIters = 2
  Origins = {"o1", "o2"}
  MaxConns = 1
  MaxIdle = 1
  MaxCalls = 4
SYMMETRY Symmetry
CHECK_DEADLOCK FALSE
INVARIANTS  RecordKept  SleepJustified
