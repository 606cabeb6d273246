SPECIFICATION NodeSpec
CONSTANTS
  Kind = "service"
  Ids = {i1, i2}
  Reqs = {r1}
  Names = {v1}
  Wants = {1}
  Capacity = 1
  PoolWants = {1, 2}
  PoolCapacity = 2
  None = None
  Objects = {1, 2}
  Small = {1, 2}
  Refs = {1, 2}
  Namings <- Pairs
  NodeThreads = {n}
  Workers = {w}
  MaxSegs = 2
  SegSize = 2
  MaxStores = 2
  MaxGcs = 1
SYMMETRY Symmetry
CHECK_DEADLOCK FALSE
INVARIANTS IdempotentCreate  SlotsReturned
INVARIANTS ReadRight PinnedKept
