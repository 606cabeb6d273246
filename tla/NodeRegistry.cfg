CONSTANTS
  Nodes = {n1, n2}
  Addrs = {a1}
  AddrOf <- SameAddr
  Services = {s1}
  MaxChanges = 1
  MaxUpsets = 1
  Stored <- Profiles
  None = None
SPECIFICATION FairSpec
CHECK_DEADLOCK FALSE
INVARIANTS OneInstancePerAddr CordonUndone
PROPERTY InventoryArrives
