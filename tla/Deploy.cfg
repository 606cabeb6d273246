SPECIFICATION Spec
CONSTANTS
    Nodes = {1, 2}
    Clients = {1, 2}
    Scenarios <- Mixed
    Inodes = {1, 2, 3}
    Ids = {1, 2, 3}
INVARIANTS  EndsClean 
CHECK_DEADLOCK FALSE
