SPECIFICATION Spec
CONSTANTS
    Logical <- TwoNodes
    Deployed = {1, 2}
    Desired = 2
    Scenarios <- Mixed
 
PROPERTIES  Reclaimed
CHECK_DEADLOCK FALSE
