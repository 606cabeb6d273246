SPECIFICATION Spec
CONSTANTS
    Kinds = {"gateway", "discovery"}
    r1 = r1
    r2 = r2
    c1 = c1
    c2 = c2
    Routes = {r1, r2}
    Calls = {c1, c2}
    Loop = loop
    MaxUpsets = 2
SYMMETRY Symmetry
 
PROPERTIES  SnapshotForward
CHECK_DEADLOCK FALSE
