SPECIFICATION DeployedSpec
CONSTANTS
  Files = {1, 2, 3, 4}
  Entry = 1
  Project = {1, 2}
  Top <- TopV
  Parents <- ParentsV
  ImportSets <- ImportsV
  Packers = {p, q}
  MaxEdits = 2
  MaxCached = 1
  Creates = {1, 2}
  Versions = {1, 2}
  Kinds = {"service", "pool"}
  Nodes = {n1, n2}
  GlobalNames = {"a", "b"}
  Patches <- Together
  Plans <- InBatches
  Calls = {1}
  MaxUpdates = 2
  MaxFaults = 1
SYMMETRY Symmetry
CHECK_DEADLOCK FALSE
INVARIANTS  CodeKept CallsSeeGlobals 
