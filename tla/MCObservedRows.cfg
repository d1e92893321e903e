SPECIFICATION Spec
CONSTANTS
  Writers = {"theirs", "ours"}
  Watchings = {{1, 3, 4}}
  StartRows = 3
  Linked = {1, 3}
  StartLinks = 2
  MaxRows = 3
  MaxLinks = 3
  MaxOps = 3
  Huge = 9
INVARIANTS TypeOK AdvanceToldTrue RollbackToldTrue
CHECK_DEADLOCK FALSE
