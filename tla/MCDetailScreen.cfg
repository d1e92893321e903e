SPECIFICATION Spec
CONSTANTS
  MaxLoads = 2
  Ids = {a, b}
INVARIANTS
  TypeOK
  ScreenSafe
PROPERTIES
  ImplementsFeed
CHECK_DEADLOCK FALSE
