SPECIFICATION Spec
CONSTANTS
  MaxLoads = 3
  Ids = {a, b}
  NoItem = NoItem
INVARIANTS
  TypeOK
  ScreenSafe
PROPERTIES
  ImplementsFeed
CHECK_DEADLOCK FALSE
