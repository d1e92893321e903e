SPECIFICATION FutureSpec
CONSTANTS
  Setters = {s1, s2}
  Resolvers = {r1, r2}
  Waiters = {w1}
  Completers = {c1}
  Clearers = {d1}
  None = None
INVARIANTS
  FutureTypeOK
  CellSafe
PROPERTIES
  ClosureServed
CHECK_DEADLOCK FALSE
