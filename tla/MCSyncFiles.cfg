SPECIFICATION FilesSpec
CONSTANTS
  Users = {u1, u2}
  Dirs = {d1, d2, d3}
  Names = {n1, n2}
  Tokens = {t1, t2}
  MaxLogins = 2
  MaxCrashes = 2
  MaxFailures = 1
INVARIANTS FilesTypeOK FilesAreOwned
PROPERTIES NothingLost LaunchRestores
CHECK_DEADLOCK FALSE
SYMMETRY Symmetry
