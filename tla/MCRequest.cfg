SPECIFICATION Spec
CONSTANTS
  Accept = TRUE
  Retriers = 2
  MaxRetries = 2
INVARIANTS
  TypeOK
  RetriesAreClean
PROPERTIES
  ChainedIsValidated
  HandlerCalledOnce
CHECK_DEADLOCK FALSE
