SPECIFICATION CallbacksSpec
CONSTANTS
    MaxTokens = 4
    MaxPasses = 2
    Errors = TRUE
    RemovesNew = FALSE
INVARIANTS CallbacksTypeOK ListIsRight
PROPERTIES CalledOnce EveryoneCalled
CHECK_DEADLOCK FALSE
