SPECIFICATION Spec
CONSTANTS
    Realms = {r1}
    MaxVersion = 3
    MaxNotifiers = 1
    MaxCallbacks = 1
    MaxSuppress = 1
    MaxCalls = 1
    External = TRUE
    WriteInCallback = TRUE
INVARIANTS TypeOK WorkerHolds
PROPERTIES NotifiedExactly DeliveredAtItsVersion WaitsEnd InitialArrives
CHECK_DEADLOCK FALSE
