SPECIFICATION Spec
CONSTANTS
    Files = {f1, f2}
    Chunks = 2
    Quota = 3
    HasWatch = TRUE
    MaxWrites = 2
    MaxClears = 1
    MaxEvents = 2
INVARIANTS ActiveIsWhole InFlightIsErased NothingForgotten
PROPERTIES EveryWriteIsSaved
CHECK_DEADLOCK FALSE
