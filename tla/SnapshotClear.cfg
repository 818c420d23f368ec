SPECIFICATION Spec
CONSTANTS
    Files = {f1}
    Chunks = 1
    Quota = 3
    HasWatch = TRUE
    MaxWrites = 2
    MaxClears = 1
    MaxEvents = 2
INVARIANTS ClearedStaysCleared
CHECK_DEADLOCK FALSE
