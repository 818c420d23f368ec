SPECIFICATION Spec
CONSTANTS
    MaxInput = 3
    MaxOutput = 0
    MaxBatch = 1
    Room = 2
INVARIANT BatchRunsAlone
CHECK_DEADLOCK FALSE
