CONSTANTS
    MaxNonce = 2
    MaxSession = 2
    MaxHost = 2
    MaxItem = 2
    MaxIn = 3
    MaxSaid = 0
    Budget = 1
    MayDie = TRUE
    Expires = TRUE
SPECIFICATION Spec
INVARIANTS InputInOrder
CHECK_DEADLOCK FALSE
