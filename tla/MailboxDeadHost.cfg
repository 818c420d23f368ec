CONSTANTS
    MaxNonce = 2
    MaxSession = 2
    MaxHost = 2
    MaxItem = 1
    MaxIn = 1
    MaxSaid = 1
    Budget = 1
    MayDie = TRUE
    Expires = FALSE
SPECIFICATION Spec
INVARIANTS DeadHostInputFailsClosed
CHECK_DEADLOCK FALSE
