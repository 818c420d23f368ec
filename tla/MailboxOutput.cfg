CONSTANTS
    MaxNonce = 2
    MaxSession = 3
    MaxHost = 2
    MaxItem = 0
    MaxIn = 1
    MaxSaid = 2
    Budget = 2
    MayDie = TRUE
    Expires = TRUE
SPECIFICATION FairSpec
INVARIANTS OutputKeptUntilSeen
PROPERTIES OutputShownInOrder OutputIsShown
CHECK_DEADLOCK FALSE
