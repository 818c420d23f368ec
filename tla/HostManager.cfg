CONSTANTS
    MaxCaller = 3
    Retries = 2
    MaxProc = 2
    WaitForAll = TRUE
SPECIFICATION FairSpec
INVARIANTS BootOwnsChannel ReadyHostIsReachable
PROPERTIES OrphansDie
CHECK_DEADLOCK FALSE
