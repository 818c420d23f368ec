CONSTANTS
    MaxEpoch = 2
    MaxSeq = 2
    MaxRequests = 2
    Commands = {"blank", "interrupt"}
    Instances = {"default", "c-1"}
    KillLag = FALSE
    AllowReboot = FALSE
SPECIFICATION FairSpec
INVARIANTS TypeOK OldHostNeverConsumes OldHostNeverSettles
PROPERTIES ImplementsLifecycle EveryRequestSettles
CHECK_DEADLOCK FALSE
