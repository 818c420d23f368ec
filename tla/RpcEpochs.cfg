CONSTANTS
    MaxEpoch = 2
    MaxSeq = 2
    MaxRequests = 3
    Commands = {"spawn"}
    Instances = {"default"}
    KillLag = TRUE
    AllowReboot = TRUE
SPECIFICATION Spec
INVARIANTS AtMostOnce NoCommandCrossesRestart UpHostSharesEpoch
PROPERTIES NoSilentOverwrite
CHECK_DEADLOCK FALSE
