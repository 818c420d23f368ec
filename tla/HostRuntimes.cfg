SPECIFICATION FairSpec
CONSTANTS
    MaxCall = 2
    MaxDaemon = 2
    Packages = {p1}
    MaxFault = 1
    MaxChild = 2
    Pid = {1, 2}
    Instance = {1}
    Default = 1
    MaxEntries = 1
    MaxInput = 3
    MaxOutput = 2
    MaxBatch = 2
    Room = 2
    Command = {a, b}
INVARIANTS AnswersAreOwn ProcessesKept
PROPERTIES ReadyIsWhole  HostGoesOn
CHECK_DEADLOCK FALSE
