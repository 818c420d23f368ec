SPECIFICATION Spec
CONSTANTS
    Capacity = 2
    MaxSeq = 5
    MaxBatch = 3
    MaxCompacts = 1
    MaxLoads = 2
    MaxFaults = 1
    MaxCrashes = 1
INVARIANTS AckedIsKept SessionIsWhole ListerSeesAcked PreparedIsCurrent
PROPERTIES NothingIsRewritten
CHECK_DEADLOCK FALSE
