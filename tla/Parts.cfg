SPECIFICATION Spec
CONSTANTS
    MaxWorld = 3
    MaxContextCommand = 4
    MaxProcess = 1
    AnyPackage = {p}
    InLifo = {p}
    MaxJob = 2
    Name = {x}
    Pkg = pkg
    MaxChange = 4
    MaxSync = 4
    Unit = {u, v}
    MaxEvent = 2
    MaxServiceCommand = 3
    MaxLost = 1
    Workspace = {"main", "w"}
    Value = {"x", "y"}
    MaxRestart = 1
    Segment = {"workspace", "a", "..", "."}
    MaxLength = 5
    Piece = {"p", "q"}
    MaxPiece = 3
    MaxGitCommand = 2
    MaxTrouble = 1
    Kind = {"vi", "nano"}
    MaxKey = 3
    MaxEdit = 2
    MaxResize = 1
    ControlRequest = {a, b}
    ControlTimeout = 1
    MaxTime = 3
    Id = {i, j}
    Port = {q}
    MaxEngine = 3
    AnyCall = {a, b}
    Overlap = FALSE
    Edit = {a, b}
    MaxShell = 1
    MaxBroken = 1
    Owner = {o, q}
    Spawn = {s, t}
    Service = service
    MaxStuck = 1
    AnyReset = {"r"}
    BootTry = 2
    MaxReload = 1
    MaxFault = 1
    MaxBootAttempts = 3
    MaxReadyAttempts = 3
    MaxAutostart = 2
    MaxLog = 5
    MaxLines = 2
    MaxMiss = 1
    MaxThrow = 1
SYMMETRY UnitSymmetry
INVARIANTS ContextsKept UserlandKept ServicesKept KnownIsLive TerminalsKept
PROPERTIES SessionKept OverIsOver EditsAreKept BootKept LogKept
CHECK_DEADLOCK FALSE
