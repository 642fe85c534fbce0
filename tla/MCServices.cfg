SPECIFICATION ServicesSpec
CONSTANTS
    NONE = NONE GONE = GONE ev1 = ev1 ev2 = ev2 env1 = env1 env2 = env2 v = v w = w
    Endpoints = {e}
    Events = {ev1, ev2}
    Environments = {env1, env2}
    Passes = {w}
    ReplayCalls = {r}
    MinAge = 0
    Horizon = 1
    Retention = 2
    TxTimeout = 0
    ReconcileBatch = 1
    CleanupBatch = 1
    CleanupPages = 3
    MaxClock = 3
    MaxActs = 2
    Processes = {n}
    Requests = {env1, env2}
    Clients = {ev1, ev2}
    ProxyHops = 2
    RouteClasses = {"write"}
    Credentials = {k}
    Budget <- Tight
    LimitWindow = 2
    Ceiling = 2
    SweepInterval = 1
    MaxSeconds = 2
    MaxRedisFaults = 3
    Deliveries = {1}
    Workers = {v, w}
    Observable <- RealEndpoint
    MaxAttempts = 3
    BaseDelay = 1
    MaxBackoff = 1
    Grace = 1
    BatchSize = 1
    MaxJobs = 1
    MaxFaults = 1
    HttpCalls = {env1, env2}
    Users = {e}
    ApiKeys = {k}
    LogProjects = {"p"}
    ProjectOfKey <- OneProject
    HandlerStatuses = {200}
    PageLimit = 1
    LogBatch = 1
    LogPasses = 2
    LogRetention = 0
    MaxLogTime = 1
    MaxAccessTurns = 1
    Scrapes = {env1, env2}
    Backlogged = {1, 2, 3}
    ProjectOfEnd <- TwoProjects
    MAX_PENDING_PROJECTS = 2
    MaxTurns = 4
    CATALOG <- ShortCatalog
    Paying = {"s2-payments-write"}
    Selections <- AnySelection
    MaxSnapshots = 3
    V4Bits = 3
    V6Bits = 5
    V4Floor = 1
    V6Floor = 1
    V6Seen = {0, 8, 13, 31}
    MaxEdits = 2
SYMMETRY Symmetric
INVARIANTS
    NeverToUninvited
    FanOutComplete
    BudgetKept
    VerdictHonest
    NoRowFromStrangers
    WalkMissesNothing
    ExpositionOfOneMoment
    VerdictEarned
    ManifestOfOneRun
    BootedIsSafe
    ReachesOnlyAllowed
PROPERTIES
    RetentionExact
    TerminalIsFinal
CHECK_DEADLOCK FALSE
