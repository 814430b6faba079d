\* What the poller of the whole cluster promises, with a pool of one.
SPECIFICATION PollerSpec
CONSTANTS
    ClaimGVRs = {"claim"}
    XRGVRs = {"xr"}
    MRGVRs = {"mr", "none"}
    Namespaces = {"n1"}
    Names = {"a", "x", "m"}
    Compositions = {"k1"}
    NoNS = ""
    NoName = ""
    NoComposition = ""
    Objects <- Pool
    Scope <- WholeCluster
    MaxParallel = 1
    Backend = "memory"
    Configs <- PoolConfigs
    MayCancel = TRUE
    NoSnapshot = NoSnapshot
    NoList = NoList
PROPERTIES
    ImplementsMirror
    CyclesComplete
    CancelStops
    Converges
