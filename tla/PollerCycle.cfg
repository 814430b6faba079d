\* Cycles over the whole cluster, with failing lists and a changing cluster.
SPECIFICATION PollerSpec
CONSTANTS
    ClaimGVRs = {"claim"}
    XRGVRs = {"xr"}
    MRGVRs = {"mr", "none"}
    Namespaces = {"n1"}
    Names = {"a", "b", "x", "m", "z"}
    Compositions = {"k1", "k2"}
    NoNS = ""
    NoName = ""
    NoComposition = ""
    Objects <- Rivals
    Scope <- WholeCluster
    MaxParallel = 2
    Backend = "memory"
    Configs <- PoolConfigs
    MayCancel = FALSE
    NoSnapshot = NoSnapshot
    NoList = NoList
INVARIANTS
    PollerTypeOK
    StoreMatchesLists
    EnrichedAtRest
    LinkedFromThisCycle
