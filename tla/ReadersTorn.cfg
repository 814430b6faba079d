\* A response in the middle of a cycle.
SPECIFICATION ReadersSpec
CONSTANTS
    ClaimGVRs = {"claim"}
    XRGVRs = {"xr"}
    MRGVRs = {"mr"}
    Namespaces = {"n1"}
    Names = {"a", "x", "m"}
    Compositions = {"k1"}
    NoNS = ""
    NoName = ""
    NoComposition = ""
    Objects <- Link
    Scope <- WholeCluster
    MaxParallel = 1
    Backend = "memory"
    Configs <- LinkConfigs
    MayCancel = FALSE
    NoSnapshot = NoSnapshot
INVARIANTS
    ReflectsCompletedCycle
