\* Namespaces, the snapshot in the bucket, and cancellation.
SPECIFICATION PollerSpec
CONSTANTS
    ClaimGVRs = {"claim"}
    XRGVRs = {"xr"}
    MRGVRs = {"mr"}
    Namespaces = {"n1", "n2"}
    Names = {"a", "x", "m"}
    Compositions = {"k1"}
    NoNS = ""
    NoName = ""
    NoComposition = ""
    Objects <- Spaces
    Scope <- TwoNamespaces
    MaxParallel = 1
    Backend = "s3"
    Configs <- LinkConfigs
    MayCancel = TRUE
    NoSnapshot = NoSnapshot
    NoList = NoList
INVARIANTS
    StoreMatchesLists
PROPERTIES
    SnapshotsAreComplete
