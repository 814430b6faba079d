\* XRs without a namespace when namespaces are configured.
SPECIFICATION PollerSpec
CONSTANTS
    ClaimGVRs = {"claim"}
    XRGVRs = {"xr"}
    MRGVRs = {"mr"}
    Namespaces = {"n1", "n2"}
    Names = {"a", "x", "m"}
    Compositions = {"k1"}
    NoNS = ""
    NoName = ""
    NoComposition = ""
    Objects <- Spaces
    Scope <- TwoNamespaces
    MaxParallel = 1
    Backend = "memory"
    Configs <- LinkConfigs
    MayCancel = FALSE
    NoSnapshot = NoSnapshot
    NoList = NoList
PROPERTIES
    ClusterScopedXRsPolled
