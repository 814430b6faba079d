\* Responses while the poller runs.
SPECIFICATION ReadersSpec
CONSTANTS
    ClaimGVRs = {"claim"}
    XRGVRs = {"xr"}
    MRGVRs = {"mr"}
    Namespaces = {"n1"}
    Names = {"a", "x", "m"}
    Compositions = {"k1"}
    NoNS = ""
    NoName = ""
    NoComposition = ""
    Objects <- LabelledLink
    Scope <- WholeCluster
    MaxParallel = 1
    Backend = "memory"
    Configs <- LinkConfigs
    MayCancel = FALSE
    NoSnapshot = NoSnapshot
PROPERTIES
    ResponsesConverge
