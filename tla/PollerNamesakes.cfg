\* Two kinds of claims with the same namespace and name.
SPECIFICATION PollerSpec
CONSTANTS
    ClaimGVRs = {"claimA", "claimB"}
    XRGVRs = {"xr"}
    MRGVRs = {}
    Namespaces = {"n1"}
    Names = {"a", "x"}
    Compositions = {"k1"}
    NoNS = ""
    NoName = ""
    NoComposition = ""
    Objects <- Namesakes
    Scope <- WholeCluster
    MaxParallel = 1
    Backend = "memory"
    Configs <- TwoClaimsConfigs
    MayCancel = FALSE
    NoSnapshot = NoSnapshot
    NoList = NoList
PROPERTIES
    OtherGVRsUntouched
