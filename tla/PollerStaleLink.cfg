\* An XR keeps the claim of an earlier cycle when its list fails.
SPECIFICATION PollerSpec
CONSTANTS
    ClaimGVRs = {"claimA", "claimB"}
    XRGVRs = {"xr"}
    MRGVRs = {}
    Namespaces = {"n1"}
    Names = {"a", "b", "x"}
    Compositions = {"k1"}
    NoNS = ""
    NoName = ""
    NoComposition = ""
    Objects <- Duel
    Scope <- WholeCluster
    MaxParallel = 1
    Backend = "memory"
    Configs <- TwoClaimsConfigs
    MayCancel = FALSE
    NoSnapshot = NoSnapshot
    NoList = NoList
INVARIANTS
    LinkedToAReferrer
