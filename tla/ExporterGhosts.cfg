\* Objects of a kind that is no longer discovered.
SPECIFICATION ExporterSpec
CONSTANTS
    ClaimGVRs = {"claim"}
    XRGVRs = {"xr"}
    MRGVRs = {"mr"}
    Namespaces = {"n1"}
    Names = {"a", "x", "m"}
    Compositions = {"k1"}
    NoNS = ""
    NoName = ""
    NoComposition = ""
    Objects <- Labelled
    Scope <- WholeCluster
    MaxParallel = 1
    Backend = "s3"
    Configs <- ComingAndGoing
    MayCancel = FALSE
    NoSnapshot = NoSnapshot
PROPERTIES
    DeletedDisappear
