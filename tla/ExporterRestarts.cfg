\* Crashes, signals, restarts and restored snapshots.
SPECIFICATION ExporterSpec
CONSTANTS
    ClaimGVRs = {"claim"}
    XRGVRs = {"xr"}
    MRGVRs = {"mr"}
    Namespaces = {"n1"}
    Names = {"a", "x", "m"}
    Compositions = {"k1"}
    NoNS = ""
    NoName = ""
    NoComposition = ""
    Objects <- Labelled
    Scope <- WholeCluster
    MaxParallel = 1
    Backend = "s3"
    Configs <- ComingAndGoing
    MayCancel = TRUE
    NoSnapshot = NoSnapshot
INVARIANTS
    ExporterTypeOK
    RestoredWhole
    StoreMatchesLists
PROPERTIES
    CrashKeepsSnapshot
    RecoversFromRestart
