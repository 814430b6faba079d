\* From definitions to records, with restarts.
SPECIFICATION IntakeSpec
CONSTANTS
    Envs <- SmallEnvs
    XRDForms <- SmallXRDs
    MRDForms <- SmallMRDs
    PlainCRDs <- SmallCRDs
    Before <- ByKey
    Jobs <- AnyJob
    Contents <- SmallContents
    PageLimit = 1
    MaxLists = 5
INVARIANTS
    PolledOnce
PROPERTIES
    NothingMissed
    ImplementsListCall
    KeepsListing
