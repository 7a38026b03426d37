SPECIFICATION Spec
CONSTANTS
    Providers <- ThreeProviders
    Models <- ThreeModels
    Embedded <- BuiltIn
    Cataloged <- WithCatalog
    Documents <- AnyDocument
    Refreshers = {r1, r2}
    MaxDocuments = 2
    None = None
INVARIANTS
    LookupExact
PROPERTIES
    MeaningKept
CHECK_DEADLOCK FALSE
