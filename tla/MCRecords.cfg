SPECIFICATION RecordsSpec
CONSTANTS
    Rows <- MCRows
    MaxRows = 4
    Tenant = {t, w}
    Id = {1, 2}
    Absent = Absent
    MaxWrites = 2
    Server = {p, q}
    Imports <- MCImports
    Caller = {c, d}
    MaxCalls = 4
    Builds <- MCBuilds
    Illegible <- MCIllegible
    Suspect <- MCSuspect
    Masked <- MCMasked
    Builder = {k}
    MinSamples = 1
    Torn = Torn
    MaxBuilds = 2
    MaxFaults = 1
    Worker = {u, v}
    Place = {here, there}
    Symbol = {"TOY.CUB", "TOY.BETA"}
    Nothing = Nothing
    Captured <- MCCaptured
    Toyed <- MCToyed
    Prices <- MCPrices
    ToyPrices <- MCToyPrices
    MaxSiblings = 2
    MaxRuns = 2
    MaxMishaps = 1
    Name = {"csv", "pdf", "bin"}
    KindOf <- MCKindOf
    Content <- MCContent
    MaxUploads = 2
    MaxStops = 1
    Client = {c, d}
    Analyses <- MCAnalyses
    Packages <- MCPackages
    Focus = {g}
    NoFocus = NoFocus
    MaxReviews = 2
    MaxAsked = 3
    MaxBreaks = 1
CHECK_DEADLOCK FALSE
INVARIANTS
    RecordsTypeOK
    LedgerBalances
    SoldInOrder
    TraderIsConsistent
    ReplayTellsTheTruth
    RunsTellOneStory
    UploadsAreWhole
    ReviewsAreOnRecord
PROPERTIES
    ImplementsAtomicStore
