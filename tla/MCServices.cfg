SPECIFICATION ServicesSpec
CONSTANTS
    Turn = {u, v}
    Target <- MCTarget
    ProviderOf <- MCProviderOf
    Offline = "offline"
    Routes <- MCRoutes
    Raised <- MCRaised
    Elapse = 290
    MaxRetries = 1
    MaxRequests = 3
    Plugin = {"cmd", "pkg", "net"}
    Capability = {"x", "y", "z"}
    Manifest <- MCManifest
    Profiles <- MCProfiles
    MaxObjects = 4
    Request = {r, s}
    Fill = {"a", "a2", "b", "bad"}
    Key <- MCKey
    Day <- MCDay
    Explicit = {"y"}
    Unstorable = {"bad"}
    Batches <- MCBatches
    Windows <- MCWindows
    PageSize = 2
    MaxImports = 3
    LastBar = 2
    OpenPrice <- MCOpenPrice
    InitialCash = 3
    Quantities <- MCQuantities
    MaxReplays = 1
    MaxSessions = 3
    MaxOrders = 2
    Shape <- MCShape
    BarCount = 4
    Strategy <- MCStrategy
    StartCash = 1000
    FeePercent = 1
    SlippagePercent = 1
    CaseCount = 3
    Grade <- MCGrade
    MinSamples = 2
    MaxIterations = 2
    Editor = {e, f}
    Provider = {"main", "cat", "offline"}
    Model = {"m", "o"}
    Catalog <- MCCatalog
    Main = "main"
    Fallback = "offline"
    Conversational = {"m"}
    Lists <- MCLists
    Managed = {"plug"}
    Torn = Torn
    MaxEdits = 3
    Curated = {"built", "pip", "src"}
    Kind <- MCKind
    Wizard = {w, x}
    MaxWizards = 3
    Absent = Absent
    MaxLines = 3
INVARIANTS
    ServicesTypeOK
    AnswerFromOneAttempt
    RestsLeaveAnAnswer
    RegistryIsSound
    JournalIsExact
    AccountIsReplayable
    LooksAheadInAtrOnly
    EvolutionIsSound
    ChoicesSurvive
    EnabledIsThere
PROPERTIES
    RequestEnds
    ExperimentsOnlyGrow
    UserLinesSurvive
\* Everything asked for has been answered, and a bound of the instance is reached.
CHECK_DEADLOCK FALSE
