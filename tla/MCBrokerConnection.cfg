SPECIFICATION Spec
CONSTANTS
    Account = {"a", "b"}
    MaxEvents <- MCMaxEvents
    MaxCorrections = 1
    MaxPages = 2
    MaxAttempts = 2
    MaxRequests = 2
    MaxFaults = 1
    MaxCrashes = 1
INVARIANTS
    TypeOK
    NothingIsSkipped
    ConnectionIsTheOneAskedFor
PROPERTIES
    JournalNeverGoesBack
    FillsArrive
CHECK_DEADLOCK FALSE
