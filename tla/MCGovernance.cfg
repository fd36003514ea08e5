SPECIFICATION Spec
CONSTANTS
    Threads = {t1, t2}
    General = general
    Families = {general, fast}
    SampleCounts <- MCSampleCounts
    RiskReasons = {future_leakage}
    Absent = absent
    MinSamples = 20
    MaxEvents = 5
SYMMETRY ThreadSymmetry
INVARIANT TypeOK
INVARIANT OneMandatedChampion
INVARIANT NewestProfileIsCurrent
INVARIANT PromotionsAreEarned
INVARIANT JournalExplainsStatus
PROPERTY JournalOnlyGrows
PROPERTY ImplementsRegister
