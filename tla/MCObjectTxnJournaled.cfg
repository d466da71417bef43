CONSTANTS
    Values = {v1, v2}
    NoValue = NoValue
    Absent = Absent
    MaxGeneration = 3
    MaxHandles = 2
    TokenSpace = 4
    Sectors <- MCJournaled
    MayTimeout = TRUE
SPECIFICATION Spec
INVARIANTS
    TypeOK
    Unambiguous
    AckedSurvivesPowerLoss
    HandleReadsItsVersion
PROPERTIES
    GenerationsAdvance
    ImplementsAtomicObject
